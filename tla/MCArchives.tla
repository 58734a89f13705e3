----------------------------- MODULE MCArchives -----------------------------
(***************************************************************************)
(* Archives for the model checker.  An archive is given as the list of its *)
(* entries in document order, each naming its parent by number; they are   *)
(* shaped like what read_xml builds, and small.                            *)
(***************************************************************************)
EXTENDS RcoFormat, SequencesExt

Node(parent, id, type, label) ==
    [parent |-> parent, id |-> id, type |-> type, label |-> label,
     attrs |-> <<>>, lang |-> 0, indexes |-> <<>>, channels |-> <<>>,
     format |-> 0, compression |-> NONE, len |-> 0, readable |-> TRUE]

Tree(id) == Node(1, id, 0, NULL_PTR)
Ref(e) == [ent |-> TRUE, v |-> e]
Lit(v) == [ent |-> FALSE, v |-> v]
Txt(label, n) == [label |-> label, length |-> n, null |-> FALSE]
NullTxt(label) == [label |-> label, length |-> 0, null |-> TRUE]

Image(parent, label, format, compr, n) ==
    [Node(parent, IMG, 1, label) EXCEPT !.format = format,
                                        !.compression = compr, !.len = n]
Model(parent, label, n) == [Node(parent, MODEL, 1, label) EXCEPT !.len = n]
Sound(parent, label, ch, n) ==
    [Node(parent, SOUND, 1, label) EXCEPT !.channels = ch, !.len = n]
Language(parent, lang, texts) ==
    [Node(parent, TEXT, 1, NULL_PTR) EXCEPT !.lang = lang, !.indexes = texts]
Attributed(parent, id, type, label, attrs) ==
    [Node(parent, id, type, label) EXCEPT !.attrs = attrs]

Lost(nodes, es) ==
    [i \in DOMAIN nodes |->
       IF i \in es THEN [nodes[i] EXCEPT !.readable = FALSE] ELSE nodes[i]]

TextLen(node) == FoldLeft(LAMBDA n, t : n + t.length, 0, node.indexes)

Archive(nodes, ps3) ==
    LET field(F(_)) == [i \in DOMAIN nodes |-> F(nodes[i])]
        all == [i \in DOMAIN nodes |-> i]
        len(x) == IF x.id = TEXT THEN TextLen(x) ELSE x.len
    IN [n |-> Len(nodes),
        id |-> field(LAMBDA x : x.id), type |-> field(LAMBDA x : x.type),
        label |-> field(LAMBDA x : x.label),
        parent |-> field(LAMBDA x : x.parent),
        kids |-> [e \in DOMAIN nodes |->
                    SelectSeq(all, LAMBDA i : nodes[i].parent = e)],
        attrs |-> field(LAMBDA x : x.attrs), lang |-> field(LAMBDA x : x.lang),
        indexes |-> field(LAMBDA x : x.indexes),
        channels |-> field(LAMBDA x : x.channels),
        format |-> field(LAMBDA x : x.format),
        compression |-> field(LAMBDA x : x.compression),
        srcLen |-> field(len), srcLenUnpacked |-> field(len),
        readable |-> field(LAMBDA x : x.readable),
        tbl |-> [k \in Kinds |->
                   LET trees == {i \in DOMAIN nodes : /\ nodes[i].parent = 1
                                                      /\ nodes[i].id = k}
                   IN IF k = MAIN \/ trees = {} THEN Nil
                      ELSE CHOOSE i \in trees : \A j \in trees : i <= j],
        ps3 |-> ps3, verId |-> 0, labelsLen |-> 3,
        eventsLen |-> IF ps3 THEN 2 ELSE 0]

(* The attributes of the types used here, after objattribdef-psp.ini and   *)
(* animattribdef-psp.ini: XMList, ObjUnknown0xB, Action, IItem; Animation, *)
(* Fade, Delay, FireEvent.                                                 *)
RefWords == <<"type", "pointer">>
MCRoles ==
    [k \in {OBJ, ANIM} |->
       IF k = OBJ
       THEN (5 :> <<"literal">> \o RefWords \o RefWords) @@ (11 :> <<>>)
            @@ (16 :> RefWords) @@ (24 :> RefWords \o RefWords)
       ELSE (1 :> <<>>) @@ (6 :> RefWords \o <<"literal", "literal", "literal">>)
            @@ (7 :> <<"literal">>) @@ (8 :> RefWords)]

-----------------------------------------------------------------------------
(* Every kind of resource; objects last.  Labels 0, 1 and 2 sum to 7, 9, 7 *)
(* so that some collide.                                                   *)
MCLabelSum == [l \in 0..2 |-> IF l = 1 THEN 9 ELSE 7]

RootNode == Node(0, MAIN, 1, 0)

ResourceNodes ==
    << RootNode,
       Tree(IMG),                                          \* 2
         Image(2, 0, 0, NONE, 5),                          \* 3
         Image(2, 1, 5, ZLIB, 6),                          \* 4
         Image(2, 2, 5, NONE, 4),                          \* 5
       Tree(MODEL),                                        \* 6
         Model(6, 0, 3),                                   \* 7
       Tree(SOUND),                                        \* 8
         Sound(8, 1, << <<6, 0>> >>, 6),                   \* 9
         Sound(8, 2, << <<4, 0>>, <<4, 1>> >>, 8),         \* 10
       Tree(FONT), Node(11, FONT, 1, 1),                   \* 11, 12
       Tree(OBJ),                                          \* 13
         Attributed(13, OBJ, 5, 0,
                    <<Lit(9), Lit(1026), Ref(4), Lit(1024), Lit(5)>>) >>

TextNodes ==
    << RootNode,
       [Node(1, VSMX, 1, 1) EXCEPT !.len = 6],             \* 2
       Tree(TEXT),                                         \* 3
         Language(3, 3, <<Txt(0, 3), Txt(2, 0), Txt(1, 5)>>),
         Language(3, 1, <<Txt(2, 4), Txt(NULL_PTR, 2), Txt(0, 1)>>),
         Language(3, 2, <<NullTxt(1), Txt(0, 7)>>),        \* 6
       Tree(OBJ),                                          \* 7
         Attributed(7, OBJ, 24, 2,
                    <<Lit(1025), Lit(2), Lit(65535), Lit(NULL_PTR)>>) >>

(* Objects inside objects, references forwards and backwards, an animation *)
(* with its actions; the objects and the animations are the last trees.    *)
ObjectNodes ==
    << RootNode,
       Tree(IMG), Image(2, 0, 5, NONE, 4),                 \* 2, 3
       Tree(OBJ),                                          \* 4
         Attributed(4, OBJ, 5, 0,
                    <<Lit(1), Lit(1033), Ref(8), Lit(65535), Lit(NULL_PTR)>>),
           Attributed(5, OBJ, 16, 2, <<Lit(1026), Ref(3)>>),
             Attributed(6, OBJ, 24, 1,
                        <<Lit(1032), Ref(10), Lit(1025), Lit(4)>>),
         Attributed(4, OBJ, 16, 1, <<Lit(1033), Ref(6)>>),
       Tree(ANIM),                                         \* 9
         Node(9, ANIM, 1, 2),                              \* 10
           Attributed(10, ANIM, 6, NULL_PTR,
                      <<Lit(1033), Ref(7), Lit(4), Lit(0), Lit(2)>>),
           Attributed(10, ANIM, 7, NULL_PTR, <<Lit(2)>>),
         Node(9, ANIM, 1, 0),                              \* 13
           Attributed(13, ANIM, 8, NULL_PTR, <<Lit(1024), Lit(0)>>) >>

CompleteArchives ==
    {Archive(n, ps3) : n \in {ResourceNodes, TextNodes, ObjectNodes},
                       ps3 \in BOOLEAN}

(* One or two resources cannot be read, and a reference was not resolved.  *)
Unresolved(nodes, e) == [nodes EXCEPT ![e].attrs[2].v = Nil]

DamagedArchives ==
    {Archive(Lost(ResourceNodes, es), FALSE) :
        es \in {{4}, {3, 7}, {9}, {10}, {5, 9}}}
    \cup {Archive(Lost(TextNodes, {2}), FALSE)}
    \cup {Archive(Unresolved(ObjectNodes, 6), FALSE)}

(* A tree after the objects, and an animation tree without animations.     *)
ImagesLast ==
    << RootNode,
       Tree(OBJ), Attributed(2, OBJ, 16, 0, <<Lit(1026), Ref(5)>>),
       Tree(IMG), Image(4, 1, 5, NONE, 4), Image(4, 2, 5, NONE, 4) >>

NoAnimations ==
    << RootNode,
       Tree(IMG), Image(2, 1, 5, NONE, 4),
       Tree(OBJ), Attributed(4, OBJ, 16, 0, <<Lit(1026), Ref(3)>>),
       Tree(ANIM) >>

MisorderedArchives == {Archive(ImagesLast, FALSE), Archive(NoAnimations, FALSE)}

(* A sound for which no channels are known, before another one.            *)
MuteSound ==
    << RootNode,
       Tree(SOUND), Sound(2, 1, <<>>, 6), Sound(2, 2, << <<4, 0>> >>, 4) >>

MuteArchives == {Archive(MuteSound, FALSE)}

(* Archives whose files are damaged: resources or texts are missing, a     *)
(* reference leads nowhere, or hash tables lie over entries.               *)
(* The last language is lost: what lies behind the texts of the first is   *)
(* taken for a block of texts, the data of an image or, for an image whose *)
(* size is not known, what the copy buffer held.                           *)
StrayNodes ==
    << RootNode,
       Tree(TEXT),
         Language(2, 1, <<Txt(0, 4)>>), Language(2, 2, <<Txt(1, 3)>>),
       Tree(IMG), Image(5, 2, 0, NONE, 16) >>

StrayArchives ==
    LET a == Archive(Lost(StrayNodes, {4}), FALSE)
    IN {a, [a EXCEPT !.srcLenUnpacked[6] = 0]}

AwkwardArchives ==
    {Archive(Lost(TextNodes, es), FALSE) : es \in {{2, 5}, {6}, {4, 5, 6}}}
    \cup StrayArchives \cup DamagedArchives \cup MisorderedArchives

-----------------------------------------------------------------------------
(* The options of the command line, the results of compressors,            *)
(* uninitialised words, and memory in which a tree was held before: a main *)
(* entry with so many children, of which the first is a table of texts.    *)
Pack(hdr, img, cmp) ==
    [packHeader |-> hdr, packText |-> hdr, packImg |-> img,
     packImgCompr |-> cmp, packModel |-> img]

AllOptions == {Pack(NONE, -1, -1), Pack(ZLIB, ZLIB, -1), Pack(NONE, NONE, ZLIB),
               Pack(RLZ, -1, -1)}
PlainOptions == {Pack(NONE, NONE, -1)}

GoodLens == {3, 8}
AnyLens == {0, 3}
MCGarbage == {-77}
AwkwardGarbage == {0, -77}

Remains(n) ==
    <<256 * MAIN + 1, 0, EntryWords, EntryWords, n, 0, 0, 0, 0, 0, 256 * TEXT>>
MCMemories == {<<>>, Remains(1), Remains(70000)}
=============================================================================
