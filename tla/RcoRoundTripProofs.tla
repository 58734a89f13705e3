------------------------- MODULE RcoRoundTripProofs -------------------------
(***************************************************************************)
(* read_rco on a file that write_rco has written: the reader keeps its     *)
(* place and refuses nothing.                                              *)
(*                                                                         *)
(* The first part is about the file.  Nothing in it says where an entry    *)
(* begins but the entry before it: its kind, what its first words tell of  *)
(* its length, how far the next one is.  The entries are shown to lie one  *)
(* right behind the other, each as long as it tells (FormInv).             *)
(*                                                                         *)
(* The second part is about the reader.  It sees the stream of the writer, *)
(* also when that was packed; what it takes up of an entry of each kind is *)
(* what the entry takes; and its calls of read_entry are those of the      *)
(* entry read last and of the entries above it, so that the next entry     *)
(* read is the next one of the document (ReadInv).                         *)
(*                                                                         *)
(* The third part is about the room: what the reader measures the sections *)
(* against is never less than where they end (RoomInv).                    *)
(***************************************************************************)
EXTENDS RcoRoundTrip, RcoWriterLayout

-----------------------------------------------------------------------------
(***************************************************************************)
(* What the file tells of the length of an entry.                          *)
(***************************************************************************)

(* The words write_entry leaves behind the header of an entry.             *)
ExtraLen(e) ==
    CASE rco.id[e] = VSMX /\ rco.type[e] = 1 ->
           2 + IF rco.readable[e] THEN Words(rco.srcLenUnpacked[e]) ELSE 0
      [] rco.id[e] = TEXT /\ rco.type[e] = 1 ->
           TextEntryWords + TextIndexWords * Len(rco.indexes[e])
      [] rco.id[e] \in {IMG, MODEL} /\ rco.type[e] = 1 ->
           3 + (IF rco.ps3 THEN 1 ELSE 0) + (IF src.compr[e] # NONE THEN 1 ELSE 0)
      [] rco.id[e] = SOUND /\ rco.type[e] # 0 -> 3 + ChannelWords(e)
      [] rco.id[e] = FONT /\ rco.type[e] = 1 -> 3
      [] rco.id[e] \in {OBJ, ANIM} /\ rco.type[e] # 0 -> Len(rco.attrs[e])
      [] OTHER -> 0

(* The first of them, as far as the reader takes the length from them.     *)
Told(e) ==
    CASE rco.id[e] = VSMX /\ rco.type[e] = 1 -> <<0, rco.srcLenUnpacked[e]>>
      [] rco.id[e] = TEXT /\ rco.type[e] = 1 -> <<rco.lang[e], Len(rco.indexes[e])>>
      [] rco.id[e] \in {IMG, MODEL} /\ rco.type[e] = 1 ->
           <<rco.format[e] + 65536 * src.compr[e]>>
      [] rco.id[e] = SOUND /\ rco.type[e] # 0 ->
           <<rco.format[e] + 65536 * Len(rco.channels[e])>>
      [] OTHER -> <<>>

(* Kinds of entries written with an extra: as the cases of Extra.          *)
Tells(e) ==
    \/ rco.id[e] \in {VSMX, TEXT, IMG, MODEL} /\ rco.type[e] = 1
    \/ rco.id[e] = SOUND /\ rco.type[e] # 0

LEMMA ChannelWordsType ==
    ASSUME rco \in Archives, NEW e \in E
    PROVE  ChannelWords(e) \in Nat /\ Len(rco.channels[e]) \in Nat
  <1>1. Len(rco.channels[e]) \in Nat
    BY EntryType
  <1> QED BY <1>1 DEF ChannelWords

LEMMA ExtraLenType ==
    ASSUME TypeInv, NEW e \in E
    PROVE  ExtraLen(e) \in Nat
  <1>1. /\ Words(rco.srcLenUnpacked[e]) \in Nat /\ ChannelWords(e) \in Nat
        /\ Len(rco.attrs[e]) \in Nat /\ Len(rco.indexes[e]) \in Nat
    BY EntryType, WordsType, ChannelWordsType DEF TypeInv
  <1> QED BY <1>1 DEF ExtraLen, TextEntryWords, TextIndexWords

(* Three sequences one behind the other.                                   *)
LEMMA ThreeLong ==
    ASSUME NEW s \in Seq(Int), NEW u \in Seq(Int), NEW v \in Seq(Int)
    PROVE  /\ Len(s \o u \o v) = Len(s) + Len(u) + Len(v)
           /\ s \o u \o v \in Seq(Int)
           /\ \A j \in 1..Len(s) : (s \o u \o v)[j] = s[j]
  <1>1. PICK w : w = s \o u
    OBVIOUS
  <1>2. w \in Seq(Int) /\ Len(w) = Len(s) + Len(u) /\ \A j \in 1..Len(s) : w[j] = s[j]
    BY <1>1, ConcatBegins
  <1>3. /\ Len(w \o v) = Len(w) + Len(v) /\ w \o v \in Seq(Int)
        /\ \A j \in 1..Len(w) : (w \o v)[j] = w[j]
    BY <1>2, ConcatBegins
  <1>4. Len(s) \in Nat /\ Len(u) \in Nat
    OBVIOUS
  <1>5. \A j \in 1..Len(s) : j \in 1..Len(w)
    BY <1>2, <1>4
  <1>6. \A j \in 1..Len(s) : (w \o v)[j] = s[j]
    BY <1>2, <1>3, <1>5
  <1> QED BY <1>1, <1>2, <1>3, <1>6

(* What is told comes first.                                               *)
BeginsWith(x, t) == Len(t) \in Nat /\ Len(t) <= Len(x) /\ \A j \in 1..Len(t) : x[j] = t[j]

LEMMA TellsVsmx ==
    ASSUME TypeInv, NEW e \in E, rco.id[e] = VSMX, rco.type[e] = 1
    PROVE  Len(Extra(e)) = ExtraLen(e) /\ BeginsWith(Extra(e), Told(e))
  <1>1. Extra(e) = VsmxExtra(e) /\ Told(e) = <<0, rco.srcLenUnpacked[e]>>
    BY DEF Extra, Told, VSMX, TEXT, IMG, MODEL, SOUND, FONT, OBJ, ANIM
  <1>2. ExtraLen(e) = 2 + IF rco.readable[e] THEN Words(rco.srcLenUnpacked[e]) ELSE 0
    BY DEF ExtraLen, VSMX, TEXT, IMG, MODEL, SOUND, FONT, OBJ, ANIM
  <1>3. PICK n \in Nat : n = rco.srcLenUnpacked[e]
    BY EntryType DEF TypeInv
  <1>4. Words(n) \in Nat /\ e \in Nat
    BY WordsType, EntryType DEF TypeInv
  <1>5. PICK w : w = IF rco.readable[e] THEN Data(e, Words(n)) ELSE <<>>
    OBVIOUS
  <1>6. w \in Seq(Int) /\ Len(w) = IF rco.readable[e] THEN Words(n) ELSE 0
    <2>1. Data(e, Words(n)) \in Seq(Int) /\ Len(Data(e, Words(n))) = Words(n)
      BY <1>4, DataType
    <2> QED BY <1>5, <2>1
  <1>7. PICK t : t = <<0, n>>
    OBVIOUS
  <1>8. t \in Seq(Int) /\ Len(t) = 2
    BY <1>7
  <1>9. /\ Len(t \o w) = Len(t) + Len(w)
        /\ \A j \in 1..Len(t) : (t \o w)[j] = t[j]
    BY <1>6, <1>8, ConcatBegins
  <1>10. Extra(e) = t \o w /\ Told(e) = t
    BY <1>1, <1>3, <1>5, <1>7 DEF VsmxExtra
  <1>11. Len(w) \in Nat
    BY <1>6
  <1>12. Len(t) <= Len(t \o w)
    BY <1>8, <1>9, <1>11
  <1> QED BY <1>2, <1>3, <1>6, <1>8, <1>9, <1>10, <1>12 DEF BeginsWith

LEMMA TellsText ==
    ASSUME TypeInv, NEW e \in E, rco.id[e] = TEXT, rco.type[e] = 1
    PROVE  Len(Extra(e)) = ExtraLen(e) /\ BeginsWith(Extra(e), Told(e))
  <1>1. Extra(e) = TextExtra(e) /\ Told(e) = <<rco.lang[e], Len(rco.indexes[e])>>
    BY DEF Extra, Told, VSMX, TEXT, IMG, MODEL, SOUND, FONT, OBJ, ANIM
  <1>2. ExtraLen(e) = TextEntryWords + TextIndexWords * Len(rco.indexes[e])
    BY DEF ExtraLen, VSMX, TEXT, IMG, MODEL, SOUND, FONT, OBJ, ANIM
  <1>3. Len(TextExtra(e)) = TextEntryWords + TextIndexWords * Len(rco.indexes[e])
    BY TextExtraType
  <1>4. rco.lang[e] \in Int /\ Len(rco.indexes[e]) \in Nat
    BY EntryType DEF TypeInv
  <1>5. PICK t : t = <<rco.lang[e], Len(rco.indexes[e])>>
    OBVIOUS
  <1>6. /\ t \in Seq(Int) /\ Len(t) = 2
        /\ t[1] = rco.lang[e] /\ t[2] = Len(rco.indexes[e])
    BY <1>4, <1>5
  <1>7. \A j \in 1..2 : TextExtra(e)[j] = t[j]
    <2> DEFINE n == TextIndexWords * Len(rco.indexes[e])
               body == [w \in 1..n |->
                 LET i == (w - 1) \div TextIndexWords + 1
                 IN CASE w % 3 = 1 -> rco.indexes[e][i].label
                      [] w % 3 = 2 -> rco.indexes[e][i].length
                      [] OTHER     -> TextOffset(e, i)]
    <2>1. TextExtra(e) = t \o body
      BY <1>5 DEF TextExtra
    <2> HIDE DEF body
    <2>2. DOMAIN t = 1..2 /\ t[1] = rco.lang[e] /\ t[2] = Len(rco.indexes[e])
      BY <1>5, <1>6
    <2>3. n \in Nat
      BY <1>4 DEF TextIndexWords
    <2>4. body \in [1..n -> {body[w] : w \in 1..n}]
      BY DEF body
    <2>5. body \in Seq({body[w] : w \in 1..n})
      BY <2>3, <2>4, FunctionIsSeq
    <2>6. PICK S : S = {body[w] : w \in 1..n} \cup Int
      OBVIOUS
    <2>7. body \in Seq(S) /\ t \in Seq(S)
      <3>1. body \in [1..n -> S]
        BY <2>4, <2>6
      <3>2. t \in Seq(S)
        <4>1. rco.lang[e] \in S /\ Len(rco.indexes[e]) \in S
          BY <1>4, <2>6
        <4>2. \A x, y \in S : <<x, y>> \in Seq(S)
          OBVIOUS
        <4> QED BY <1>5, <4>1, <4>2
      <3> QED BY <2>3, <3>1, <3>2, FunctionIsSeq
    <2> HIDE DEF n
    <2>8. ASSUME NEW j \in 1..2 PROVE TextExtra(e)[j] = t[j]
      <3>1. Len(t) = 2 /\ Len(body) \in Nat
        BY <1>6, <2>5
      <3>2. j \in 1..Len(t)+Len(body) /\ j <= Len(t)
        BY <3>1
      <3>3. (t \o body)[j] = t[j]
        BY <2>7, <3>2, ConcatProperties
      <3> QED BY <2>1, <3>3
    <2> QED BY <2>8
  <1>8. \A j \in 1..Len(t) : TextExtra(e)[j] = t[j]
    BY <1>6, <1>7
  <1>9. Len(t) <= Len(TextExtra(e))
    BY <1>3, <1>4, <1>6 DEF TextEntryWords, TextIndexWords
  <1>10. Extra(e) = TextExtra(e) /\ Told(e) = t
    BY <1>1, <1>5
  <1>11. Len(Extra(e)) = ExtraLen(e)
    BY <1>2, <1>3, <1>10
  <1>12. Len(t) \in Nat
    BY <1>6
  <1>13. BeginsWith(TextExtra(e), t)
    BY <1>8, <1>9, <1>12 DEF BeginsWith
  <1> QED BY <1>10, <1>11, <1>13

(* Words in front of others of any kind.                                   *)
LEMMA BeginsConcat ==
    ASSUME NEW t \in Seq(Int), NEW n \in Nat, NEW S, NEW f \in [1..n -> S]
    PROVE  /\ Len(t \o f) = Len(t) + n
           /\ \A j \in 1..Len(t) : (t \o f)[j] = t[j]
  <1>1. PICK U : U = S \cup Int
    OBVIOUS
  <1>2. t \in Seq(U) /\ Len(t) \in Nat
    <2>1. t \in [1..Len(t) -> U] /\ Len(t) \in Nat
      BY <1>1
    <2> QED BY <2>1
  <1>3. f \in Seq(U) /\ Len(f) = n
    <2>1. f \in [1..n -> U]
      BY <1>1
    <2> QED BY <2>1, FunctionIsSeq
  <1>4. Len(t \o f) = Len(t) + n
    BY <1>2, <1>3, ConcatProperties
  <1>5. ASSUME NEW j \in 1..Len(t) PROVE (t \o f)[j] = t[j]
    <2>1. j \in 1..Len(t)+Len(f) /\ j <= Len(t)
      BY <1>2, <1>3
    <2> QED BY <1>2, <1>3, <2>1, ConcatProperties
  <1> QED BY <1>4, <1>5

LEMMA TellsResource ==
    ASSUME TypeInv, NEW e \in E, rco.id[e] \in {IMG, MODEL}, rco.type[e] = 1
    PROVE  Len(Extra(e)) = ExtraLen(e) /\ BeginsWith(Extra(e), Told(e))
  <1>1. /\ Extra(e) = ResourceExtra(e)
        /\ Told(e) = <<rco.format[e] + 65536 * src.compr[e]>>
    BY DEF Extra, Told, VSMX, TEXT, IMG, MODEL, SOUND, FONT, OBJ, ANIM
  <1>2. ExtraLen(e) = 3 + (IF rco.ps3 THEN 1 ELSE 0)
                        + (IF src.compr[e] # NONE THEN 1 ELSE 0)
    BY DEF ExtraLen, VSMX, TEXT, IMG, MODEL, SOUND, FONT, OBJ, ANIM
  <1>3. /\ rco.format[e] \in Int /\ src.compr[e] \in Int /\ src.len[e] \in Int
        /\ size[rco.id[e]] \in Int /\ rco.srcLenUnpacked[e] \in Int
    <2>1. src.compr[e] \in Compressions /\ src.len[e] \in Nat /\ rco \in Archives
          /\ size \in [Kinds -> Nat]
      BY DEF TypeInv
    <2>2. rco.id[e] \in Kinds /\ rco.format[e] \in Nat /\ rco.srcLenUnpacked[e] \in Nat
      BY <2>1, EntryType
    <2>3. size[rco.id[e]] \in Nat
      BY <2>1, <2>2
    <2>4. src.compr[e] \in Int
      BY <2>1 DEF Compressions, NONE, RLZ
    <2> QED BY <2>1, <2>2, <2>3, <2>4
  <1>a. PICK a \in Int : a = rco.format[e] + 65536 * src.compr[e]
    BY <1>3
  <1>b. PICK b \in Int : b = src.len[e]
    BY <1>3
  <1>c. PICK z \in Int : z = size[rco.id[e]]
    BY <1>3
  <1>4. PICK s : s = <<a, b, z>>
    OBVIOUS
  <1>5. PICK u : u = IF rco.ps3 THEN <<1>> ELSE <<>>
    OBVIOUS
  <1>6. PICK v : v = IF src.compr[e] # NONE THEN <<rco.srcLenUnpacked[e]>> ELSE <<>>
    OBVIOUS
  <1>7. s \in Seq(Int) /\ Len(s) = 3 /\ s[1] = a
    BY <1>4
  <1>8. u \in Seq(Int) /\ Len(u) = IF rco.ps3 THEN 1 ELSE 0
    BY <1>5
  <1>9. v \in Seq(Int) /\ Len(v) = IF src.compr[e] # NONE THEN 1 ELSE 0
    BY <1>3, <1>6
  <1>10. Extra(e) = s \o u \o v
    BY <1>1, <1>4, <1>5, <1>6, <1>a, <1>b, <1>c DEF ResourceExtra
  <1>11. /\ Len(Extra(e)) = Len(s) + Len(u) + Len(v)
         /\ \A j \in 1..Len(s) : Extra(e)[j] = s[j]
    <2>1. /\ Len(s \o u \o v) = Len(s) + Len(u) + Len(v)
          /\ \A j \in 1..Len(s) : (s \o u \o v)[j] = s[j]
      BY <1>7, <1>8, <1>9, ThreeLong
    <2>2. PICK x : x = s \o u \o v
      OBVIOUS
    <2>3. Len(x) = Len(s) + Len(u) + Len(v) /\ \A j \in 1..Len(s) : x[j] = s[j]
      BY ONLY <2>1, <2>2, Zenon
    <2>4. Extra(e) = x
      BY ONLY <1>10, <2>2
    <2> QED BY ONLY <2>3, <2>4, Zenon
  <1>12. Len(Extra(e)) = ExtraLen(e)
    BY <1>2, <1>7, <1>8, <1>9, <1>11
  <1>13. PICK t : t = Told(e)
    OBVIOUS
  <1>14. Len(t) = 1 /\ t[1] = s[1]
    BY <1>1, <1>7, <1>13, <1>a
  <1>15. Len(Extra(e)) >= 1
    BY <1>7, <1>8, <1>9, <1>11
  <1>16. \A j \in 1..Len(t) : Extra(e)[j] = t[j]
    BY <1>7, <1>11, <1>14
  <1>17. BeginsWith(Extra(e), t)
    BY <1>14, <1>15, <1>16 DEF BeginsWith
  <1> QED BY <1>12, <1>13, <1>17

LEMMA TellsSound ==
    ASSUME TypeInv, NEW e \in E, rco.id[e] = SOUND, rco.type[e] # 0
    PROVE  Len(Extra(e)) = ExtraLen(e) /\ BeginsWith(Extra(e), Told(e))
  <1>1. /\ Extra(e) = SoundExtra(e)
        /\ Told(e) = <<rco.format[e] + 65536 * Len(rco.channels[e])>>
    BY DEF Extra, Told, VSMX, TEXT, IMG, MODEL, SOUND, FONT, OBJ, ANIM
  <1>2. ExtraLen(e) = 3 + ChannelWords(e)
    BY DEF ExtraLen, VSMX, TEXT, IMG, MODEL, SOUND, FONT, OBJ, ANIM
  <1>3. /\ rco.format[e] \in Int /\ rco.srcLenUnpacked[e] \in Int /\ size[SOUND] \in Int
        /\ ChannelWords(e) \in Nat /\ Len(rco.channels[e]) \in Nat
    <2>1. size[SOUND] \in Nat
      BY KindNames DEF TypeInv
    <2>2. rco \in Archives
      BY DEF TypeInv
    <2> QED BY <2>1, <2>2, EntryType, ChannelWordsType
  <1>a. PICK a \in Int : a = rco.format[e] + 65536 * Len(rco.channels[e])
    BY <1>3
  <1>b. PICK b \in Int : b = rco.srcLenUnpacked[e]
    BY <1>3
  <1>c. PICK z \in Int : z = size[SOUND]
    BY <1>3
  <1>4. PICK s : s = <<a, b, z>>
    OBVIOUS
  <1>5. s \in Seq(Int) /\ Len(s) = 3 /\ s[1] = a
    BY <1>4
  <1> DEFINE ch == rco.channels[e]
             body == [w \in 1..ChannelWords(e) |->
                       LET c == (w + 1) \div 2
                       IN IF c > Len(ch) THEN IF w % 2 = 1 THEN 0 ELSE NULL_PTR
                          ELSE IF w % 2 = 1 THEN ch[c][1] ELSE ch[c][2] + size[SOUND]]
  <1>6. Extra(e) = s \o body
    BY <1>1, <1>4, <1>a, <1>b, <1>c DEF SoundExtra, ChannelWords
  <1>7. body \in [1..ChannelWords(e) -> {body[w] : w \in 1..ChannelWords(e)}]
    OBVIOUS
  <1> HIDE DEF body
  <1>8. /\ Len(Extra(e)) = 3 + ChannelWords(e)
        /\ \A j \in 1..Len(s) : Extra(e)[j] = s[j]
    <2>1. PICK n \in Nat : n = ChannelWords(e)
      BY <1>3
    <2>2. PICK f : f = body
      OBVIOUS
    <2>3. f \in [1..n -> {f[w] : w \in 1..n}]
      BY <1>7, <2>1, <2>2
    <2>4. Len(s \o f) = Len(s) + n /\ \A j \in 1..Len(s) : (s \o f)[j] = s[j]
      BY <1>5, <2>3, BeginsConcat
    <2>5. Extra(e) = s \o f
      BY ONLY <1>6, <2>2
    <2> QED BY ONLY <1>5, <2>1, <2>4, <2>5
  <1>9. PICK t : t = Told(e)
    OBVIOUS
  <1>10. Len(t) = 1 /\ t[1] = s[1]
    BY <1>1, <1>5, <1>9, <1>a
  <1>11. Len(Extra(e)) >= 1
    BY <1>3, <1>8
  <1>12. \A j \in 1..Len(t) : Extra(e)[j] = t[j]
    BY <1>5, <1>8, <1>10
  <1>13. BeginsWith(Extra(e), t)
    BY <1>10, <1>11, <1>12 DEF BeginsWith
  <1> QED BY <1>2, <1>8, <1>9, <1>13

LEMMA ExtraTells ==
    ASSUME TypeInv, NEW e \in E
    PROVE  /\ Len(Extra(e)) = ExtraLen(e) /\ ExtraLen(e) \in Nat
           /\ Tells(e) => BeginsWith(Extra(e), Told(e)) /\ rco.attrs[e] = <<>>
  <1>1. Tells(e) => Len(Extra(e)) = ExtraLen(e) /\ BeginsWith(Extra(e), Told(e))
    BY TellsVsmx, TellsText, TellsResource, TellsSound DEF Tells
  <1>2. Tells(e) => rco.attrs[e] = <<>>
    <2>1. Tells(e) => rco.id[e] \notin {OBJ, ANIM}
      BY DEF Tells, VSMX, TEXT, IMG, MODEL, SOUND, OBJ, ANIM
    <2>2. IsArchive(rco) /\ E = EntriesOf(rco)
      BY ArchiveType DEF E, TypeInv
    <2> QED BY <2>1, <2>2 DEF IsArchive
  <1>3. ~ Tells(e) => Len(Extra(e)) = ExtraLen(e)
    <2> SUFFICES ASSUME ~ Tells(e) PROVE Len(Extra(e)) = ExtraLen(e)
      OBVIOUS
    <2>1. CASE rco.id[e] = FONT /\ rco.type[e] = 1
      BY <2>1 DEF Extra, ExtraLen, VSMX, TEXT, IMG, MODEL, SOUND, FONT, OBJ, ANIM
    <2>2. CASE rco.id[e] \in {OBJ, ANIM} /\ rco.type[e] # 0
      <3>1. Extra(e) = Placeholders(e) /\ ExtraLen(e) = Len(rco.attrs[e])
        BY <2>2 DEF Extra, ExtraLen, VSMX, TEXT, IMG, MODEL, SOUND, FONT, OBJ, ANIM
      <3> QED BY <3>1, PlaceholdersType
    <2>3. CASE ~ (rco.id[e] = FONT /\ rco.type[e] = 1)
               /\ ~ (rco.id[e] \in {OBJ, ANIM} /\ rco.type[e] # 0)
      <3>1. Extra(e) = <<>> /\ ExtraLen(e) = 0
        BY <2>3 DEF Extra, ExtraLen, Tells
      <3> QED BY <3>1
    <2> QED BY <2>1, <2>2, <2>3
  <1> QED BY <1>1, <1>2, <1>3, ExtraLenType

-----------------------------------------------------------------------------
(* The entries lie one behind the other with nothing between them, and say *)
(* how long they are.                                                      *)

EndAt(e) == offset[e] + EntryWords + ExtraLen(e)
Ahead(m) == IF m = 0 THEN HeaderWords ELSE EndAt(m)

Follow(m) == (\A e \in 1..m : offset[e] = Ahead(e - 1)) /\ Ahead(m) <= StreamEnd

Telling(m) == \A e \in 1..m : Tells(e) => Recorded(e, Told(e), m)

(* The entries that are written follow one another, and each of them tells *)
(* its length.                                                             *)
FormInv ==
    /\ pc = "entries" => \E m \in 0..N :
         /\ Placed(m) /\ Linked(m) /\ AtEnd(m) /\ Calls(m)
         /\ Follow(m) /\ Ahead(m) = StreamEnd /\ Telling(m)
    /\ TreeWritten => Follow(N) /\ Telling(N)

LEMMA FormSame ==
    ASSUME rco' = rco, src' = src
    PROVE  /\ \A e : ExtraLen(e)' = ExtraLen(e) /\ Told(e)' = Told(e)
           /\ \A e : Tells(e)' <=> Tells(e)
  BY DEF ExtraLen, Told, Tells, ChannelWords

LEMMA EnterWords ==
    ASSUME TypeInv, NEW m \in 0..N-1, pos = StreamEnd,
           NEW parent \in Int, NEW prev \in Int, Enter(m + 1, parent, prev)
    PROVE  /\ UNCHANGED <<rco, src, opts, header>>
           /\ offset'[m + 1] = StreamEnd /\ \A b \in 1..m : offset'[b] = offset[b]
           /\ Extended /\ StreamEnd' = StreamEnd + EntryWords + ExtraLen(m + 1)
           /\ ExtraLen(m + 1) \in Nat
           /\ Tells(m + 1) => \A j \in 1..Len(Told(m + 1)) :
                 WordAt(Stream', StreamEnd + EntryWords + j - 1) = Told(m + 1)[j]
  <1> DEFINE c == m + 1
  <1>1. /\ rco \in Archives /\ UNCHANGED <<rco, src, opts, header>> /\ pos \in Int
        /\ c \in E /\ c \in Nat /\ offset \in [E -> Nat] /\ E = 1..N /\ N \in Nat
    <2>1. rco \in Archives /\ UNCHANGED <<rco, src, opts, header>> /\ pos \in Int
          /\ offset \in [E -> Nat]
      BY DEF TypeInv, Enter
    <2>2. c \in E /\ c \in Nat /\ E = 1..N /\ N \in Nat
      BY <2>1, ParentType
    <2> QED BY <2>1, <2>2
  <1>2. offset'[c] = StreamEnd /\ \A b \in 1..m : offset'[b] = offset[b]
    <2>1. offset' = [offset EXCEPT ![c] = pos]
      BY DEF Enter
    <2>2. \A b \in 1..m : b \in E /\ b # c
      BY <1>1
    <2> HIDE DEF c
    <2> QED BY <1>1, <2>1, <2>2
  <1>3. Fwrite(EntryHeader(c, pos, parent, prev, 0) \o Extra(c))
    BY DEF Enter
  <1> HIDE DEF c
  <1>4. PICK p \in Int : p = pos
    BY <1>1
  <1>5. PICK h : h = EntryHeader(c, p, parent, prev, 0)
    OBVIOUS
  <1>6. PICK x : x = Extra(c)
    OBVIOUS
  <1>7. h \in Seq(Int) /\ Len(h) = EntryWords
    <2>1. \A nxt \in Int : /\ EntryHeader(c, p, parent, prev, nxt) \in Seq(Int)
                           /\ Len(EntryHeader(c, p, parent, prev, nxt)) = EntryWords
      BY <1>1, HeaderWordsType
    <2> QED BY <1>5, <2>1
  <1>8. /\ x \in Seq(Int) /\ Len(x) = ExtraLen(c) /\ ExtraLen(c) \in Nat
        /\ Tells(c) => BeginsWith(x, Told(c))
    BY <1>1, <1>6, ExtraType, ExtraTells
  <1>9. PICK ws : ws = h \o x
    OBVIOUS
  <1>10. /\ ws \in Seq(Int) /\ Len(ws) = EntryWords + ExtraLen(c)
         /\ \A j \in 1..Len(x) : ws[EntryWords + j] = x[j]
    <2>1. /\ ws \in Seq(Int) /\ Len(ws) = Len(h) + Len(x)
          /\ \A j \in 1..Len(x) : ws[Len(h) + j] = x[j]
      BY <1>7, <1>8, <1>9, ConcatBegins
    <2> QED BY <1>7, <1>8, <2>1
  <1>11. Fwrite(ws)
    BY <1>3, <1>4, <1>5, <1>6, <1>9
  <1>12. /\ Extended /\ StreamEnd' = StreamEnd + Len(ws)
         /\ LiesAt(Stream', StreamEnd, ws)
    BY <1>1, <1>10, <1>11, FwriteExtends
  <1>13. StreamEnd \in Nat /\ EntryWords \in Nat
    BY StreamType DEF EntryWords
  <1>14. ASSUME Tells(c), NEW j \in 1..Len(Told(c))
         PROVE  WordAt(Stream', StreamEnd + EntryWords + j - 1) = Told(c)[j]
    <2>1. j \in Nat /\ j \in 1..Len(x) /\ x[j] = Told(c)[j]
      <3>1. BeginsWith(x, Told(c)) /\ Len(x) \in Nat
        BY <1>8, <1>14
      <3> QED BY <3>1 DEF BeginsWith
    <2>2. EntryWords + j \in 1..Len(ws) /\ ws[EntryWords + j] = x[j]
      BY <1>8, <1>10, <1>13, <2>1
    <2>3. WordAt(Stream', StreamEnd + (EntryWords + j) - 1) = ws[EntryWords + j]
      BY <1>12, <2>2 DEF LiesAt
    <2>4. StreamEnd + (EntryWords + j) - 1 = StreamEnd + EntryWords + j - 1
      BY <1>13, <2>1
    <2> QED BY <2>1, <2>2, <2>3, <2>4
  <1>15. StreamEnd' = StreamEnd + EntryWords + ExtraLen(c)
    BY <1>8, <1>10, <1>12, <1>13
  <1> QED BY <1>1, <1>2, <1>8, <1>12, <1>14, <1>15 DEF c

LEMMA EnterForm ==
    ASSUME TypeInv, NEW m \in 0..N-1, Placed(m), pos = StreamEnd,
           NEW parent \in Int, NEW prev \in Int, Enter(m + 1, parent, prev),
           Follow(m), Ahead(m) = StreamEnd, Telling(m)
    PROVE  Follow(m + 1)' /\ Ahead(m + 1)' = StreamEnd' /\ Telling(m + 1)'
  <1> DEFINE c == m + 1
  <1>1. /\ rco \in Archives /\ c \in E /\ c \in Nat /\ m \in Nat /\ E = 1..N
        /\ N \in Nat /\ m \in 0..N /\ offset \in [E -> Nat]
        /\ StreamEnd \in Nat /\ EntryWords \in Nat
    <2>1. rco \in Archives /\ offset \in [E -> Nat]
      BY DEF TypeInv
    <2>2. E = 1..N /\ N \in Nat
      BY <2>1, ParentType
    <2> QED BY <2>1, <2>2, StreamType DEF EntryWords
  <1>2. /\ UNCHANGED <<rco, src>>
        /\ offset'[c] = StreamEnd /\ \A b \in 1..m : offset'[b] = offset[b]
        /\ Extended /\ StreamEnd' = StreamEnd + EntryWords + ExtraLen(c)
        /\ ExtraLen(c) \in Nat
        /\ Tells(c) => \A j \in 1..Len(Told(c)) :
              WordAt(Stream', StreamEnd + EntryWords + j - 1) = Told(c)[j]
    BY EnterWords
  <1>3. /\ \A e : ExtraLen(e)' = ExtraLen(e) /\ Told(e)' = Told(e)
        /\ \A e : Tells(e)' <=> Tells(e)
    BY <1>2, FormSame
  <1>4. c # 0 /\ 1..c = 1..m \cup {c} /\ c - 1 = m
    BY <1>1
  <1>5. Ahead(c)' = StreamEnd'
    BY <1>1, <1>2, <1>3, <1>4 DEF Ahead, EndAt
  <1>6. \A b \in 0..m : Ahead(b)' = Ahead(b)
    <2> TAKE b \in 0..m
    <2>1. b = 0 \/ b \in 1..m
      BY <1>1
    <2> QED BY <1>2, <1>3, <2>1 DEF Ahead, EndAt
  <1>7. \A e \in 1..c : offset'[e] = Ahead(e - 1)'
    <2> TAKE e \in 1..c
    <2>1. CASE e = c
      <3>1. Ahead(m)' = Ahead(m)
        BY <1>1, <1>6
      <3> HIDE DEF c
      <3> QED BY <1>2, <1>4, <2>1, <3>1
    <2>2. CASE e \in 1..m
      <3>1. e - 1 \in 0..m /\ offset[e] = Ahead(e - 1)
        BY <1>1, <2>2 DEF Follow
      <3> QED BY <1>2, <1>6, <2>2, <3>1
    <2> QED BY <1>4, <2>1, <2>2
  <1> HIDE DEF c
  <1>8. StreamEnd' \in Int /\ StreamEnd' >= StreamEnd /\ Follow(c)'
    BY <1>1, <1>2, <1>5, <1>7 DEF Follow
  <1>9. Tells(c) => Recorded(c, Told(c), c)'
    <2> SUFFICES ASSUME Tells(c) PROVE Recorded(c, Told(c), c)'
      OBVIOUS
    <2>1. BeginsWith(Extra(c), Told(c)) /\ Len(Extra(c)) = ExtraLen(c)
      BY <1>1, ExtraTells
    <2>2. Len(Told(c)) \in Nat /\ Len(Told(c)) <= ExtraLen(c)
      BY <2>1 DEF BeginsWith
    <2>3. offset'[c] + EntryWords + Len(Told(c)) <= StreamEnd'
      BY <1>1, <1>2, <2>2
    <2>4. \A g \in c+1..c : FALSE
      BY <1>1
    <2>5. PICK t : t = Told(c)
      OBVIOUS
    <2>6. \A j \in 1..Len(t) : WordAt(Stream', offset'[c] + EntryWords + j - 1) = t[j]
      BY <1>2, <2>5
    <2>7. Recorded(c, t, c)'
      BY <2>3, <2>4, <2>5, <2>6 DEF Recorded
    <2> QED BY <1>3, <2>5, <2>7
  <1>10. ASSUME NEW e \in 1..m, Tells(e)
         PROVE  Recorded(e, Told(e), c)'
    <2>1. Recorded(e, Told(e), m)
      BY <1>10 DEF Telling
    <2>2. PICK t : t = Told(e)
      OBVIOUS
    <2>3. e \in E
      BY <1>1
    <2>4. Len(t) \in Nat /\ rco.attrs[e] = <<>>
      BY <1>10, <2>2, <2>3, ExtraTells DEF BeginsWith
    <2>5. ChangesRecord(m)
      BY <1>2, <1>8, AppendedRecord DEF Extended
    <2>6. \A g \in e+1..c : offset'[g] \in Int /\
             ((g <= m /\ offset'[g] = offset[g]) \/ offset'[g] >= StreamEnd)
      <3> TAKE g \in e+1..c
      <3>1. g = c \/ g \in 1..m
        BY <1>1, <1>4
      <3>2. CASE g = c
        <4>1. offset'[g] \in Int /\ offset'[g] >= StreamEnd
          BY <1>1, <1>2, <3>2
        <4> QED BY <4>1
      <3>3. CASE g \in 1..m
        <4>1. g \in E /\ g <= m
          BY <1>1, <3>3
        <4>2. offset'[g] = offset[g] /\ offset[g] \in Int
          BY <1>1, <1>2, <3>3, <4>1
        <4> QED BY <4>1, <4>2
      <3> QED BY <3>1, <3>2, <3>3
    <2>7. c \in Int /\ offset'[e] = offset[e] /\ Recorded(e, t, m)
      BY <1>1, <1>2, <2>1, <2>2
    <2>8. Recorded(e, t, c)'
      BY <1>1, <1>8, <2>4, <2>5, <2>6, <2>7, RecordKept
    <2> QED BY <1>3, <2>2, <2>8
  <1>11. Telling(c)'
    <2>1. \A e \in 1..c : Tells(e) => Recorded(e, Told(e), c)'
      BY <1>4, <1>9, <1>10
    <2> QED BY <1>3, <2>1 DEF Telling
  <1> QED BY <1>5, <1>8, <1>11 DEF c

LEMMA FormKept ==
    ASSUME TypeInv, NEW m \in 0..N, Placed(m), UNCHANGED <<rco, src, offset>>,
           ChangesRecord(m), StreamEnd' \in Int, StreamEnd' >= StreamEnd,
           Follow(m), Telling(m)
    PROVE  Follow(m)' /\ Telling(m)' /\ Ahead(m)' = Ahead(m)
  <1>1. /\ \A e : ExtraLen(e)' = ExtraLen(e) /\ Told(e)' = Told(e)
        /\ \A e : Tells(e)' <=> Tells(e)
    BY FormSame
  <1>2. /\ E = 1..N /\ N \in Nat /\ m \in Nat /\ offset \in [E -> Nat]
        /\ StreamEnd \in Nat
    BY ParentType, StreamType DEF TypeInv
  <1>3. \A b : Ahead(b)' = Ahead(b)
    BY <1>1 DEF Ahead, EndAt
  <1>4. Ahead(m) \in Int
    <2>1. m = 0 \/ m \in E
      BY <1>2
    <2>2. m \in E => ExtraLen(m) \in Nat /\ offset[m] \in Nat
      BY <1>2, ExtraLenType
    <2> QED BY <2>1, <2>2 DEF Ahead, EndAt, HeaderWords, EntryWords
  <1>5. Follow(m)'
    BY <1>2, <1>3, <1>4 DEF Follow
  <1>6. ASSUME NEW e \in 1..m, Tells(e)
        PROVE  Recorded(e, Told(e), m)'
    <2>1. Recorded(e, Told(e), m) /\ e \in E
      BY <1>2, <1>6 DEF Telling
    <2>2. PICK t : t = Told(e)
      OBVIOUS
    <2>3. Len(t) \in Nat /\ rco.attrs[e] = <<>>
      BY <1>6, <2>1, <2>2, ExtraTells DEF BeginsWith
    <2>4. \A g \in e+1..m : offset'[g] \in Int /\
             ((g <= m /\ offset'[g] = offset[g]) \/ offset'[g] >= StreamEnd)
      <3> TAKE g \in e+1..m
      <3>1. g \in E /\ g <= m
        BY <1>2
      <3> QED BY <1>2, <3>1
    <2>5. m \in Int /\ Recorded(e, t, m) /\ offset'[e] = offset[e]
      BY <1>2, <2>1, <2>2
    <2>6. Recorded(e, t, m)'
      BY <2>3, <2>4, <2>5, RecordKept
    <2> QED BY <1>1, <2>2, <2>6
  <1>7. Telling(m)'
    BY <1>1, <1>6 DEF Telling
  <1> QED BY <1>3, <1>5, <1>7

LEMMA EntriesForm ==
    ASSUME TypeInv, TypeInv', TreeInv, FormInv, WriteMain \/ WriteChild \/ FinishEntry
    PROVE  FormInv'
  <1>1. /\ pc = "entries" /\ rco \in Archives /\ rco' = rco /\ src' = src
        /\ pos = StreamEnd /\ N' = N /\ N \in Nat \ {0} /\ E = 1..N
    <2>1. /\ pc = "entries" /\ rco \in Archives /\ rco' = rco /\ src' = src /\ N' = N
      BY DEF TypeInv, WriteMain, WriteChild, FinishEntry, Enter, N
    <2> QED BY <2>1, ParentType DEF TreeInv
  <1>2. PICK m \in 0..N :
           /\ Placed(m) /\ Linked(m) /\ AtEnd(m) /\ Calls(m)
           /\ Follow(m) /\ Ahead(m) = StreamEnd /\ Telling(m)
    BY <1>1 DEF FormInv
  <1>3. ASSUME pc' = "entries", NEW n \in 0..N,
               Placed(n)', Linked(n)', AtEnd(n)', Calls(n)',
               Follow(n)', Ahead(n)' = StreamEnd', Telling(n)'
        PROVE  FormInv'
    BY <1>1, <1>3 DEF FormInv, TreeWritten
  <1>4. CASE WriteMain
    <2>1. m = 0 /\ Placed(1)' /\ Linked(1)' /\ AtEnd(1)' /\ Calls(1)'
      BY <1>1, <1>2, <1>4, WriteMainTree
    <2>2. Follow(1)' /\ Ahead(1)' = StreamEnd' /\ Telling(1)'
      <3>1. m \in 0..N-1 /\ m + 1 = 1 /\ HeaderWords \in Int /\ 0 \in Int
        BY <1>1, <2>1 DEF HeaderWords
      <3>2. Enter(m + 1, HeaderWords, 0)
        BY <1>4, <3>1 DEF WriteMain, Main
      <3>3. Follow(m + 1)' /\ Ahead(m + 1)' = StreamEnd' /\ Telling(m + 1)'
        BY <1>1, <1>2, <3>1, <3>2, EnterForm
      <3> QED BY <3>1, <3>3
    <2>3. pc' = "entries" /\ 1 \in 0..N
      BY <1>1, <1>4 DEF WriteMain, Enter
    <2> QED BY <1>3, <2>1, <2>2, <2>3
  <1>5. CASE WriteChild
    <2>1. m < N /\ Placed(m + 1)' /\ Linked(m + 1)' /\ AtEnd(m + 1)' /\ Calls(m + 1)'
      BY <1>1, <1>2, <1>5, WriteChildTree
    <2>2. Head(stack[1].left) = m + 1 /\ stack[1].at \in Int /\ stack[1].ret \in Int
      <3>1. stack # <<>> /\ stack[1].left # <<>> /\ 1 \in DOMAIN stack
        BY <1>5 DEF WriteChild, TypeInv
      <3>2. PICK d \in 0..Len(rco.kids[stack[1].e]) : Call(m, 1, d)
        BY <1>2, <3>1 DEF Calls
      <3>3. stack[1] \in Frames
        BY <3>1 DEF TypeInv
      <3> QED BY <1>2, <3>1, <3>2, <3>3, NextChild DEF Frames
    <2>3. m \in 0..N-1 /\ m + 1 \in 0..N
      BY <1>1, <2>1
    <2>4. Follow(m + 1)' /\ Ahead(m + 1)' = StreamEnd' /\ Telling(m + 1)'
      <3>1. Enter(m + 1, stack[1].at, stack[1].ret)
        BY <1>5, <2>2 DEF WriteChild
      <3> QED BY <1>1, <1>2, <2>2, <2>3, <3>1, EnterForm
    <2>5. pc' = "entries"
      BY <1>5 DEF WriteChild, Enter
    <2> QED BY <1>3, <2>1, <2>3, <2>4, <2>5
  <1>6. CASE FinishEntry
    <2>1. /\ Placed(m)' /\ Linked(m)' /\ AtEnd(m)' /\ pos' = StreamEnd'
          /\ stack' # <<>> => Calls(m)'
          /\ stack' = <<>> => m = N
          /\ Stream' = Stream \/ PatchesNext
      BY <1>1, <1>2, <1>6, FinishEntryTree
    <2>2. /\ UNCHANGED <<rco, src, offset>>
          /\ pos' = pos /\ stack # <<>> /\ pc' \in {"entries", "fixObj"}
      BY <1>1, <1>6 DEF FinishEntry, Goto
    <2>3. StreamEnd' = StreamEnd /\ StreamEnd \in Nat
      BY <1>1, <2>1, <2>2, StreamType
    <2>4. ChangesRecord(m)
      <3>1. CASE Stream' = Stream
        <4>1. KeptBut(Stream, Stream', StreamEnd, StreamEnd')
          BY <3>1 DEF KeptBut
        <4> QED BY <2>3, <4>1, AppendedRecord
      <3>2. CASE PatchesNext
        BY <1>2, <2>2, <3>2, NextRecord
      <3> QED BY <2>1, <3>1, <3>2
    <2>5. Follow(m)' /\ Telling(m)' /\ Ahead(m)' = StreamEnd'
      <3>1. StreamEnd' \in Int /\ StreamEnd' >= StreamEnd
        BY <2>3
      <3> QED BY <1>2, <2>2, <2>3, <2>4, <3>1, FormKept
    <2>6. CASE Tail(stack) # <<>>
      <3>1. pc' = "entries" /\ stack' # <<>>
        <4> DEFINE x == [Tail(stack)[1] EXCEPT !.ret = NextOffset(stack[1])]
        <4>1. stack' = <<x>> \o Tail(Tail(stack)) /\ pc' = pc
          BY <1>6, <2>6 DEF FinishEntry
        <4>2. Tail(Tail(stack)) \in Seq(Frames)
          <5>1. stack \in Seq(Frames) /\ stack # <<>>
            BY <1>6 DEF TypeInv, FinishEntry
          <5>2. Tail(stack) \in Seq(Frames)
            BY <5>1, TailType
          <5> QED BY <2>6, <5>2, TailType
        <4>3. \A u \in Seq(Frames) : \A y : <<y>> \o u # <<>>
          OBVIOUS
        <4> HIDE DEF x
        <4> QED BY <1>1, <4>1, <4>2, <4>3
      <3> QED BY <1>3, <2>1, <2>5, <3>1
    <2>7. CASE Tail(stack) = <<>>
      <3>1. stack' = <<>> /\ pc' = "fixObj"
        BY <1>6, <2>7 DEF FinishEntry, Goto
      <3>2. m = N'
        BY <1>1, <2>1, <3>1
      <3> QED BY <2>5, <3>1, <3>2 DEF FormInv
    <2> QED BY <2>6, <2>7
  <1> QED BY <1>4, <1>5, <1>6

LEMMA LaterForm ==
    ASSUME TypeInv, TypeInv', TreeInv, Changes, FormInv,
           \/ FixEntry \/ Fallthrough("fixObj", "fixAnim")
           \/ Fallthrough("fixAnim", "hashText") \/ LaterStep
    PROVE  FormInv'
  <1>1. /\ UNCHANGED <<rco, src, offset>>
        /\ pc \in Later \cup Fixing /\ pc' \in Later \cup Fixing
        /\ Placed(N) /\ N \in 0..N /\ ChangesRecord(N)
        /\ StreamEnd' \in Int /\ StreamEnd' >= StreamEnd
    BY LaterStream
  <1>2. PICK n : n = N
    OBVIOUS
  <1>3. Follow(n) /\ Telling(n) /\ N' = n
    BY <1>1, <1>2 DEF FormInv, TreeWritten, Later, Fixing, N
  <1>4. Follow(n)' /\ Telling(n)'
    BY <1>1, <1>2, <1>3, FormKept
  <1> QED BY <1>1, <1>3, <1>4 DEF FormInv, Later, Fixing

LEMMA NextForm ==
    ASSUME TypeInv, TypeInv', TreeInv, TreeInv', Changes, FormInv, Next
    PROVE  FormInv'
  <1>1. CASE EarlyStep
    <2>1. pc' # "entries" /\ ~ TreeWritten'
      BY <1>1, EarlySteps DEF TreeWritten, Early
    <2> QED BY <2>1 DEF FormInv
  <1>2. CASE WritePlaceholderHeader
    <2>1. /\ pc' = "entries" /\ rco \in Archives /\ rco' = rco
          /\ UNCHANGED <<file, tables, opts>> /\ pc = "placeholder"
      BY <1>2 DEF WritePlaceholderHeader, Goto, TypeInv
    <2>2. PICK m \in 0..N' : Placed(m)' /\ Linked(m)' /\ AtEnd(m)' /\ Calls(m)'
      BY <2>1 DEF TreeInv
    <2>3. Stream = <<>> /\ stack = <<>>
      BY <2>1 DEF TreeInv, Early
    <2>4. StreamEnd' = HeaderWords /\ stack' = <<>>
      <3>1. Stream' = Stream /\ stack' = stack
        BY <1>2, <2>1 DEF Stream, Buffered, WritePlaceholderHeader
      <3>2. Len(Stream') = 0
        BY <2>3, <3>1
      <3> QED BY <2>3, <3>1, <3>2 DEF StreamEnd, HeaderWords
    <2>5. m = 0
      BY <2>2, <2>4 DEF Calls
    <2>6. Ahead(0)' = HeaderWords
      BY DEF Ahead
    <2>7. Follow(m)' /\ Ahead(m)' = StreamEnd' /\ Telling(m)'
      <3>1. \A e \in 1..0 : FALSE
        OBVIOUS
      <3>2. HeaderWords <= HeaderWords
        BY DEF HeaderWords
      <3> QED BY <2>4, <2>5, <2>6, <3>1, <3>2 DEF Follow, Telling
    <2> QED BY <2>1, <2>2, <2>7 DEF FormInv, TreeWritten
  <1>3. CASE WriteMain \/ WriteChild \/ FinishEntry
    BY <1>3, EntriesForm
  <1>4. CASE \/ FixEntry \/ Fallthrough("fixObj", "fixAnim")
             \/ Fallthrough("fixAnim", "hashText") \/ LaterStep
    BY <1>4, LaterForm
  <1> QED BY <1>1, <1>2, <1>3, <1>4, NextSteps

LEMMA StutterForm ==
    ASSUME TypeInv, TreeInv, FormInv, UNCHANGED vars
    PROVE  FormInv'
  <1>1. /\ UNCHANGED <<pc, rco, src, opts, file, tables, offset, pos, stack>> /\ N' = N
    BY DEF vars, N
  <1>2. StreamEnd' = StreamEnd /\ StreamEnd \in Nat /\ Stream' = Stream
    BY <1>1, EndsSame, StreamType DEF Stream, Buffered
  <1>3. \A m : ChangesRecord(m)
    <2>1. KeptBut(Stream, Stream', StreamEnd, StreamEnd')
      BY <1>2 DEF KeptBut
    <2> QED BY <1>2, <2>1, AppendedRecord
  <1>4. ASSUME NEW m \in 0..N, Placed(m), Follow(m), Telling(m)
        PROVE  Follow(m)' /\ Telling(m)' /\ Ahead(m)' = Ahead(m)
    BY <1>1, <1>2, <1>3, <1>4, FormKept
  <1>5. pc = "entries" => \E m \in 0..N' :
          /\ Placed(m)' /\ Linked(m)' /\ AtEnd(m)' /\ Calls(m)'
          /\ Follow(m)' /\ Ahead(m)' = StreamEnd' /\ Telling(m)'
    <2> SUFFICES ASSUME pc = "entries"
                 PROVE  \E m \in 0..N' :
                          /\ Placed(m)' /\ Linked(m)' /\ AtEnd(m)' /\ Calls(m)'
                          /\ Follow(m)' /\ Ahead(m)' = StreamEnd' /\ Telling(m)'
      OBVIOUS
    <2>1. PICK m \in 0..N :
             /\ Placed(m) /\ Linked(m) /\ AtEnd(m) /\ Calls(m)
             /\ Follow(m) /\ Ahead(m) = StreamEnd /\ Telling(m)
      BY DEF FormInv
    <2>2. Placed(m)' /\ Linked(m)' /\ AtEnd(m)' /\ Calls(m)'
      BY <1>1, <2>1, StutterParts
    <2> QED BY <1>1, <1>2, <1>4, <2>1, <2>2
  <1>6. TreeWritten => Follow(N)' /\ Telling(N)'
    <2> SUFFICES ASSUME TreeWritten PROVE Follow(N)' /\ Telling(N)'
      OBVIOUS
    <2>1. PICK n : n = N
      OBVIOUS
    <2>2. n \in 0..N /\ Placed(n) /\ Follow(n) /\ Telling(n) /\ N' = n
      BY <1>1, <2>1, ParentType DEF TypeInv, TreeInv, Whole, FormInv
    <2> QED BY <1>4, <2>2
  <1> QED BY <1>1, <1>5, <1>6 DEF FormInv, TreeWritten

LEMMA InitForm == ASSUME Init PROVE FormInv
  BY DEF Init, FormInv, TreeWritten

(* For every archive whose last entry is patched last: the entries lie in  *)
(* the file one right behind the other, each as long as what it tells the  *)
(* reader of its length, from the first to the last.                       *)
THEOREM EntriesFollow ==
    Spec /\ PatchedLast => [](TypeInv /\ PatchedLast /\ TreeInv /\ FormInv)
  <1> DEFINE All == TypeInv /\ PatchedLast /\ TreeInv /\ FormInv
  <1>1. Init /\ PatchedLast => All
    BY InitType, InitTree, InitForm
  <1>2. All /\ [Next]_vars => All'
    <2> SUFFICES ASSUME TypeInv, PatchedLast, TreeInv, FormInv, [Next]_vars
                 PROVE  TypeInv' /\ PatchedLast' /\ TreeInv' /\ FormInv'
      OBVIOUS
    <2>1. PatchedLast'
      BY ArchiveKept
    <2>2. CASE Next
      <3>1. TypeInv' /\ TreeInv' /\ Changes
        BY <2>2, NextType, NextTree
      <3> QED BY <2>1, <2>2, <3>1, NextForm
    <2>3. CASE UNCHANGED vars
      <3>1. TypeInv'
        BY <2>3 DEF TypeInv, vars, E, Frames
      <3> QED BY <2>1, <2>3, <3>1, StutterTree, StutterForm
    <2> QED BY <2>2, <2>3
  <1> HIDE DEF All
  <1>3. All => TypeInv /\ PatchedLast /\ TreeInv /\ FormInv
    BY DEF All
  <1> QED BY <1>1, <1>2, <1>3, PTL DEF Spec

-----------------------------------------------------------------------------
(***************************************************************************)
(* The reader in step with the writer.                                     *)
(***************************************************************************)

(* The file header says how the file is packed and where the main table    *)
(* is, and the packed header how long the tables were.                     *)
FlushedFile == {"packText", "packTextBody", "resources", "header", "done"}

HeadInv ==
    /\ header.compression = opts.packHeader
    /\ header.table[MAIN] = HeaderWords
    /\ pc = "done" => fileHeader = header
    /\ Buffered => IF pc \in FlushedFile
                   THEN Len(file) >= 2 /\ file[2] = Len(tables)
                   ELSE file = <<>>

(* What a step of the writer leaves of the file header.                    *)
HeadKept ==
    /\ opts' = opts /\ header'.compression = header.compression
    /\ header'.table[MAIN] = header.table[MAIN]
    /\ pc' = "done" => fileHeader' = header'

LEMMA SameHead ==
    ASSUME opts' = opts, header' = header, pc' # "done"
    PROVE  HeadKept
  BY DEF HeadKept

LEMMA HeadSteps ==
    ASSUME TypeInv, Next
    PROVE  HeadKept
  <1>1. header \in Headers
    BY DEF TypeInv
  <1>3. CASE StageImage \/ StageModel \/ StageSound
    <2>1. opts' = opts /\ pc' # "done"
      BY <1>3 DEF StageImage, StageModel, StageSound, StageCompressed
    <2>2. header' = header \/ \E f : header' = [header EXCEPT !.ldata = f]
      BY <1>3 DEF StageImage, StageModel, StageSound, StageCompressed
    <2>3. header'.table = header.table /\ header'.compression = header.compression
      BY <1>1, <2>2 DEF Headers
    <2> QED BY <2>1, <2>3 DEF HeadKept
  <1>4. CASE \/ Open \/ OpenFails \/ EndLoop \/ WritePlaceholderHeader
             \/ WriteMain \/ WriteChild \/ FinishEntry \/ FixEntry \/ WriteText \/ Flush
    <2>1. opts' = opts /\ header' = header /\ pc' # "done"
      BY <1>4 DEF Open, OpenFails, EndLoop, Fallthrough, WritePlaceholderHeader, WriteMain,
             WriteChild, FinishEntry, Enter, FixEntry, WriteText, Flush, Goto
    <2> QED BY <2>1, SameHead
  <1>5. CASE HashText \/ HashLang \/ BeginText \/ BeginPackText \/ PackText
    <2>1. opts' = opts /\ pc' # "done"
      BY <1>5 DEF HashText, HashLang, BeginText, BeginPackText, PackText, Goto
    <2>2. \/ header' = header
          \/ \E f : header' = [header EXCEPT !.ptrs = f]
          \/ \E f : header' = [header EXCEPT !.lptrs = f]
          \/ \E f : header' = [header EXCEPT !.ldata = f]
          \/ \E f, g : header' = [header EXCEPT !.data = f, !.ldata = g]
      BY <1>5 DEF HashText, HashLang, BeginText, BeginPackText, PackText
    <2>3. header'.table = header.table /\ header'.compression = header.compression
      BY <1>1, <2>2 DEF Headers
    <2> QED BY <2>1, <2>3 DEF HeadKept
  <1>6. CASE HashTree
    <2>1. opts' = opts /\ pc' # "done"
      BY <1>6 DEF HashTree
    <2>2. header' = header \/ \E f, g : header' = [header EXCEPT !.ptrs = f, !.lptrs = g]
      BY <1>6 DEF HashTree
    <2>3. header'.table = header.table /\ header'.compression = header.compression
      BY <1>1, <2>2 DEF Headers
    <2> QED BY <2>1, <2>3 DEF HeadKept
  <1>7. CASE WriteLabelsEvents
    <2>1. opts' = opts /\ pc' # "done"
      BY <1>7 DEF WriteLabelsEvents, Goto
    <2>2. \E a, b, c, d : header' = [header EXCEPT !.label = a, !.event = b, !.levent = c,
                                                   !.data = d]
      BY <1>7 DEF WriteLabelsEvents
    <2>3. \A a, b, c, d :
            LET h == [header EXCEPT !.label = a, !.event = b, !.levent = c, !.data = d]
            IN h.table = header.table /\ h.compression = header.compression
      BY <1>1 DEF Headers
    <2> QED BY <2>1, <2>2, <2>3 DEF HeadKept
  <1>8. CASE CopyResources
    <2>1. opts' = opts /\ pc' # "done"
      BY <1>8 DEF CopyResources, Goto
    <2>2. \E f : header' = [header EXCEPT !.data = f]
      BY <1>8 DEF CopyResources
    <2>3. header'.table = header.table /\ header'.compression = header.compression
      BY <1>1, <2>2 DEF Headers
    <2> QED BY <2>1, <2>3 DEF HeadKept
  <1>9. CASE FixHeader
    <2>1. opts' = opts /\ fileHeader' = header'
      BY <1>9 DEF FixHeader
    <2>2. PICK f : f = [k \in Kinds |-> IF k # MAIN /\ Table(k) # Nil THEN offset[Table(k)]
                                        ELSE header.table[k]]
      OBVIOUS
    <2>3. header' = [header EXCEPT !.table = f]
      BY <1>9, <2>2 DEF FixHeader
    <2>4. f[MAIN] = header.table[MAIN]
      <3>1. MAIN \in Kinds
        BY DEF Kinds, MAIN, ANIM
      <3> QED BY <2>2, <3>1
    <2>5. header'.table = f /\ header'.compression = header.compression
      BY <1>1, <2>3 DEF Headers
    <2> QED BY <2>1, <2>4, <2>5 DEF HeadKept
  <1> QED BY <1>3, <1>4, <1>5, <1>6, <1>7, <1>8, <1>9 DEF Next

(* The steps that write to the file when the header is packed.             *)
PackedWrite ==
    pc \in FlushedFile /\ pc' \in FlushedFile /\ tables' = tables
      /\ \E ws \in Seq(Int) : FileWrite(ws)

FileSame == file' = file /\ tables' = tables /\ (pc' \in FlushedFile <=> pc \in FlushedFile)

BeforeFlush == pc \notin FlushedFile /\ pc' \notin FlushedFile /\ file' = file

LEMMA FileSteps ==
    ASSUME TypeInv, Next, Buffered
    PROVE  Flush \/ PackedWrite \/ FileSame \/ BeforeFlush
  <1>1. CASE \/ Open \/ OpenFails \/ StageImage \/ StageSound \/ StageModel
             \/ WritePlaceholderHeader \/ HashText \/ BeginText
    BY <1>1 DEF Open, OpenFails, StageImage, StageSound, StageModel, StageCompressed,
           WritePlaceholderHeader, HashText, BeginText, Goto, BeforeFlush, FlushedFile
  <1>2. CASE WriteMain \/ WriteChild \/ FinishEntry \/ FixEntry
    BY <1>2 DEF WriteMain, WriteChild, Enter, FinishEntry, FixEntry, Fwrite, WriteAt, Goto,
           BeforeFlush, FlushedFile
  <1>3. CASE HashLang \/ HashTree \/ WriteText \/ WriteLabelsEvents
    BY <1>3 DEF HashLang, HashTree, WriteText, WriteLabelsEvents, Fwrite, WriteAt, Goto,
           BeforeFlush, FlushedFile
  <1>4. CASE EndLoop \/ BeginPackText \/ FixHeader
    BY <1>4 DEF EndLoop, Fallthrough, BeginPackText, FixHeader, Goto, FileSame, FlushedFile
  <1>5. CASE PackText
    <2>1. /\ pc \in FlushedFile /\ pc' \in FlushedFile /\ tables' = tables
          /\ \E len \in Nat : FileWrite(TextBlock(Head(todo), len, Tail(todo) = <<>>))
      <3>1. PackedLens \subseteq Nat
        BY PackedLensAssumption
      <3> QED BY <1>5, <3>1 DEF PackText, FileWrite, FlushedFile
    <2>2. Head(todo) \in E
      BY <1>5, TailType DEF PackText, TypeInv
    <2>3. \A len \in Nat : TextBlock(Head(todo), len, Tail(todo) = <<>>) \in Seq(Int)
      BY <2>2, TextBlockType
    <2> QED BY <2>1, <2>3 DEF PackedWrite
  <1>6. CASE CopyResources
    <2>1. pc \in FlushedFile /\ pc' \in FlushedFile /\ \E ws \in Seq(Int) : FileWrite(ws)
      BY <1>6, CopyFile DEF CopyResources, Goto, FlushedFile
    <2>2. tables' = tables
      BY <2>1 DEF FileWrite
    <2> QED BY <2>1, <2>2 DEF PackedWrite
  <1> QED BY <1>1, <1>2, <1>3, <1>4, <1>5, <1>6 DEF Next

LEMMA FlushHead ==
    ASSUME TypeInv, Flush, Buffered, file = <<>>
    PROVE  /\ tables' = tables /\ pc' \in FlushedFile
           /\ Len(file') >= 2 /\ file'[2] = Len(tables)
  <1>1. PICK len \in PackedLens :
          FileWrite(<<len, Len(tables), longest>> \o Data(0, Words(len)))
    BY DEF Flush
  <1>2. len \in Nat /\ Words(len) \in Nat /\ longest \in Nat /\ Len(tables) \in Nat
    BY PackedLensAssumption, WordsType DEF TypeInv
  <1>3. PICK d : d = Data(0, Words(len))
    OBVIOUS
  <1>4. d \in Seq(Int)
    BY <1>2, <1>3, DataType
  <1>5. PICK n \in Int : n = Len(tables)
    BY <1>2
  <1>6. PICK s : s = <<len, n, longest>>
    OBVIOUS
  <1>7. s \in Seq(Int) /\ Len(s) = 3 /\ s[2] = n
    BY <1>2, <1>6
  <1>8. PICK ws : ws = s \o d
    OBVIOUS
  <1>9. ws \in Seq(Int) /\ Len(ws) >= 3 /\ ws[2] = n
    <2>1. Len(ws) = Len(s) + Len(d) /\ \A j \in 1..Len(s) : ws[j] = s[j]
      BY <1>4, <1>7, <1>8, ConcatBegins
    <2>2. ws \in Seq(Int) /\ Len(d) \in Nat
      BY <1>4, <1>7, <1>8, ConcatProperties
    <2> QED BY <1>7, <2>1, <2>2
  <1>10. FileWrite(ws)
    BY <1>1, <1>3, <1>5, <1>6, <1>8
  <1>11. FilePos - HeaderWords = 0 /\ file \in Seq(Int) /\ Len(file) = 0
    BY DEF FilePos, HeaderWords, TypeInv
  <1>a. PICK i \in Nat : i = 0
    OBVIOUS
  <1>12. file' = PutAt(file, i, ws) /\ tables' = tables
    BY <1>10, <1>11, <1>a DEF FileWrite
  <1>13. /\ Len(file') = IF i + Len(ws) > Len(file) THEN i + Len(ws) ELSE Len(file)
         /\ \A k \in 1..Len(ws) : file'[i + k] = ws[k]
    BY <1>9, <1>11, <1>12, PutAtWords
  <1>14. 2 \in 1..Len(ws) /\ Len(ws) \in Nat
    BY <1>9
  <1>15. Len(file') >= 2 /\ file'[i + 2] = ws[2] /\ i + 2 = 2
    BY <1>9, <1>11, <1>13, <1>14, <1>a
  <1>16. pc' \in FlushedFile
    BY DEF Flush, Goto, FlushedFile
  <1> QED BY <1>5, <1>9, <1>12, <1>15, <1>16

LEMMA PackedHead ==
    ASSUME TypeInv, NEW ws \in Seq(Int), FileWrite(ws), Buffered, Len(file) >= 2
    PROVE  Len(file') >= 2 /\ file'[2] = file[2]
  <1>1. PICK n \in Nat : n = Len(file)
    BY DEF TypeInv
  <1>2. FilePos - HeaderWords = n /\ file \in Seq(Int)
    BY <1>1 DEF FilePos, HeaderWords, TypeInv
  <1>3. file' = PutAt(file, n, ws)
    BY <1>2 DEF FileWrite
  <1>4. /\ Len(file') = IF n + Len(ws) > Len(file) THEN n + Len(ws) ELSE Len(file)
        /\ \A k \in 1..Len(file) : ~ (n < k /\ k <= n + Len(ws)) => file'[k] = file[k]
    BY <1>1, <1>2, <1>3, PutAtWords
  <1>5. 2 \in 1..Len(file) /\ ~ (n < 2) /\ Len(ws) \in Nat
    BY <1>1
  <1> QED BY <1>1, <1>4, <1>5

LEMMA NextHead ==
    ASSUME TypeInv, HeadInv, Next
    PROVE  HeadInv'
  <1>1. HeadKept
    BY HeadSteps
  <1>2. Buffered' <=> Buffered
    BY <1>1 DEF HeadKept, Buffered
  <1>3. Buffered => IF pc' \in FlushedFile
                    THEN Len(file') >= 2 /\ file'[2] = Len(tables') ELSE file' = <<>>
    <2> SUFFICES ASSUME Buffered
                 PROVE  IF pc' \in FlushedFile
                        THEN Len(file') >= 2 /\ file'[2] = Len(tables') ELSE file' = <<>>
      OBVIOUS
    <2>1. IF pc \in FlushedFile THEN Len(file) >= 2 /\ file[2] = Len(tables) ELSE file = <<>>
      BY DEF HeadInv
    <2>2. CASE Flush
      <3>1. pc \notin FlushedFile
        BY <2>2 DEF Flush, FlushedFile
      <3>2. file = <<>>
        BY <2>1, <3>1
      <3> QED BY <2>2, <3>2, FlushHead
    <2>3. CASE PackedWrite
      <3>1. PICK ws \in Seq(Int) : FileWrite(ws)
        BY <2>3 DEF PackedWrite
      <3>2. pc \in FlushedFile /\ pc' \in FlushedFile /\ tables' = tables
        BY <2>3 DEF PackedWrite
      <3>3. Len(file) >= 2 /\ file[2] = Len(tables)
        BY <2>1, <3>2
      <3> QED BY <3>1, <3>2, <3>3, PackedHead
    <2>4. CASE FileSame
      BY <2>1, <2>4 DEF FileSame
    <2>5. CASE BeforeFlush
      BY <2>1, <2>5 DEF BeforeFlush
    <2> QED BY <2>2, <2>3, <2>4, <2>5, FileSteps
  <1>4. /\ header'.compression = opts'.packHeader /\ header'.table[MAIN] = HeaderWords
        /\ pc' = "done" => fileHeader' = header'
    BY <1>1 DEF HeadKept, HeadInv
  <1> QED BY <1>2, <1>3, <1>4 DEF HeadInv

LEMMA InitHead == ASSUME Init PROVE HeadInv
  <1>1. /\ header = BlankHeader(rco, opts) /\ pc = "open" /\ file = <<>>
    BY DEF Init
  <1>2. MAIN \in Kinds
    BY DEF Kinds, MAIN, ANIM
  <1> QED BY <1>1, <1>2 DEF HeadInv, BlankHeader, FlushedFile

LEMMA StutterHead == ASSUME HeadInv, UNCHANGED vars PROVE HeadInv'
  BY DEF HeadInv, vars, Buffered

(* What the format has no room for, or says nothing of when it is read     *)
(* back: the type of an entry is a byte, the format of a resource half a   *)
(* word; a sound has channels; entries that tell their length by where the *)
(* next one begins have nothing below them; and the attributes of an       *)
(* entry are as many as the attribute tables list for its type.            *)
Listed(e) ==
    IF rco.type[e] \in DOMAIN Roles[rco.id[e]] THEN Len(Roles[rco.id[e]][rco.type[e]]) ELSE 0

HasAttrs(e) ==
    (rco.id[e] = OBJ /\ rco.type[e] > 0) \/ (rco.id[e] = ANIM /\ rco.type[e] > 1)

Leaf(e) ==
    \/ rco.id[e] \in {TEXT, IMG, MODEL} /\ rco.type[e] = 1
    \/ rco.id[e] = ANIM /\ rco.type[e] > 1
    \/ rco.id[e] = OBJ /\ rco.type[e] > 0 /\ rco.attrs[e] = <<>>

Legible ==
    \A e \in E :
      /\ rco.type[e] < 256 /\ rco.format[e] < 65536
      /\ Len(rco.kids[e]) <= 65536 /\ Len(rco.indexes[e]) <= 65536
      /\ rco.id[e] = VSMX /\ rco.type[e] = 1 => rco.readable[e]
      /\ rco.id[e] = SOUND => \/ rco.type[e] = 0
                              \/ rco.type[e] = 1 /\ rco.channels[e] # <<>>
      /\ IF HasAttrs(e) THEN Len(rco.attrs[e]) = Listed(e) ELSE rco.attrs[e] = <<>>
      /\ Leaf(e) => rco.kids[e] = <<>>

(* The entry read ith is entry i, and lies where it was written.           *)
Node(x, p) ==
    "at" \in DOMAIN x /\ "kids" \in DOMAIN x /\ x.at = p /\ x.kids \in Seq(Nat)

(* All that was read lies where it was written.                            *)
NodesRead == \A i \in DOMAIN ents : i \in E /\ Node(ents[i], offset[i])

(* What is unpacked from the header begins with the tables.                *)
Unpacked ==
    /\ mem \in Seq(Int) /\ Len(mem) >= Len(tables)
    /\ \A k \in 1..Len(tables) : mem[k] = tables[k]

(* The reader sees the stream.                                             *)
Mirror ==
    /\ R!InputEnd \in Int /\ StreamEnd <= R!InputEnd
    /\ \A p \in HeaderWords..StreamEnd-1 : R!Cell(p) = Word(p)

LEMMA ReaderNames ==
    /\ R!HeaderWords = HeaderWords /\ R!EntryWords = EntryWords
    /\ R!TextEntryWords = TextEntryWords /\ R!TextIndexWords = TextIndexWords
    /\ R!NONE = NONE
    /\ R!LabelField = LabelField /\ R!SizeField = SizeField
    /\ R!CountField = CountField /\ R!NextField = NextField
    /\ \A n : R!Words(n) = Words(n)
  BY DEF R!HeaderWords, HeaderWords, R!EntryWords, EntryWords,
         R!TextEntryWords, TextEntryWords, R!TextIndexWords, TextIndexWords,
         R!NONE, NONE, R!LabelField, LabelField, R!SizeField, SizeField,
         R!CountField, CountField, R!NextField, NextField, R!Words, Words

LEMMA PackedIs ==
    ASSUME HeadInv, pc = "done"
    PROVE  R!Packed <=> Buffered
  BY DEF HeadInv, R!Packed, R!Header, Written, R!NONE, Buffered, NONE

LEMMA Mirrors ==
    ASSUME TypeInv, HeadInv, pc = "done", Buffered => Unpacked
    PROVE  Mirror
  <1>1. R!Packed <=> Buffered
    BY PackedIs
  <1>2. PICK s : s = IF Buffered THEN mem ELSE file
    OBVIOUS
  <1>3. R!Input = s
    BY <1>1, <1>2 DEF R!Input, Written
  <1>4. /\ s \in Seq(Int) /\ Stream \in Seq(Int) /\ Len(Stream) <= Len(s)
        /\ \A k \in 1..Len(Stream) : s[k] = Stream[k]
    <2>1. CASE Buffered
      BY <1>2, <2>1 DEF Unpacked, Stream, TypeInv
    <2>2. CASE ~ Buffered
      <3>1. s = file /\ Stream = file /\ file \in Seq(Int)
        BY <1>2, <2>2 DEF Stream, TypeInv
      <3> QED BY <3>1
    <2> QED BY <2>1, <2>2
  <1>5. R!InputEnd = HeaderWords + Len(s) /\ Len(s) \in Nat /\ Len(Stream) \in Nat
    BY <1>3, <1>4, ReaderNames DEF R!InputEnd
  <1>6. R!InputEnd \in Int /\ StreamEnd <= R!InputEnd
    BY <1>4, <1>5 DEF StreamEnd, HeaderWords
  <1>7. ASSUME NEW p \in HeaderWords..StreamEnd-1
        PROVE  R!Cell(p) = Word(p)
    <2>1. PICK k \in Int : k = p - HeaderWords + 1
      BY <1>7 DEF HeaderWords
    <2>2. k \in 1..Len(Stream)
      BY <1>5, <1>7, <2>1 DEF StreamEnd, HeaderWords
    <2>3. p \in HeaderWords..R!InputEnd-1
      BY <1>6, <1>7, EndsType
    <2>4. R!Cell(p) = s[k]
      BY <1>3, <2>1, <2>3, ReaderNames DEF R!Cell
    <2>5. Word(p) = Stream[k]
      BY <2>1 DEF Word
    <2> QED BY <1>4, <2>2, <2>4, <2>5
  <1> QED BY <1>6, <1>7 DEF Mirror

(* Reading and seeking within the stream.                                  *)
LEMMA WithinInput ==
    ASSUME TypeInv, Mirror, NEW p \in Int, NEW n \in Int, p + n <= StreamEnd
    PROVE  /\ R!CanRead(p, n) <=> n > 0
           /\ p <= StreamEnd => R!Clipped(p) = p
           /\ \A q : p <= StreamEnd => R!Seek(q, p) = p
  <1>1. StreamEnd \in Nat /\ R!InputEnd \in Int /\ StreamEnd <= R!InputEnd
    BY EndsType DEF Mirror
  <1>2. R!CanRead(p, n) <=> n > 0
    BY <1>1 DEF R!CanRead
  <1>3. p <= StreamEnd => R!Clipped(p) = p
    BY <1>1 DEF R!Clipped
  <1>4. \A q : p <= StreamEnd => R!Seek(q, p) = p
    BY <1>1 DEF R!Seek
  <1> QED BY <1>2, <1>3, <1>4

-----------------------------------------------------------------------------
(* What is written of an entry.                                            *)

(* The whole tree is written and keeps its form.                           *)
InFull == TypeInv /\ TreeInv /\ FormInv /\ TreeWritten

LEMMA EntryWritten ==
    ASSUME InFull, NEW e \in E
    PROVE  /\ offset[e] \in Nat /\ offset[e] >= HeaderWords
           /\ offset[e] = Ahead(e - 1) /\ EndAt(e) = Ahead(e)
           /\ ExtraLen(e) \in Nat /\ EndAt(e) <= StreamEnd
           /\ \A k \in 1..EntryWords : Word(offset[e] + k - 1) = HeaderOf(e, N)[k]
           /\ Tells(e) => \A j \in 1..Len(Told(e)) :
                 Word(offset[e] + EntryWords + j - 1) = Told(e)[j]
  <1>1. /\ E = 1..N /\ N \in Nat /\ rco \in Archives /\ offset \in [E -> Nat]
        /\ Placed(N) /\ Linked(N) /\ Follow(N) /\ Telling(N) /\ TypeInv
    <2>1. rco \in Archives /\ offset \in [E -> Nat] /\ TypeInv
      BY DEF InFull, TypeInv
    <2>2. Placed(N) /\ Linked(N) /\ Follow(N) /\ Telling(N)
      BY DEF InFull, TreeInv, Whole, FormInv
    <2> QED BY <2>1, <2>2, ParentType
  <1>2. offset[e] \in Nat /\ offset[e] >= HeaderWords /\ ExtraLen(e) \in Nat
    BY <1>1, ExtraLenType DEF Placed
  <1>3. offset[e] = Ahead(e - 1) /\ EndAt(e) = Ahead(e)
    BY <1>1 DEF Follow, Ahead
  <1>4. EndAt(e) <= StreamEnd
    <2>1. CASE e = N
      BY <1>1, <1>3, <2>1 DEF Follow
    <2>2. CASE e # N
      <3>1. PICK f \in Int : f = e + 1
        BY <1>1
      <3>2. f \in E /\ f \in 1..N /\ f - 1 = e
        BY <1>1, <2>2, <3>1
      <3>3. offset[f] = Ahead(e) /\ offset[f] + Room(f) <= StreamEnd /\ offset[f] \in Nat
        BY <1>1, <3>2 DEF Follow, Placed
      <3>4. Room(f) \in Nat
        <4>1. Len(rco.attrs[f]) \in Nat
          BY <1>1, <3>2, EntryType
        <4> QED BY <4>1 DEF Room, EntryWords
      <3> QED BY <1>1, <1>3, <3>3, <3>4, EndsType
    <2> QED BY <2>1, <2>2
  <1>5. \A k \in 1..EntryWords : Word(offset[e] + k - 1) = HeaderOf(e, N)[k]
    BY <1>1 DEF Linked, Field
  <1>6. Tells(e) => \A j \in 1..Len(Told(e)) :
                 Word(offset[e] + EntryWords + j - 1) = Told(e)[j]
    <2>1. Tells(e) => Recorded(e, Told(e), N)
      BY <1>1 DEF Telling
    <2>2. \A p : WordAt(Stream, p) = Word(p)
      BY DEF WordAt, Word
    <2> QED BY <2>1, <2>2 DEF Recorded
  <1> QED BY <1>2, <1>3, <1>4, <1>5, <1>6

-----------------------------------------------------------------------------
(* The next sibling.                                                       *)

Sibling(e) == Siblings(e)[Place(e) + 1]

LEMMA SiblingType ==
    ASSUME rco \in Archives, NEW e \in E, ~ LastSibling(e)
    PROVE  /\ e # Main /\ rco.parent[e] \in E /\ Place(e) + 1 \in 1..Len(Siblings(e))
           /\ Sibling(e) \in E /\ Sibling(e) # Main /\ e < Sibling(e)
           /\ rco.parent[Sibling(e)] = rco.parent[e]
           /\ Siblings(e) = rco.kids[rco.parent[e]]
  <1>1. e # Main
    BY DEF LastSibling
  <1>2. /\ rco.parent[e] \in E /\ Siblings(e) = rco.kids[rco.parent[e]]
        /\ Place(e) \in 1..Len(Siblings(e)) /\ Siblings(e)[Place(e)] = e
    BY <1>1, PlaceType
  <1>3. PICK i \in Int : i = Place(e)
    BY <1>2
  <1>4. PICK p \in E : p = rco.parent[e]
    BY <1>2
  <1>5. i # Len(rco.kids[p]) /\ Len(rco.kids[p]) \in Nat /\ i \in 1..Len(rco.kids[p])
    BY <1>1, <1>2, <1>3, <1>4, EntryType DEF LastSibling
  <1>6. i + 1 \in 1..Len(rco.kids[p]) /\ i < i + 1
    BY <1>5
  <1>7. /\ rco.kids[p][i + 1] \in E /\ rco.kids[p][i + 1] # Main
        /\ rco.parent[rco.kids[p][i + 1]] = p
        /\ rco.kids[p][i] < rco.kids[p][i + 1]
    BY <1>5, <1>6, KidType
  <1>8. Sibling(e) = rco.kids[p][i + 1] /\ e = rco.kids[p][i]
    BY <1>2, <1>3, <1>4 DEF Sibling
  <1> QED BY <1>1, <1>2, <1>3, <1>4, <1>6, <1>7, <1>8

LEMMA NoneBetween ==
    ASSUME rco \in Archives, NEW e \in E, ~ LastSibling(e),
           NEW f \in E, f # Main, rco.parent[f] = rco.parent[e], e < f
    PROVE  Sibling(e) <= f
  <1>1. PICK g : g = Sibling(e)
    OBVIOUS
  <1>2. PICK p \in E : p = rco.parent[e]
    BY SiblingType
  <1>3. e # Main /\ g \in E /\ Siblings(e) = rco.kids[p]
    BY <1>1, <1>2, SiblingType
  <1>4. N \in Nat /\ E = 1..N
    BY ParentType
  <1>5. PICK i \in Nat : i = Place(e)
    BY <1>3, PlaceType
  <1>6. PICK k \in Nat : k = Place(f)
    BY PlaceType
  <1>7. /\ i \in 1..Len(rco.kids[p]) /\ rco.kids[p][i] = e
        /\ i + 1 \in 1..Len(rco.kids[p]) /\ rco.kids[p][i + 1] = g
    BY <1>1, <1>3, <1>5, PlaceType, SiblingType DEF Sibling
  <1>8. k \in 1..Len(rco.kids[p]) /\ rco.kids[p][k] = f
    <2>1. /\ Siblings(f) = rco.kids[rco.parent[f]]
          /\ Place(f) \in 1..Len(Siblings(f)) /\ Siblings(f)[Place(f)] = f
      BY PlaceType
    <2>2. Siblings(f) = rco.kids[p]
      BY <1>2, <2>1
    <2> QED BY <1>6, <2>1, <2>2
  <1>9. ~ (k <= i)
    <2>1. \A j \in 1..Len(rco.kids[p]) : j < i => rco.kids[p][j] < rco.kids[p][i]
      BY <1>7, KidType
    <2>2. k < i => f < e
      <3>1. k < i => rco.kids[p][k] < rco.kids[p][i]
        BY <1>8, <2>1
      <3> QED BY <1>7, <1>8, <3>1
    <2>3. k = i => f = e
      BY <1>7, <1>8
    <2> QED BY <1>4, <1>5, <1>6, <2>2, <2>3
  <1>10. PICK l \in Nat : l = i + 1
    BY <1>5
  <1>11. l \in 1..Len(rco.kids[p]) /\ rco.kids[p][l] = g
    BY <1>7, <1>10
  <1>12. \A j \in 1..Len(rco.kids[p]) : l < j => rco.kids[p][l] < rco.kids[p][j]
    BY <1>11, KidType
  <1>13. CASE k > l
    <2>1. rco.kids[p][l] < rco.kids[p][k]
      BY <1>8, <1>12, <1>13
    <2>2. g < f
      BY <1>8, <1>11, <2>1
    <2> QED BY <1>1, <1>3, <1>4, <2>2
  <1>14. CASE k = l
    <2>1. g = f
      BY <1>8, <1>11, <1>14
    <2> QED BY <1>1, <1>3, <1>4, <2>1
  <1> QED BY <1>5, <1>6, <1>9, <1>10, <1>13, <1>14

(* Behind an entry without subentries comes its next sibling.              *)
LEMMA LeafNext ==
    ASSUME rco \in Archives, NEW e \in E, rco.kids[e] = <<>>, ~ LastSibling(e)
    PROVE  Sibling(e) = e + 1
  <1>1. PICK g : g = Sibling(e)
    OBVIOUS
  <1>2. PICK p \in E : p = rco.parent[e]
    BY SiblingType
  <1>3. /\ e # Main /\ g \in E /\ g # Main /\ e < g /\ rco.parent[g] = p
        /\ Siblings(e) = rco.kids[p]
    BY <1>1, <1>2, SiblingType
  <1>4. /\ N \in Nat /\ E = 1..N /\ p < e /\ Main = 1
        /\ \A c \in E : c # Main => rco.parent[c] \in E /\ rco.parent[c] < c
        /\ \A c \in E : \A f \in rco.parent[c]+1..c-1 : rco.parent[f] >= rco.parent[c]
    BY <1>2, <1>3, ParentType
  <1> SUFFICES ASSUME g # e + 1 PROVE FALSE
    BY <1>1
  <1>5. PICK f \in Int : f = e + 1
    BY <1>4
  <1>6. f \in E /\ f # Main /\ f < g /\ p < f /\ e < f
    BY <1>3, <1>4, <1>5
  <1>7. PICK q \in E : q = rco.parent[f]
    BY <1>4, <1>6
  <1>8. q < f
    BY <1>4, <1>6, <1>7
  <1>9. q >= p
    <2>1. f \in rco.parent[g]+1..g-1
      BY <1>3, <1>4, <1>6
    <2>2. rco.parent[f] >= rco.parent[g]
      BY <1>3, <1>4, <2>1
    <2> QED BY <1>3, <1>7, <2>2
  <1>10. q # e
    <2>1. rco.parent[f] = e => Place(f) \in 1..Len(rco.kids[e])
      BY <1>6, PlaceType
    <2> QED BY <1>7, <2>1
  <1>11. p >= q
    <2>1. e \in rco.parent[f]+1..f-1
      BY <1>4, <1>5, <1>7, <1>8, <1>10
    <2>2. rco.parent[e] >= rco.parent[f]
      BY <1>4, <1>6, <2>1
    <2> QED BY <1>2, <1>7, <2>2
  <1>12. q = p
    BY <1>4, <1>9, <1>11
  <1>13. g <= f
    BY <1>1, <1>2, <1>6, <1>7, <1>12, NoneBetween
  <1> QED BY <1>3, <1>4, <1>6, <1>13

(* nextEntryOffset when all is written.                                    *)
LEMMA NextWritten ==
    ASSUME InFull, NEW e \in E
    PROVE  /\ LastSibling(e) => NextDistance(e, N) = 0
           /\ ~ LastSibling(e) => NextDistance(e, N) = offset[Sibling(e)] - offset[e]
           /\ NextDistance(e, N) \in Int
           /\ rco.kids[e] = <<>> => NextDistance(e, N) \in {0, EntryWords + ExtraLen(e)}
  <1>1. /\ rco \in Archives /\ stack = <<>> /\ N \in Nat /\ E = 1..N
    <2>1. rco \in Archives /\ stack = <<>>
      BY DEF InFull, TypeInv, TreeInv, Whole
    <2> QED BY <2>1, ParentType
  <1>2. ~ OnStack(e)
    BY <1>1 DEF OnStack
  <1>3. LastSibling(e) => NextDistance(e, N) = 0
    BY DEF NextDistance
  <1>4. ~ LastSibling(e) => /\ NextDistance(e, N) = offset[Sibling(e)] - offset[e]
                            /\ Sibling(e) \in E
    <2> SUFFICES ASSUME ~ LastSibling(e)
                 PROVE  /\ NextDistance(e, N) = offset[Sibling(e)] - offset[e]
                        /\ Sibling(e) \in E
      OBVIOUS
    <2>1. PICK g : g = Sibling(e)
      OBVIOUS
    <2>2. g \in E /\ g <= N
      BY <1>1, <2>1, SiblingType
    <2>3. NextDistance(e, N) = (IF g <= N THEN offset[g] ELSE pos) - offset[e]
      BY <1>2, <2>1 DEF NextDistance, Sibling
    <2> QED BY <2>1, <2>2, <2>3
  <1>5. \A c \in E : offset[c] \in Nat
    BY EntryWritten
  <1>6. NextDistance(e, N) \in Int
    BY <1>3, <1>4, <1>5
  <1>7. ASSUME rco.kids[e] = <<>>, ~ LastSibling(e)
        PROVE  NextDistance(e, N) = EntryWords + ExtraLen(e)
    <2>1. Sibling(e) = e + 1
      BY <1>1, <1>7, LeafNext
    <2>2. PICK f \in Int : f = e + 1
      BY <1>1
    <2>3. f \in E /\ f - 1 = e
      BY <1>1, <1>4, <1>7, <2>1, <2>2
    <2>4. offset[f] = Ahead(f - 1) /\ EndAt(e) = Ahead(e)
      BY <2>3, EntryWritten
    <2>5. offset[f] = offset[e] + EntryWords + ExtraLen(e)
      BY <2>3, <2>4 DEF EndAt
    <2>6. offset[e] \in Nat /\ ExtraLen(e) \in Nat /\ EntryWords \in Nat
      BY EntryWritten DEF EntryWords
    <2>7. NextDistance(e, N) = offset[f] - offset[e]
      BY <1>4, <1>7, <2>1, <2>2
    <2> QED BY <2>5, <2>6, <2>7
  <1> QED BY <1>3, <1>4, <1>6, <1>7

LEMMA KindAndType ==
    ASSUME NEW i \in 1..9, NEW t \in Nat, t < 256
    PROVE  (256 * i + t) % 256 = t /\ ((256 * i + t) % 65536) \div 256 = i
  <1>1. PICK w \in Nat : w = 256 * i + t
    OBVIOUS
  <1>2. w % 256 = t
    BY <1>1
  <1>3. w < 65536
    BY <1>1
  <1>4. w % 65536 = w
    BY <1>3
  <1>5. w \div 256 = i
    BY <1>1
  <1> QED BY <1>1, <1>2, <1>4, <1>5

(* The entry that the reader makes of the header of an entry.              *)
Fresh(x, p) == {"at", "kids", "src"} \subseteq DOMAIN x /\ x.at = p /\ x.kids = <<>>

(* It is before the eyes of the reader.                                    *)
InSight == InFull /\ Mirror /\ Legible

LEMMA HeaderRead ==
    ASSUME InSight, NEW e \in E, NEW p, p = offset[e]
    PROVE  LET x == R!EntryAt(p)
           IN /\ Fresh(x, p) /\ x.id = rco.id[e] /\ x.type = rco.type[e]
              /\ R!Cell(p + SizeField - 1) = EntrySize(e)
              /\ R!Cell(p + NextField - 1) = NextDistance(e, N)
              /\ R!Capped(R!Cell(p + CountField - 1)) = Len(rco.kids[e])
  <1>1. /\ rco \in Archives /\ p \in Nat /\ p >= HeaderWords /\ p + EntryWords <= StreamEnd
        /\ \A k \in 1..EntryWords : Word(p + k - 1) = HeaderOf(e, N)[k]
        /\ ExtraLen(e) \in Nat /\ StreamEnd \in Nat /\ TypeInv
    <2>1. rco \in Archives /\ TypeInv
      BY DEF InSight, InFull, TypeInv
    <2>2. /\ p \in Nat /\ p >= HeaderWords /\ EndAt(e) <= StreamEnd
          /\ \A k \in 1..EntryWords : Word(p + k - 1) = HeaderOf(e, N)[k]
          /\ ExtraLen(e) \in Nat
      BY EntryWritten DEF InSight
    <2>3. StreamEnd \in Nat
      BY <2>1, EndsType
    <2> QED BY <2>1, <2>2, <2>3 DEF EndAt, EntryWords
  <1>2. \A k \in 1..EntryWords : R!Cell(p + k - 1) = HeaderOf(e, N)[k]
    <2> TAKE k \in 1..EntryWords
    <2>1. p + k - 1 \in HeaderWords..StreamEnd-1
      BY <1>1 DEF EntryWords, HeaderWords
    <2>2. R!Cell(p + k - 1) = Word(p + k - 1)
      BY <2>1 DEF InSight, Mirror
    <2> QED BY <1>1, <2>2
  <1>3. PICK a \in Int, b \in Int, c \in Int, d \in Int :
           a = p /\ b = ParentAt(e) /\ c = PrevDistance(e) /\ d = NextDistance(e, N)
    <2>1. NextDistance(e, N) \in Int
      BY NextWritten DEF InSight
    <2>2. ParentAt(e) \in Int /\ PrevDistance(e) \in Int
      <3>1. \A g \in E : offset[g] \in Int
        BY <1>1 DEF TypeInv
      <3>2. ParentAt(e) \in Int
        BY <1>1, <3>1, ParentType DEF ParentAt, HeaderWords
      <3>3. PrevDistance(e) \in Int
        <4> SUFFICES ASSUME e # Main, Place(e) # 1
                     PROVE  offset[e] - offset[Siblings(e)[Place(e) - 1]] \in Int
          BY DEF PrevDistance
        <4>1. PICK q \in E : q = rco.parent[e]
          BY <1>1, PlaceType
        <4>2. Siblings(e) = rco.kids[q] /\ Place(e) \in 1..Len(rco.kids[q])
          BY <1>1, <4>1, PlaceType
        <4>3. PICK i \in Int : i = Place(e) - 1
          BY <4>2
        <4>4. i \in 1..Len(rco.kids[q])
          BY <1>1, <4>2, <4>3, EntryType
        <4>5. rco.kids[q][i] \in E
          BY <1>1, <4>4, KidType
        <4> QED BY <3>1, <4>2, <4>3, <4>5
      <3> QED BY <3>2, <3>3
    <2> QED BY <1>1, <2>1, <2>2
  <1>4. PICK h : h = EntryHeader(e, a, b, c, d)
    OBVIOUS
  <1>5. HeaderOf(e, N) = h
    BY <1>3, <1>4 DEF HeaderOf
  <1>6. /\ h[1] = 256 * rco.id[e] + rco.type[e]
        /\ h[CountField] = Len(rco.kids[e]) /\ h[NextField] = d
    BY <1>1, <1>4, HeaderFields
  <1>7. h[SizeField] = EntrySize(e)
    BY <1>4 DEF EntryHeader, SizeField
  <1>8. /\ R!Cell(p) = 256 * rco.id[e] + rco.type[e]
        /\ R!Cell(p + SizeField - 1) = EntrySize(e)
        /\ R!Cell(p + NextField - 1) = NextDistance(e, N)
        /\ R!Cell(p + CountField - 1) = Len(rco.kids[e])
    <2>1. /\ 1 \in 1..EntryWords /\ SizeField \in 1..EntryWords
          /\ NextField \in 1..EntryWords /\ CountField \in 1..EntryWords
          /\ p + 1 - 1 = p
      BY <1>1 DEF EntryWords, SizeField, NextField, CountField
    <2> QED BY <1>2, <1>3, <1>5, <1>6, <1>7, <2>1
  <1>9. R!Capped(R!Cell(p + CountField - 1)) = Len(rco.kids[e])
    <2>1. Len(rco.kids[e]) <= 65536
      BY DEF InSight, Legible
    <2>2. Len(rco.kids[e]) \in Nat
      BY <1>1, EntryType
    <2> QED BY <1>8, <2>1, <2>2 DEF R!Capped, R!MAX_SUBENTRIES
  <1>10. PICK i \in Nat, t \in Nat : i = rco.id[e] /\ t = rco.type[e]
    BY <1>1, EntryType
  <1>11. i \in 1..9 /\ t < 256
    <2>1. i \in Kinds
      BY <1>1, <1>10, EntryType
    <2>2. t < 256
      BY <1>10 DEF InSight, Legible
    <2> QED BY <2>1, <2>2 DEF Kinds, MAIN, ANIM
  <1>12. R!Cell(p) % 256 = t /\ (R!Cell(p) % 65536) \div 256 = i
    <2>2. i \in 1..9 /\ t \in Nat /\ t < 256
      BY <1>10, <1>11
    <2>3. (256 * i + t) % 256 = t /\ ((256 * i + t) % 65536) \div 256 = i
      BY <2>2, KindAndType
    <2>4. R!Cell(p) = 256 * i + t
      BY <1>8, <1>10
    <2> QED BY ONLY <2>3, <2>4
  <1>13. /\ Fresh(R!EntryAt(p), p)
         /\ R!EntryAt(p).id = (R!Cell(p) % 65536) \div 256
         /\ R!EntryAt(p).type = R!Cell(p) % 256
    BY DEF R!EntryAt, Fresh
  <1> QED BY <1>8, <1>9, <1>10, <1>12, <1>13

-----------------------------------------------------------------------------
(* What is read of an entry: its extra, and no word more or less.          *)

(* What is told behind the header at p is read there.                      *)
LEMMA ToldRead ==
    ASSUME InSight, NEW e \in E, NEW q \in Int, q = offset[e] + EntryWords
    PROVE  /\ q \in Nat /\ StreamEnd \in Nat /\ EndAt(e) = q + ExtraLen(e) /\ q + ExtraLen(e) <= StreamEnd
           /\ ExtraLen(e) \in Nat /\ TypeInv /\ Mirror /\ rco \in Archives
           /\ Tells(e) => \A j \in 1..Len(Told(e)) :
                 j <= ExtraLen(e) => R!Cell(q + j - 1) = Told(e)[j]
  <1>1. InFull /\ TypeInv /\ Mirror /\ rco \in Archives
    BY DEF InSight, InFull, TypeInv
  <1>2. /\ offset[e] \in Nat /\ offset[e] >= HeaderWords
        /\ ExtraLen(e) \in Nat /\ EndAt(e) <= StreamEnd
        /\ Tells(e) => \A j \in 1..Len(Told(e)) :
              Word(offset[e] + EntryWords + j - 1) = Told(e)[j]
    BY <1>1, EntryWritten
  <1>3. EndAt(e) = q + ExtraLen(e) /\ q + ExtraLen(e) <= StreamEnd
    BY <1>2 DEF EndAt
  <1>4. q \in Nat /\ q >= HeaderWords
    BY <1>2 DEF EntryWords, HeaderWords
  <1>5. ASSUME Tells(e), NEW j \in 1..Len(Told(e)), j <= ExtraLen(e)
        PROVE  R!Cell(q + j - 1) = Told(e)[j]
    <2>1. j \in Int /\ 1 <= j
      OBVIOUS
    <2>2. PICK w \in Int : w = q + j - 1
      BY <2>1
    <2>3. StreamEnd \in Nat /\ HeaderWords \in Nat
      BY <1>1, EndsType
    <2>4. w \in HeaderWords..StreamEnd-1
      BY <1>2, <1>3, <1>4, <1>5, <2>1, <2>2, <2>3
    <2>5. R!Cell(w) = Word(w)
      BY <1>1, <2>4 DEF Mirror
    <2>6. Word(q + j - 1) = Told(e)[j]
      BY <1>2, <1>5
    <2> QED BY <2>2, <2>5, <2>6
  <1>6. StreamEnd \in Nat
    BY <1>1, EndsType
  <1> QED BY <1>1, <1>2, <1>3, <1>4, <1>5, <1>6

LEMMA FreshKept ==
    ASSUME NEW x, NEW p, Fresh(x, p), NEW v, NEW w
    PROVE  /\ Fresh([x EXCEPT !.src = v], p) /\ Fresh([x EXCEPT !.lang = v], p)
           /\ Fresh([x EXCEPT !.format = v], p)
           /\ Fresh([x EXCEPT !.format = v, !.src = w], p)
           /\ Fresh([x EXCEPT !.channels = v], p) /\ Fresh([x EXCEPT !.attrs = v], p)
           /\ Fresh([x EXCEPT !.src.file = TRUE, !.indexes = v], p)
  <1>1. Fresh([x EXCEPT !.src = v], p) /\ Fresh([x EXCEPT !.lang = v], p)
    BY DEF Fresh
  <1>2. Fresh([x EXCEPT !.format = v], p) /\ Fresh([x EXCEPT !.format = v, !.src = w], p)
    BY DEF Fresh
  <1>3. Fresh([x EXCEPT !.channels = v], p) /\ Fresh([x EXCEPT !.attrs = v], p)
    BY DEF Fresh
  <1>4. Fresh([x EXCEPT !.src.file = TRUE, !.indexes = v], p)
    BY DEF Fresh
  <1> QED BY <1>1, <1>2, <1>3, <1>4

(* The result of read_entry for entry e.                                   *)
ReadWhole(r, e) ==
    /\ Fresh(r.entry, offset[e]) /\ r.to = EndAt(e) /\ r.ok \in BOOLEAN
    /\ IF r.ok THEN r.size = ExtraLen(e) ELSE rco.kids[e] = <<>>

LEMMA WholeRead ==
    ASSUME NEW e \in E, NEW x, Fresh(x, offset[e])
    PROVE  /\ ReadWhole(R!Parsed(x, ExtraLen(e), EndAt(e)), e)
           /\ rco.kids[e] = <<>> => ReadWhole(R!Broken(x, EndAt(e), 0), e)
  BY DEF ReadWhole, R!Parsed, R!Broken

LEMMA TakenVsmx ==
    ASSUME InSight, NEW e \in E, rco.id[e] = VSMX, rco.type[e] = 1,
           NEW q \in Int, q = offset[e] + EntryWords, NEW x, Fresh(x, offset[e])
    PROVE  ReadWhole(R!ReadVsmx(x, q), e)
  <1>1. Told(e) = <<0, rco.srcLenUnpacked[e]>> /\ Tells(e)
    BY DEF Told, Tells, VSMX, TEXT, IMG, MODEL, SOUND, FONT, OBJ, ANIM
  <1>2. PICK n : n = rco.srcLenUnpacked[e]
    OBVIOUS
  <1>3. rco.readable[e]
    BY DEF InSight, Legible
  <1>4. ExtraLen(e) = 2 + Words(n)
    BY <1>2, <1>3 DEF ExtraLen, VSMX, TEXT, IMG, MODEL, SOUND, FONT, OBJ, ANIM
  <1>5. /\ q \in Nat /\ StreamEnd \in Nat /\ EndAt(e) = q + ExtraLen(e) /\ q + ExtraLen(e) <= StreamEnd
        /\ TypeInv /\ Mirror /\ rco \in Archives
        /\ \A j \in 1..Len(Told(e)) : j <= ExtraLen(e) => R!Cell(q + j - 1) = Told(e)[j]
    BY <1>1, ToldRead
  <1>6. n \in Nat /\ Words(n) \in Nat
    BY <1>2, <1>5, EntryType, WordsType
  <1>7. R!Cell(q + 1) = n
    <2>1. Len(Told(e)) = 2 /\ Told(e)[2] = n
      BY <1>1, <1>2
    <2>2. R!Cell(q + 2 - 1) = Told(e)[2]
      BY <1>4, <1>5, <1>6, <2>1
    <2>3. q + 2 - 1 = q + 1
      BY <1>5
    <2> QED BY <2>1, <2>2, <2>3
  <1>8. R!Words(n) = Words(n)
    BY ReaderNames
  <1>9. PICK to \in Int : to = q + 2 + Words(n)
    BY <1>6
  <1>10. to = EndAt(e) /\ to <= StreamEnd /\ q + 2 <= StreamEnd
    BY <1>4, <1>5, <1>6, <1>9
  <1>11. R!CanRead(q, 2)
    BY <1>5, <1>10, WithinInput
  <1>12. R!Seek(q + 2, to) = to
    <2>1. to + 0 <= StreamEnd
      BY <1>10
    <2> QED BY <1>5, <1>10, <2>1, WithinInput
  <1>13. PICK v : v = R!Source(q + 2 + R!Cell(q), n, n, IF R!Packed THEN R!IN_RCO ELSE R!NONE)
    OBVIOUS
  <1>14. R!ReadVsmx(x, q) = R!Parsed([x EXCEPT !.src = v], ExtraLen(e), EndAt(e))
    BY <1>4, <1>7, <1>8, <1>9, <1>10, <1>11, <1>12, <1>13 DEF R!ReadVsmx
  <1>15. Fresh([x EXCEPT !.src = v], offset[e])
    BY FreshKept
  <1> QED BY <1>14, <1>15, WholeRead

LEMMA TextsRead ==
    ASSUME NEW x, NEW q \in Int, NEW n \in Nat, R!Capped(R!Cell(q + 1)) = n, n # 0,
           R!CanRead(q, 2), R!CanRead(q + 2, 3 * n)
    PROVE  LET r == R!ReadTexts(x, q)
           IN r.to = R!Clipped(q + 2 + 3 * n) /\ r.ok = TRUE /\ r.size = 2 + 3 * n
  <1>1. R!TextEntryWords = 2 /\ R!TextIndexWords = 3
    BY DEF R!TextEntryWords, R!TextIndexWords
  <1>2. q + 2 + 3 * (n + 1 - 1) = q + 2 + 3 * n
    OBVIOUS
  <1> QED BY <1>1, <1>2 DEF R!ReadTexts, R!Parsed

LEMMA TextsFresh ==
    ASSUME NEW x, NEW q, NEW p, Fresh(x, p), R!CanRead(q, R!TextEntryWords),
           R!CanRead(q + R!TextEntryWords, R!TextIndexWords * R!Capped(R!Cell(q + 1)))
    PROVE  Fresh(R!ReadTexts(x, q).entry, p)
  BY DEF R!ReadTexts, R!Parsed, Fresh

LEMMA TakenTexts ==
    ASSUME InSight, NEW e \in E, rco.id[e] = TEXT, rco.type[e] = 1,
           NEW q \in Int, q = offset[e] + EntryWords, NEW x, Fresh(x, offset[e])
    PROVE  ReadWhole(R!ReadTexts(x, q), e)
  <1>1. Told(e) = <<rco.lang[e], Len(rco.indexes[e])>> /\ Tells(e)
    BY DEF Told, Tells, VSMX, TEXT, IMG, MODEL, SOUND, FONT, OBJ, ANIM
  <1>2. PICK n : n = Len(rco.indexes[e])
    OBVIOUS
  <1>3. n <= 65536 /\ rco.kids[e] = <<>>
    BY <1>2 DEF InSight, Legible, Leaf
  <1>4. ExtraLen(e) = 2 + 3 * n
    BY <1>2 DEF ExtraLen, VSMX, TEXT, IMG, MODEL, SOUND, FONT, OBJ, ANIM,
              TextEntryWords, TextIndexWords
  <1>5. /\ q \in Nat /\ StreamEnd \in Nat /\ EndAt(e) = q + ExtraLen(e) /\ q + ExtraLen(e) <= StreamEnd
        /\ TypeInv /\ Mirror /\ rco \in Archives
        /\ \A j \in 1..Len(Told(e)) : j <= ExtraLen(e) => R!Cell(q + j - 1) = Told(e)[j]
    BY <1>1, ToldRead
  <1>6. n \in Nat
    BY <1>2, <1>5, EntryType
  <1>7. R!Cell(q + 1) = n
    <2>1. Len(Told(e)) = 2 /\ Told(e)[2] = n
      BY <1>1, <1>2
    <2>2. R!Cell(q + 2 - 1) = Told(e)[2]
      BY <1>4, <1>5, <1>6, <2>1
    <2>3. q + 2 - 1 = q + 1
      BY <1>5
    <2> QED BY <2>1, <2>2, <2>3
  <1>8. R!Capped(R!Cell(q + 1)) = n
    BY <1>3, <1>6, <1>7 DEF R!Capped, R!MAX_SUBENTRIES
  <1>9. PICK first \in Int, taken \in Int : first = q + 2 /\ taken = 3 * n
    BY <1>6
  <1>10. /\ first + taken = EndAt(e) /\ first + taken <= StreamEnd /\ first \in Nat
         /\ q + 2 <= StreamEnd /\ (n = 0 => first = EndAt(e)) /\ (taken > 0 <=> n # 0)
    BY <1>4, <1>5, <1>6, <1>9
  <1>11. R!CanRead(q, 2) /\ (R!CanRead(first, taken) <=> n # 0)
    <2>1. R!CanRead(q, 2)
      BY <1>5, <1>10, WithinInput
    <2>2. R!CanRead(first, taken) <=> taken > 0
      BY <1>5, <1>10, WithinInput
    <2> QED BY <1>10, <2>1, <2>2
  <1>12. R!TextEntryWords = 2 /\ R!TextIndexWords = 3
    BY DEF R!TextEntryWords, R!TextIndexWords
  <1>13. PICK y : y = [x EXCEPT !.lang = R!Cell(q)]
    OBVIOUS
  <1>14. Fresh(y, offset[e])
    BY <1>13, FreshKept
  <1>15. CASE n = 0
    <2>1. R!ReadTexts(x, q) = R!Broken(y, first, 0)
      BY <1>8, <1>9, <1>11, <1>12, <1>13, <1>15 DEF R!ReadTexts
    <2> QED BY <1>3, <1>10, <1>14, <1>15, <2>1, WholeRead
  <1>16. CASE n # 0
    <2>1. PICK r : r = R!ReadTexts(x, q)
      OBVIOUS
    <2>2. R!CanRead(q, 2) /\ R!CanRead(q + 2, 3 * n)
      BY <1>9, <1>11, <1>16
    <2>3. r.to = R!Clipped(q + 2 + 3 * n) /\ r.ok = TRUE /\ r.size = 2 + 3 * n
      BY <1>6, <1>8, <1>16, <2>1, <2>2, TextsRead
    <2>4. Fresh(r.entry, offset[e])
      BY <1>8, <1>12, <2>1, <2>2, TextsFresh
    <2>5. PICK to \in Int : to = first + taken
      OBVIOUS
    <2>6. R!Clipped(to) = to
      <3>1. to + 0 <= StreamEnd /\ to <= StreamEnd
        BY <1>10, <2>5
      <3> QED BY <1>5, <3>1, WithinInput
    <2>7. to = q + 2 + 3 * n /\ to = EndAt(e)
      BY <1>9, <1>10, <2>5
    <2>8. r.to = EndAt(e)
      BY <2>3, <2>6, <2>7
    <2> QED BY <1>4, <2>1, <2>3, <2>4, <2>8 DEF ReadWhole
  <1> QED BY <1>15, <1>16

(* An entry of m words behind its header is read from p up to a place.     *)
Took(r, p, m, to) == r.to = to /\ r.ok = TRUE /\ r.size = m /\ Fresh(r.entry, p)

(* Which words of an image are taken up.                                   *)
ImageWords(q, next, m, c, ps3) ==
    /\ R!Cell(q) \div 65536 = c /\ Written.ps3 = ps3
    /\ (IF R!IsShort(c, next) THEN R!FullSize - 1 ELSE R!FullSize) = m
    /\ (IF ps3 THEN 4 + (IF c # R!NONE THEN 1 ELSE 0) ELSE m) = m
    /\ R!CanRead(q, IF ps3 THEN 4 ELSE m)

LEMMA ImageRead ==
    ASSUME NEW x, NEW p, Fresh(x, p), NEW q, NEW next, NEW m, NEW c, NEW ps3,
           ImageWords(q, next, m, c, ps3)
    PROVE  Took(R!ReadImage(x, q, next), p, m, R!Clipped(q + m))
  <1>1. R!ReadImage(x, q, next).to = R!Clipped(q + m)
    BY DEF ImageWords, R!ReadImage, R!Parsed
  <1>2. R!ReadImage(x, q, next).ok = TRUE /\ R!ReadImage(x, q, next).size = m
    BY DEF ImageWords, R!ReadImage, R!Parsed
  <1>3. Fresh(R!ReadImage(x, q, next).entry, p)
    BY DEF ImageWords, R!ReadImage, R!Parsed, Fresh
  <1> QED BY <1>1, <1>2, <1>3 DEF Took

LEMMA TakenImage ==
    ASSUME InSight, NEW e \in E, rco.id[e] \in {IMG, MODEL}, rco.type[e] = 1,
           NEW q \in Int, q = offset[e] + EntryWords, NEW x, Fresh(x, offset[e]),
           NEW next, next = NextDistance(e, N)
    PROVE  ReadWhole(R!ReadImage(x, q, next), e)
  <1>1. Told(e) = <<rco.format[e] + 65536 * src.compr[e]>> /\ Tells(e)
    BY DEF Told, Tells, VSMX, TEXT, IMG, MODEL, SOUND, FONT, OBJ, ANIM
  <1>2. /\ q \in Nat /\ StreamEnd \in Nat
        /\ EndAt(e) = q + ExtraLen(e) /\ q + ExtraLen(e) <= StreamEnd
        /\ TypeInv /\ Mirror /\ rco \in Archives
        /\ \A j \in 1..Len(Told(e)) : j <= ExtraLen(e) => R!Cell(q + j - 1) = Told(e)[j]
    BY <1>1, ToldRead
  <1>3. rco.kids[e] = <<>> /\ rco.format[e] < 65536
    BY DEF InSight, Legible, Leaf
  <1>4. PICK c \in Nat, f \in Nat : c = src.compr[e] /\ f = rco.format[e]
    <2>1. src.compr[e] \in Compressions
      BY <1>2 DEF TypeInv
    <2>2. src.compr[e] \in Nat
      BY <2>1 DEF Compressions, NONE, RLZ
    <2> QED BY <1>2, <2>2, EntryType
  <1>5. PICK b \in Nat, k \in Nat : /\ b = IF rco.ps3 THEN 1 ELSE 0
                                    /\ k = IF c # NONE THEN 1 ELSE 0
    OBVIOUS
  <1>6. PICK m \in Nat : m = 3 + b + k
    OBVIOUS
  <1>7. ExtraLen(e) = m
    <2>1. ExtraLen(e) = 3 + (IF rco.ps3 THEN 1 ELSE 0) + (IF src.compr[e] # NONE THEN 1 ELSE 0)
      BY DEF ExtraLen, VSMX, TEXT, IMG, MODEL, SOUND, FONT, OBJ, ANIM
    <2> QED BY <1>4, <1>5, <1>6, <2>1
  <1>8. R!Cell(q) = f + 65536 * c
    <2>1. Len(Told(e)) = 1 /\ Told(e)[1] = f + 65536 * c
      BY <1>1, <1>4
    <2>2. R!Cell(q + 1 - 1) = Told(e)[1]
      BY <1>2, <1>6, <1>7, <2>1
    <2>3. q + 1 - 1 = q
      BY <1>2
    <2> QED BY <2>1, <2>2, <2>3
  <1>9. R!Cell(q) \div 65536 = c
    <2>1. f < 65536
      BY <1>3, <1>4
    <2>2. (f + 65536 * c) \div 65536 = c
      BY <2>1
    <2> QED BY <1>8, <2>2
  <1>10. next = 0 \/ next = 10 + m
    <2>1. next \in {0, EntryWords + ExtraLen(e)}
      BY <1>3, NextWritten DEF InSight
    <2> QED BY <1>7, <2>1 DEF EntryWords
  <1>11. R!FullSize = 4 + b /\ R!EntryWords = 10 /\ R!NONE = NONE /\ NONE = 0
         /\ Written.ps3 = rco.ps3
    <2>1. Written.ps3 = rco.ps3
      BY DEF Written
    <2>2. R!FullSize = 4 + b
      BY <1>5, <2>1 DEF R!FullSize
    <2> QED BY <2>1, <2>2 DEF R!EntryWords, R!NONE, NONE
  <1>12. R!IsShort(c, next) <=> k = 0
    BY <1>5, <1>6, <1>10, <1>11 DEF R!IsShort
  <1>13. (IF R!IsShort(c, next) THEN R!FullSize - 1 ELSE R!FullSize) = m
    BY <1>5, <1>6, <1>11, <1>12
  <1>14. (IF rco.ps3 THEN 4 + (IF c # R!NONE THEN 1 ELSE 0) ELSE m) = m
    BY <1>5, <1>6, <1>11
  <1>15. R!CanRead(q, IF rco.ps3 THEN 4 ELSE m)
    <2>1. PICK j \in Int : j = IF rco.ps3 THEN 4 ELSE m
      OBVIOUS
    <2>2. j > 0 /\ j <= m
      BY <1>5, <1>6, <2>1
    <2>3. q + j <= StreamEnd
      BY <1>2, <1>7, <2>2
    <2>4. R!CanRead(q, j)
      BY <1>2, <2>2, <2>3, WithinInput
    <2> QED BY <2>1, <2>4
  <1>16. PICK r : r = R!ReadImage(x, q, next)
    OBVIOUS
  <1>17. r.to = R!Clipped(q + m) /\ r.ok = TRUE /\ r.size = m /\ Fresh(r.entry, offset[e])
    <2>1. ImageWords(q, next, m, c, rco.ps3)
      BY <1>9, <1>11, <1>13, <1>14, <1>15 DEF ImageWords
    <2>2. Took(R!ReadImage(x, q, next), offset[e], m, R!Clipped(q + m))
      BY <2>1, ImageRead
    <2> QED BY <1>16, <2>2 DEF Took
  <1>18. R!Clipped(q + m) = q + m
    <2>1. PICK to \in Int : to = q + m
      BY <1>2
    <2>2. to + 0 <= StreamEnd /\ to <= StreamEnd
      BY <1>2, <1>7, <2>1
    <2> QED BY <1>2, <2>1, <2>2, WithinInput
  <1> QED BY <1>2, <1>7, <1>16, <1>17, <1>18 DEF ReadWhole

LEMMA SoundRead ==
    ASSUME NEW x, NEW p, Fresh(x, p), NEW q \in Int, NEW n \in Nat,
           R!Cell(q) \div 65536 = n, R!CanRead(q, 3), R!CanRead(q + 3, 2 * n)
    PROVE  Took(R!ReadSound(x, q), p, 3 + 2 * R!AtLeastTwo(n),
                R!Clipped(q + 3 + 2 * R!AtLeastTwo(n)))
  <1>1. R!ReadSound(x, q).to = R!Clipped(q + 3 + 2 * R!AtLeastTwo(n))
    BY DEF R!ReadSound, R!Parsed
  <1>2. R!ReadSound(x, q).ok = TRUE /\ R!ReadSound(x, q).size = 3 + 2 * R!AtLeastTwo(n)
    BY DEF R!ReadSound, R!Parsed
  <1>3. Fresh(R!ReadSound(x, q).entry, p)
    BY DEF R!ReadSound, R!Parsed, Fresh
  <1> QED BY <1>1, <1>2, <1>3 DEF Took

LEMMA TakenSound ==
    ASSUME InSight, NEW e \in E, rco.id[e] = SOUND, rco.type[e] = 1,
           NEW q \in Int, q = offset[e] + EntryWords, NEW x, Fresh(x, offset[e])
    PROVE  ReadWhole(R!ReadSound(x, q), e)
  <1>1. Told(e) = <<rco.format[e] + 65536 * Len(rco.channels[e])>> /\ Tells(e)
    BY DEF Told, Tells, VSMX, TEXT, IMG, MODEL, SOUND, FONT, OBJ, ANIM
  <1>2. /\ q \in Nat /\ StreamEnd \in Nat
        /\ EndAt(e) = q + ExtraLen(e) /\ q + ExtraLen(e) <= StreamEnd
        /\ TypeInv /\ Mirror /\ rco \in Archives
        /\ \A j \in 1..Len(Told(e)) : j <= ExtraLen(e) => R!Cell(q + j - 1) = Told(e)[j]
    <2>1. /\ q \in Nat /\ StreamEnd \in Nat /\ EndAt(e) = q + ExtraLen(e)
          /\ q + ExtraLen(e) <= StreamEnd
          /\ TypeInv /\ Mirror /\ rco \in Archives
      BY ToldRead
    <2>2. Tells(e) => \A j \in 1..Len(Told(e)) :
                         j <= ExtraLen(e) => R!Cell(q + j - 1) = Told(e)[j]
      BY ToldRead
    <2>3. Tells(e)
      BY <1>1
    <2> QED BY <2>1, <2>2, <2>3
  <1>3. rco.channels[e] # <<>> /\ rco.format[e] < 65536
    BY DEF InSight, Legible
  <1>4. PICK n \in Nat, f \in Nat : n = Len(rco.channels[e]) /\ f = rco.format[e]
    BY <1>2, EntryType
  <1>5. n # 0
    <2>1. rco.channels[e] \in Seq(Nat \X Int)
      BY <1>2, EntryType
    <2> QED BY <1>3, <1>4, <2>1, EmptySeq
  <1>6. PICK a \in Nat : a = IF n < 2 THEN 2 ELSE n
    OBVIOUS
  <1>7. ExtraLen(e) = 3 + 2 * a
    <2>1. ExtraLen(e) = 3 + ChannelWords(e)
      BY DEF ExtraLen, VSMX, TEXT, IMG, MODEL, SOUND, FONT, OBJ, ANIM
    <2>2. ChannelWords(e) = 2 * a
      BY <1>4, <1>6 DEF ChannelWords
    <2> QED BY <2>1, <2>2
  <1>8. R!Cell(q) = f + 65536 * n
    <2>1. Len(Told(e)) = 1 /\ Told(e)[1] = f + 65536 * n
      BY <1>1, <1>4
    <2>2. R!Cell(q + 1 - 1) = Told(e)[1]
      BY <1>2, <1>6, <1>7, <2>1
    <2>3. q + 1 - 1 = q
      BY <1>2
    <2> QED BY <2>1, <2>2, <2>3
  <1>9. R!Cell(q) \div 65536 = n
    <2>1. f < 65536
      BY <1>3, <1>4
    <2>2. (f + 65536 * n) \div 65536 = n
      BY <2>1
    <2> QED BY <1>8, <2>2
  <1>10. R!AtLeastTwo(n) = a
    BY <1>6 DEF R!AtLeastTwo
  <1>11. R!CanRead(q, 3) /\ R!CanRead(q + 3, 2 * n)
    <2>1. PICK first \in Int, l \in Int : first = q + 3 /\ l = 2 * n
      BY <1>2
    <2>2. first + l <= StreamEnd /\ q + 3 <= StreamEnd /\ l > 0
      BY <1>2, <1>5, <1>6, <1>7, <2>1
    <2>3. R!CanRead(q, 3)
      BY <1>2, <2>2, WithinInput
    <2>4. R!CanRead(first, l)
      BY <1>2, <2>2, WithinInput
    <2> QED BY <2>1, <2>3, <2>4
  <1>12. PICK r : r = R!ReadSound(x, q)
    OBVIOUS
  <1>13. /\ r.to = R!Clipped(q + 3 + 2 * a) /\ r.ok = TRUE /\ r.size = 3 + 2 * a
         /\ Fresh(r.entry, offset[e])
    <2>1. Took(R!ReadSound(x, q), offset[e], 3 + 2 * R!AtLeastTwo(n),
               R!Clipped(q + 3 + 2 * R!AtLeastTwo(n)))
      BY <1>9, <1>11, SoundRead
    <2> QED BY <1>10, <1>12, <2>1 DEF Took
  <1>14. R!Clipped(q + 3 + 2 * a) = EndAt(e)
    <2>1. PICK to \in Int : to = q + 3 + 2 * a
      BY <1>2
    <2>2. to + 0 <= StreamEnd /\ to <= StreamEnd /\ to = EndAt(e)
      BY <1>2, <1>7, <2>1
    <2>3. R!Clipped(to) = to
      BY <1>2, <2>2, WithinInput
    <2> QED BY <2>1, <2>2, <2>3
  <1> QED BY <1>7, <1>12, <1>13, <1>14 DEF ReadWhole

LEMMA TakenFont ==
    ASSUME InSight, NEW e \in E, rco.id[e] = FONT, rco.type[e] = 1,
           NEW q \in Int, q = offset[e] + EntryWords, NEW x, Fresh(x, offset[e])
    PROVE  ReadWhole(R!ReadFont(x, q), e)
  <1>1. /\ q \in Nat /\ EndAt(e) = q + ExtraLen(e) /\ q + ExtraLen(e) <= StreamEnd
        /\ TypeInv /\ Mirror
    BY ToldRead
  <1>2. ExtraLen(e) = 3
    BY DEF ExtraLen, VSMX, TEXT, IMG, MODEL, SOUND, FONT, OBJ, ANIM
  <1>3. q + 3 <= StreamEnd /\ q + 3 = EndAt(e)
    BY <1>1, <1>2
  <1>4. R!CanRead(q, 3)
    BY <1>1, <1>3, WithinInput
  <1>5. R!ReadFont(x, q) = R!Parsed([x EXCEPT !.format = R!Cell(q)], ExtraLen(e), EndAt(e))
    BY <1>2, <1>3, <1>4 DEF R!ReadFont
  <1>6. Fresh([x EXCEPT !.format = R!Cell(q)], offset[e])
    BY FreshKept
  <1> QED BY <1>5, <1>6, WholeRead

(* How long the attributes are that are read is what they were written.    *)
LEMMA AttrsTold ==
    ASSUME InSight, NEW e \in E, HasAttrs(e), NEW x,
           x.at = offset[e], x.id = rco.id[e], x.type = rco.type[e],
           R!Cell(offset[e] + SizeField - 1) = EntrySize(e),
           R!Cell(offset[e] + NextField - 1) = NextDistance(e, N)
    PROVE  R!AttrsSize(x) = Len(rco.attrs[e])
  <1>1. PICK n \in Nat : n = Len(rco.attrs[e])
    BY EntryType DEF InSight, InFull, TypeInv
  <1>2. n = Listed(e)
    BY <1>1 DEF InSight, Legible
  <1>3. R!TableSize(x) = n
    BY <1>2 DEF R!TableSize, Listed
  <1>4. R!OBJ = OBJ /\ R!EntryWords = 10 /\ R!SizeField = SizeField /\ R!NextField = NextField
    BY DEF R!OBJ, OBJ, R!EntryWords, R!SizeField, SizeField, R!NextField, NextField
  <1>5. CASE rco.id[e] = OBJ
    <2>1. EntrySize(e) = 0 \/ EntrySize(e) = 10 + n
      <3>1. ~ IsParentEntry(rco, e)
        BY <1>5 DEF IsParentEntry, HasAttrs, MAIN, OBJ, ANIM
      <3> QED BY <1>1, <3>1 DEF EntrySize, EntryWords
    <2>2. PICK told : told = R!Cell(x.at + R!SizeField - 1)
      OBVIOUS
    <2>3. told = 0 \/ told = 10 + n
      BY <1>4, <2>1, <2>2
    <2>4. R!AttrsSize(x) = IF told # 0 THEN told - R!EntryWords ELSE R!TableSize(x)
      BY <1>4, <1>5, <2>2 DEF R!AttrsSize
    <2>5. R!AttrsSize(x) = n
      BY <1>3, <1>4, <2>3, <2>4
    <2> QED BY <1>1, <2>5
  <1>6. CASE rco.id[e] # OBJ
    <2>1. rco.kids[e] = <<>>
      BY <1>6 DEF InSight, Legible, Leaf, HasAttrs
    <2>2. ExtraLen(e) = n
      <3>1. rco.id[e] = ANIM /\ rco.type[e] # 0
        <4>1. rco.type[e] \in Nat
          BY EntryType DEF InSight, InFull, TypeInv
        <4> QED BY <1>6, <4>1 DEF HasAttrs
      <3> QED BY <1>1, <3>1 DEF ExtraLen, VSMX, TEXT, IMG, MODEL, SOUND, FONT, OBJ, ANIM
    <2>3. PICK told : told = R!Cell(x.at + R!NextField - 1)
      OBVIOUS
    <2>4. told \in {0, EntryWords + n}
      BY <1>4, <2>1, <2>2, <2>3, NextWritten DEF InSight
    <2>5. told = 0 \/ told = 10 + n
      BY <2>4 DEF EntryWords
    <2>6. R!AttrsSize(x) = IF told # 0 THEN told - R!EntryWords ELSE R!TableSize(x)
      BY <1>4, <1>6, <2>3 DEF R!AttrsSize
    <2>7. R!AttrsSize(x) = n
      BY <1>3, <1>4, <2>5, <2>6
    <2> QED BY <1>1, <2>7
  <1> QED BY <1>5, <1>6

LEMMA TakenAttrs ==
    ASSUME InSight, NEW e \in E, HasAttrs(e),
           NEW q \in Int, q = offset[e] + EntryWords, NEW x, Fresh(x, offset[e]),
           x.id = rco.id[e], x.type = rco.type[e],
           R!Cell(offset[e] + SizeField - 1) = EntrySize(e),
           R!Cell(offset[e] + NextField - 1) = NextDistance(e, N)
    PROVE  ReadWhole(R!ReadAttrs(x, q), e)
  <1>1. /\ q \in Nat /\ StreamEnd \in Nat
        /\ EndAt(e) = q + ExtraLen(e) /\ q + ExtraLen(e) <= StreamEnd
        /\ TypeInv /\ Mirror /\ rco \in Archives
    BY ToldRead
  <1>2. PICK n \in Nat : n = Len(rco.attrs[e])
    BY <1>1, EntryType
  <1>3. R!AttrsSize(x) = n
    <2>1. x.at = offset[e]
      BY DEF Fresh
    <2> QED BY <1>2, <2>1, AttrsTold
  <1>4. ExtraLen(e) = n
    <2>1. rco.id[e] \in {OBJ, ANIM} /\ rco.type[e] # 0
      <3>1. rco.type[e] \in Nat
        BY <1>1, EntryType
      <3> QED BY <3>1 DEF HasAttrs
    <2> QED BY <1>2, <2>1 DEF ExtraLen, VSMX, TEXT, IMG, MODEL, SOUND, FONT, OBJ, ANIM
  <1>5. R!CanRead(q, n) <=> n > 0
    BY <1>1, <1>4, WithinInput
  <1>6. CASE n = 0
    <2>1. R!ReadAttrs(x, q) = R!Broken(x, EndAt(e), 0)
      BY <1>1, <1>3, <1>4, <1>5, <1>6 DEF R!ReadAttrs
    <2>2. rco.kids[e] = <<>>
      <3>1. rco.attrs[e] = <<>>
        <4>1. rco.attrs[e] \in Seq(AttrWord)
          BY <1>1, EntryType
        <4> QED BY <1>2, <1>6, <4>1, EmptySeq
      <3>2. Leaf(e)
        BY <3>1 DEF Leaf, HasAttrs
      <3> QED BY <3>2 DEF InSight, Legible
    <2> QED BY <2>1, <2>2, WholeRead
  <1>7. CASE n # 0
    <2>1. PICK to \in Int : to = q + n
      BY <1>1
    <2>2. R!Clipped(to) = to /\ to = EndAt(e)
      <3>1. to + 0 <= StreamEnd /\ to <= StreamEnd /\ to = EndAt(e)
        BY <1>1, <1>4, <2>1
      <3> QED BY <1>1, <3>1, WithinInput
    <2>3. R!CanRead(q, R!AttrsSize(x))
      BY <1>3, <1>5, <1>7
    <2>4. PICK r : r = R!ReadAttrs(x, q)
      OBVIOUS
    <2>5. r.to = R!Clipped(q + n) /\ r.ok = TRUE /\ r.size = n
      BY <1>3, <2>3, <2>4 DEF R!ReadAttrs, R!Parsed
    <2>6. Fresh(r.entry, offset[e])
      BY <2>3, <2>4 DEF R!ReadAttrs, R!Parsed, Fresh
    <2> QED BY <1>4, <2>1, <2>2, <2>4, <2>5, <2>6 DEF ReadWhole
  <1> QED BY <1>6, <1>7

(* read_entry takes up what write_entry has left.                          *)
LEMMA ExtraTaken ==
    ASSUME InSight, NEW e \in E
    PROVE  ReadWhole(R!ReadExtra(R!EntryAt(offset[e])), e)
  <1>1. PICK p : p = offset[e]
    OBVIOUS
  <1>2. PICK x : x = R!EntryAt(p)
    OBVIOUS
  <1>3. /\ Fresh(x, p) /\ x.id = rco.id[e] /\ x.type = rco.type[e] /\ x.at = p
        /\ R!Cell(p + SizeField - 1) = EntrySize(e)
        /\ R!Cell(p + NextField - 1) = NextDistance(e, N)
    <2>1. /\ Fresh(x, p) /\ x.id = rco.id[e] /\ x.type = rco.type[e]
          /\ R!Cell(p + SizeField - 1) = EntrySize(e)
          /\ R!Cell(p + NextField - 1) = NextDistance(e, N)
      BY <1>1, <1>2, HeaderRead
    <2> QED BY <2>1 DEF Fresh
  <1>4. /\ rco \in Archives /\ rco.id[e] \in Nat /\ rco.type[e] \in Nat /\ p \in Nat /\ InFull /\ TypeInv
        /\ IF HasAttrs(e) THEN Len(rco.attrs[e]) = Listed(e) ELSE rco.attrs[e] = <<>>
        /\ rco.id[e] = SOUND => rco.type[e] = 0 \/ rco.type[e] = 1
    <2>1. rco \in Archives /\ InFull /\ TypeInv
      BY DEF InSight, InFull, TypeInv
    <2> QED BY <1>1, <2>1, EntryType, EntryWritten DEF InSight, Legible
  <1>5. PICK q \in Int : q = p + EntryWords
    BY <1>4 DEF EntryWords
  <1>6. PICK i, t \in Nat : i = rco.id[e] /\ t = rco.type[e]
    BY <1>4
  <1>7. R!ReadExtra(x) =
          CASE i = VSMX /\ t = 1 -> R!ReadVsmx(x, q)
            [] i = TEXT /\ t = 1 -> R!ReadTexts(x, q)
            [] i \in {IMG, MODEL} /\ t = 1 -> R!ReadImage(x, q, R!Cell(p + NextField - 1))
            [] i = SOUND /\ t = 1 -> R!ReadSound(x, q)
            [] i = FONT /\ t = 1 -> R!ReadFont(x, q)
            [] (i = OBJ /\ t > 0) \/ (i = ANIM /\ t > 1) -> R!ReadAttrs(x, q)
            [] OTHER -> R!Parsed(x, 0, q)
    <2>1. /\ R!VSMX = VSMX /\ R!TEXT = TEXT /\ R!IMG = IMG /\ R!MODEL = MODEL
          /\ R!SOUND = SOUND /\ R!FONT = FONT /\ R!OBJ = OBJ /\ R!ANIM = ANIM
          /\ R!EntryWords = EntryWords /\ R!NextField = NextField
      BY DEF R!VSMX, VSMX, R!TEXT, TEXT, R!IMG, IMG, R!MODEL, MODEL, R!SOUND, SOUND,
             R!FONT, FONT, R!OBJ, OBJ, R!ANIM, ANIM, R!EntryWords, EntryWords,
             R!NextField, NextField
    <2>2. x.id = i /\ x.type = t /\ x.at = p
      BY <1>3, <1>6
    <2> QED BY <1>5, <2>1, <2>2 DEF R!ReadExtra
  <1>8. /\ q = offset[e] + EntryWords /\ Fresh(x, offset[e])
        /\ R!Cell(offset[e] + SizeField - 1) = EntrySize(e)
        /\ R!Cell(offset[e] + NextField - 1) = NextDistance(e, N)
    BY <1>1, <1>3, <1>5
  <1>9. i = VSMX /\ t = 1 => ReadWhole(R!ReadVsmx(x, q), e)
    BY <1>6, <1>8, TakenVsmx
  <1>10. i = TEXT /\ t = 1 => ReadWhole(R!ReadTexts(x, q), e)
    BY <1>6, <1>8, TakenTexts
  <1>11. i \in {IMG, MODEL} /\ t = 1 =>
            ReadWhole(R!ReadImage(x, q, R!Cell(p + NextField - 1)), e)
    BY <1>3, <1>6, <1>8, TakenImage
  <1>12. i = SOUND /\ t = 1 => ReadWhole(R!ReadSound(x, q), e)
    BY <1>6, <1>8, TakenSound
  <1>13. i = FONT /\ t = 1 => ReadWhole(R!ReadFont(x, q), e)
    BY <1>6, <1>8, TakenFont
  <1>14. HasAttrs(e) => ReadWhole(R!ReadAttrs(x, q), e)
    BY <1>3, <1>8, TakenAttrs
  <1>15. HasAttrs(e) <=> (i = OBJ /\ t > 0) \/ (i = ANIM /\ t > 1)
    BY <1>6 DEF HasAttrs
  <1>16. ASSUME ~ (i = VSMX /\ t = 1), ~ (i = TEXT /\ t = 1),
                ~ (i \in {IMG, MODEL} /\ t = 1), ~ (i = SOUND /\ t = 1),
                ~ (i = FONT /\ t = 1), ~ HasAttrs(e)
         PROVE  ReadWhole(R!Parsed(x, 0, q), e)
    <2>1. Len(rco.attrs[e]) = 0 /\ (i = SOUND => t = 0)
      BY <1>4, <1>6, <1>16
    <2>2. ExtraLen(e) = 0
      BY <1>6, <1>15, <1>16, <2>1 DEF ExtraLen, VSMX, TEXT, IMG, MODEL, SOUND, FONT, OBJ, ANIM
    <2>3. EndAt(e) = q
      BY <1>4, <1>5, <1>8, <2>2 DEF EndAt
    <2> QED BY <1>8, <2>2, <2>3, WholeRead
  <1>17. ReadWhole(R!ReadExtra(x), e)
    BY <1>7, <1>9, <1>10, <1>11, <1>12, <1>13, <1>14, <1>15, <1>16
       DEF VSMX, TEXT, IMG, MODEL, SOUND, FONT, OBJ, ANIM
  <1> QED BY <1>1, <1>2, <1>17

-----------------------------------------------------------------------------
(* The calls of read_entry while the tree is read.                         *)

ReadFrames == [e : E, extra : Nat, left : Nat, next : Int]

(* The subentries of its entry that a call of read_entry has come to.      *)
Came(f) == Len(rco.kids[f.e]) - f.left

(* A call when m entries have been read.                                   *)
Reading(f, m) ==
    /\ f.e \in 1..m /\ f.left \in 0..Len(rco.kids[f.e]) /\ Within(rco, f.e, m)
    /\ f.extra = ExtraLen(f.e) /\ f.next = NextDistance(f.e, N)
    /\ \A i \in 1..Len(rco.kids[f.e]) : rco.kids[f.e][i] <= m <=> i <= Came(f)

(* The calls are those of an entry and of the entries above it.            *)
Chained(s) ==
    /\ \A j \in 1..Len(s) : j = Len(s) <=> s[j].e = Main
    /\ \A j \in 1..Len(s)-1 : s[j+1].e = rco.parent[s[j].e]
    /\ \A i, j \in 1..Len(s) : i < j => s[j].e < s[i].e

Called(s, e) == \E j \in 1..Len(s) : s[j].e = e

(* The parent of an entry that is still to be read waits for it.           *)
Awaited(s, m) ==
    \A e \in E : e > m /\ e # Main /\ rco.parent[e] <= m => Called(s, rco.parent[e])

(* The active calls of read_entry when m entries have been read.           *)
ReadCalls(s, m) ==
    /\ m \in 0..N /\ s \in Seq(ReadFrames)
    /\ \A j \in 1..Len(s) : Reading(s[j], m)
    /\ Chained(s) /\ Awaited(s, m)

(* Entries one to m are read, each where it was written.                   *)
NodesTo(s, m) ==
    /\ s \in Seq({s[i] : i \in DOMAIN s}) /\ Len(s) = m
    /\ \A i \in 1..m : Node(s[i], offset[i])

(* An entry has subentries once the call has come to one.                  *)
Begun(s, c) == \A j \in 1..Len(c) : s[c[j].e].kids = <<>> <=> Came(c[j]) = 0

(* The reader is at p with the entries s and the calls c when it has read  *)
(* the first m entries.                                                    *)
ReadTo(m, p, s, c) ==
    p = Ahead(m) /\ NodesTo(s, m) /\ ReadCalls(c, m) /\ Begun(s, c)

ReadTree(p, s, c) == \E m \in 0..N : ReadTo(m, p, s, c)

(* Before the tree is read, and while the unpacked header is needed.       *)
Unread == {"closed", "header", "texts", "sections"}
Untreed == {"texts", "sections", "entries"}

(* The reader begins when the file is finished, reads the tables as they   *)
(* were before they were packed, and keeps its place in the tree.          *)
ReadInv ==
    /\ NodesRead
    /\ pc # "done" => step = "closed"
    /\ step \in Unread => ents = <<>> /\ calls = <<>>
    /\ step = "texts" => Buffered /\ at \in Int
    /\ step \in Untreed /\ Buffered => Unpacked
    /\ step = "entries" => ReadTree(at, ents, calls)

LEMMA OwnSeq ==
    ASSUME NEW S, NEW s \in Seq(S)
    PROVE  s \in Seq({s[i] : i \in DOMAIN s})
  <1>1. Len(s) \in Nat /\ DOMAIN s = 1..Len(s) /\ s \in [1..Len(s) -> S]
    OBVIOUS
  <1>2. PICK n \in Nat : n = Len(s)
    BY <1>1
  <1>3. PICK T : T = {s[i] : i \in DOMAIN s}
    OBVIOUS
  <1>4. s \in [1..n -> T]
    BY <1>1, <1>2, <1>3
  <1>5. s \in Seq(T)
    BY <1>2, <1>4, FunctionIsSeq
  <1> QED BY <1>3, <1>5

LEMMA FirstReplaced ==
    ASSUME NEW S, NEW s \in Seq(S), s # <<>>, NEW x \in S
    PROVE  LET t == <<x>> \o Tail(s)
           IN /\ t \in Seq(S) /\ Len(t) = Len(s) /\ Len(s) \in Nat \ {0}
              /\ t[1] = x /\ \A j \in 2..Len(s) : t[j] = s[j]
  <1>1. PICK u : u = Tail(s)
    OBVIOUS
  <1>2. PICK p : p = <<x>>
    OBVIOUS
  <1>3. u \in Seq(S) /\ p \in Seq(S)
    BY <1>1, <1>2
  <1>4. p \o u \in Seq(S)
    BY <1>3
  <1>5. /\ Len(<<x>> \o Tail(s)) = Len(s)
        /\ (<<x>> \o Tail(s))[1] = x
        /\ \A j \in 2..Len(s) : (<<x>> \o Tail(s))[j] = s[j]
    BY Replaced
  <1>6. Len(s) \in Nat \ {0}
    BY Popped
  <1> QED BY <1>1, <1>2, <1>4, <1>5, <1>6

LEMMA OneAhead ==
    ASSUME NEW S, NEW s \in Seq(S), NEW x \in S
    PROVE  LET t == <<x>> \o s
           IN /\ t \in Seq(S) /\ Len(t) = Len(s) + 1 /\ Len(s) \in Nat
              /\ t[1] = x /\ \A j \in 2..Len(s)+1 : t[j] = s[j-1]
              /\ \A j \in 1..Len(s) : t[j+1] = s[j]
  <1>1. PICK p : p = <<x>>
    OBVIOUS
  <1>2. p \in Seq(S) /\ Len(p) = 1 /\ p[1] = x
    BY <1>1
  <1>3. /\ p \o s \in Seq(S) /\ Len(p \o s) = Len(p) + Len(s)
        /\ \A j \in 1..Len(p) + Len(s) :
              (p \o s)[j] = IF j <= Len(p) THEN p[j] ELSE s[j - Len(p)]
    BY <1>2, ConcatProperties
  <1>4. Len(s) \in Nat
    OBVIOUS
  <1>5. Len(p \o s) = Len(s) + 1
    BY <1>2, <1>3, <1>4
  <1>6. (p \o s)[1] = x
    BY <1>2, <1>3, <1>4
  <1>7. \A j \in 2..Len(s)+1 : (p \o s)[j] = s[j-1]
    BY <1>2, <1>3, <1>4
  <1>8. \A j \in 1..Len(s) : (p \o s)[j+1] = s[j]
    <2> TAKE j \in 1..Len(s)
    <2>1. PICK k \in Int : k = j + 1
      OBVIOUS
    <2>2. k \in 2..Len(s)+1 /\ k - 1 = j
      BY <1>4, <2>1
    <2>3. (p \o s)[k] = s[k-1]
      BY <1>7, <2>2
    <2> QED BY <2>1, <2>2, <2>3
  <1> QED BY <1>1, <1>3, <1>4, <1>5, <1>6, <1>7, <1>8

(* The next entry to be read is the next subentry of the innermost call.   *)
LEMMA NextRead ==
    ASSUME rco \in Archives, NEW m, NEW s, ReadCalls(s, m), s # <<>>, s[1].left > 0
    PROVE  LET e == s[1].e
           IN /\ m \in 1..N-1 /\ m + 1 \in E /\ m + 1 # Main /\ e \in 1..m
              /\ rco.parent[m + 1] = e /\ Came(s[1]) + 1 \in 1..Len(rco.kids[e])
              /\ Came(s[1]) \in Nat /\ Len(rco.kids[e]) \in Nat
              /\ rco.kids[e][Came(s[1]) + 1] = m + 1
  <1>1. PICK f : f = s[1]
    OBVIOUS
  <1>2. PICK e : e = f.e
    OBVIOUS
  <1>3. PICK d : d = Came(f)
    OBVIOUS
  <1>4. /\ s \in Seq(ReadFrames) /\ m \in 0..N /\ Len(s) \in Nat \ {0} /\ 1 \in 1..Len(s)
        /\ f.left > 0 /\ Reading(f, m) /\ Chained(s) /\ Awaited(s, m)
        /\ N \in Nat /\ E = 1..N /\ Main = 1
    <2>1. s \in Seq(ReadFrames) /\ m \in 0..N
      BY DEF ReadCalls
    <2>2. Len(s) \in Nat \ {0}
      BY <2>1, Popped
    <2>3. 1 \in 1..Len(s)
      BY <2>2
    <2>4. Reading(f, m) /\ Chained(s) /\ Awaited(s, m)
      BY <1>1, <2>3 DEF ReadCalls
    <2> QED BY <1>1, <2>1, <2>2, <2>3, <2>4, ParentType
  <1>5. /\ e \in 1..m /\ f.left \in 0..Len(rco.kids[e]) /\ d = Len(rco.kids[e]) - f.left
        /\ \A i \in 1..Len(rco.kids[e]) : rco.kids[e][i] <= m <=> i <= d
    BY <1>2, <1>3, <1>4 DEF Reading, Came
  <1>6. e \in E /\ Len(rco.kids[e]) \in Nat
    <2>1. e \in E
      BY <1>4, <1>5
    <2> QED BY <2>1, EntryType
  <1>7. d \in Nat /\ d + 1 \in 1..Len(rco.kids[e])
    BY <1>4, <1>5, <1>6
  <1>8. PICK g : g = rco.kids[e][d + 1]
    OBVIOUS
  <1>9. /\ g \in E /\ g # Main /\ rco.parent[g] = e /\ e < g
        /\ \A j \in 1..Len(rco.kids[e]) : d + 1 < j => g < rco.kids[e][j]
    BY <1>6, <1>7, <1>8, KidType
  <1>10. g > m
    <2>1. ~ (rco.kids[e][d + 1] <= m)
      BY <1>5, <1>7
    <2> QED BY <1>4, <1>8, <1>9, <2>1
  <1>11. m \in Nat /\ e \in Nat /\ g \in Nat /\ g <= N /\ 1 <= e /\ e <= m
    BY <1>4, <1>5, <1>9
  <1>12. PICK c \in Nat : c = m + 1
    BY <1>11
  <1>13. c \in E /\ c # Main /\ c <= g /\ c > m
    BY <1>4, <1>10, <1>11, <1>12
  <1>14. PICK q \in E : q = rco.parent[c]
    BY <1>13, ParentType
  <1>15. q < c /\ q <= m
    <2>1. q < c
      BY <1>13, <1>14, ParentType
    <2> QED BY <1>4, <1>11, <1>12, <2>1
  <1>16. c = g
    <2> SUFFICES ASSUME c # g PROVE FALSE
      OBVIOUS
    <2>1. c < g
      BY <1>11, <1>13
    <2>2. q >= e
      <3>1. c \in rco.parent[g]+1..g-1
        BY <1>9, <1>11, <1>12, <2>1
      <3>2. rco.parent[c] >= rco.parent[g]
        BY <1>9, <3>1, ParentType
      <3> QED BY <1>9, <1>14, <3>2
    <2>3. PICK j \in 1..Len(s) : s[j].e = q
      <3>1. Called(s, rco.parent[c])
        BY <1>4, <1>13, <1>14, <1>15 DEF Awaited
      <3> QED BY <1>14, <3>1 DEF Called
    <2>4. q <= e
      <3>1. CASE j = 1
        BY <1>1, <1>2, <1>11, <2>3, <3>1
      <3>2. CASE j # 1
        <4>1. 1 < j
          BY <1>4, <3>2
        <4>2. s[j].e < s[1].e
          BY <1>4, <4>1 DEF Chained
        <4> QED BY <1>1, <1>2, <1>4, <1>11, <2>3, <4>2
      <3> QED BY <3>1, <3>2
    <2>5. q = e
      BY <1>4, <1>11, <2>2, <2>4
    <2>6. PICK k \in 1..Len(rco.kids[e]) : rco.kids[e][k] = c
      <3>1. /\ Siblings(c) = rco.kids[rco.parent[c]]
            /\ Place(c) \in 1..Len(Siblings(c)) /\ Siblings(c)[Place(c)] = c
        BY <1>13, PlaceType
      <3>2. Siblings(c) = rco.kids[e]
        BY <1>14, <2>5, <3>1
      <3> QED BY <3>1, <3>2
    <2>7. ~ (k <= d)
      <3>1. ~ (c <= m)
        BY <1>11, <1>13
      <3> QED BY <1>5, <2>6, <3>1
    <2>8. CASE k = d + 1
      BY <1>8, <2>6, <2>8
    <2>9. CASE d + 1 < k
      <3>1. g < c
        BY <1>9, <2>6, <2>9
      <3> QED BY <1>11, <1>13, <3>1
    <2> QED BY <1>6, <1>7, <2>7, <2>8, <2>9
  <1>17. m \in 1..N-1
    BY <1>4, <1>10, <1>11
  <1>18. rco.parent[m + 1] = e /\ rco.kids[e][d + 1] = m + 1 /\ m + 1 \in E /\ m + 1 # Main
    BY <1>8, <1>9, <1>12, <1>13, <1>16
  <1> QED BY <1>1, <1>2, <1>3, <1>5, <1>6, <1>7, <1>17, <1>18

-----------------------------------------------------------------------------
(* An entry is come to.                                                    *)

(* The calls that wait while entry c is read.                              *)
Waiting(t, c) ==
    /\ c \in E /\ t \in Seq(ReadFrames) /\ Chained(t)
    /\ \A j \in 1..Len(t) : Reading(t[j], c) /\ t[j].e < c
    /\ IF c = Main THEN t = <<>> ELSE t # <<>> /\ t[1].e = rco.parent[c]
    /\ \A e \in E : e > c /\ e # Main /\ rco.parent[e] < c => Called(t, rco.parent[e])

LEMMA MainWaiting ==
    ASSUME rco \in Archives
    PROVE  Waiting(<<>>, Main)
  <1>1. Main \in E /\ Main = 1 /\ \A e \in E : e # Main => rco.parent[e] \in E
    BY ParentType
  <1>2. E = 1..N
    BY ParentType
  <1>3. PICK t : t = <<>>
    OBVIOUS
  <1>4. t \in Seq(ReadFrames) /\ Len(t) = 0
    BY <1>3
  <1>5. \A e \in E : ~ (e # Main /\ rco.parent[e] < Main)
    BY <1>1, <1>2
  <1>6. Chained(t)
    BY <1>4 DEF Chained
  <1>7. Waiting(t, Main)
    BY <1>1, <1>3, <1>4, <1>5, <1>6 DEF Waiting
  <1> QED BY <1>3, <1>7

(* A call that is still to be finished after one more entry.               *)
LEMMA ReadingMore ==
    ASSUME rco \in Archives, NEW m \in Nat, m + 1 \in E, m + 1 # Main,
           NEW f, f.e \in E, Reading(f, m), rco.parent[m + 1] # f.e,
           f.e <= rco.parent[m + 1]
    PROVE  Reading(f, m + 1)
  <1>1. PICK c \in Nat : c = m + 1
    OBVIOUS
  <1>2. PICK e \in E : e = f.e
    OBVIOUS
  <1>3. /\ e \in 1..m /\ f.left \in 0..Len(rco.kids[e]) /\ Within(rco, e, m)
        /\ f.extra = ExtraLen(e) /\ f.next = NextDistance(e, N)
        /\ \A i \in 1..Len(rco.kids[e]) : rco.kids[e][i] <= m <=> i <= Came(f)
    BY <1>2 DEF Reading
  <1>4. e \in 1..c
    BY <1>1, <1>3
  <1>5. Within(rco, e, c)
    <2>1. \A g \in e+1..m : rco.parent[g] >= e
      BY <1>3 DEF Within
    <2>2. rco.parent[c] >= e
      <3>1. rco.parent[c] \in Nat /\ e \in Nat
        BY <1>1, ParentType
      <3> QED BY <1>1, <1>2, <3>1
    <2>3. \A g \in e+1..c : g \in e+1..m \/ g = c
      BY <1>1, <1>3
    <2>4. \A g \in e+1..c : rco.parent[g] >= e
      BY <2>1, <2>2, <2>3
    <2> QED BY <1>4, <2>4 DEF Within
  <1>6. ASSUME NEW i \in 1..Len(rco.kids[e])
        PROVE  rco.kids[e][i] <= c <=> i <= Came(f)
    <2>1. PICK k : k = rco.kids[e][i]
      OBVIOUS
    <2>2. k \in E /\ rco.parent[k] = e
      BY <1>6, <2>1, KidType
    <2>3. k # c
      BY <1>1, <1>2, <2>2
    <2>4. k \in Nat
      BY <2>2, ParentType
    <2>5. k <= c <=> k <= m
      BY <1>1, <2>3, <2>4
    <2> QED BY <1>3, <2>1, <2>5
  <1>7. Reading(f, c)
    BY <1>2, <1>3, <1>4, <1>5, <1>6 DEF Reading
  <1> QED BY <1>1, <1>7

LEMMA ReadingNext ==
    ASSUME rco \in Archives, NEW m, NEW s, ReadCalls(s, m), s # <<>>, s[1].left > 0
    PROVE  LET x == [s[1] EXCEPT !.left = @ - 1]
           IN /\ x \in ReadFrames /\ x.e = s[1].e /\ Came(x) = Came(s[1]) + 1
              /\ Reading(x, m + 1)
  <1>1. PICK f : f = s[1]
    OBVIOUS
  <1>2. PICK d : d = Came(f)
    OBVIOUS
  <1>3. PICK e : e = f.e
    OBVIOUS
  <1>4. /\ m \in 1..N-1 /\ m + 1 \in E /\ m + 1 # Main /\ e \in 1..m
        /\ rco.parent[m + 1] = e /\ d + 1 \in 1..Len(rco.kids[e])
        /\ d \in Nat /\ Len(rco.kids[e]) \in Nat /\ rco.kids[e][d + 1] = m + 1
    BY <1>1, <1>2, <1>3, NextRead
  <1>5. /\ f \in ReadFrames /\ Reading(f, m) /\ f.left > 0 /\ N \in Nat /\ E = 1..N
    <2>1. s \in Seq(ReadFrames) /\ \A j \in 1..Len(s) : Reading(s[j], m)
      BY DEF ReadCalls
    <2>2. 1 \in 1..Len(s)
      <3>1. Len(s) \in Nat \ {0}
        BY <2>1, Popped
      <3> QED BY <3>1
    <2> QED BY <1>1, <2>1, <2>2, ParentType
  <1>6. PICK x : x = [f EXCEPT !.left = @ - 1]
    OBVIOUS
  <1>7. x \in ReadFrames /\ x.e = e /\ x.left = f.left - 1 /\ x.extra = f.extra /\ x.next = f.next
    BY <1>3, <1>5, <1>6 DEF ReadFrames
  <1>8. f.left \in Nat /\ e \in E
    BY <1>3, <1>5 DEF ReadFrames
  <1>9. Came(x) = d + 1
    <2>1. d = Len(rco.kids[e]) - f.left
      BY <1>2, <1>3 DEF Came
    <2>2. Came(x) = Len(rco.kids[e]) - (f.left - 1)
      BY <1>7 DEF Came
    <2>3. PICK a \in Nat, b \in Nat : a = Len(rco.kids[e]) /\ b = f.left
      BY <1>4, <1>8
    <2>4. a - (b - 1) = (a - b) + 1
      OBVIOUS
    <2> QED BY <2>1, <2>2, <2>3, <2>4
  <1>10. /\ f.left \in 0..Len(rco.kids[e]) /\ Within(rco, e, m)
         /\ f.extra = ExtraLen(e) /\ f.next = NextDistance(e, N)
    BY <1>3, <1>5 DEF Reading
  <1>11. PICK c \in Nat : c = m + 1
    BY <1>4, <1>5
  <1>12. Within(rco, e, c) /\ e \in 1..c
    <2>1. \A g \in e+1..m : rco.parent[g] >= e
      BY <1>10 DEF Within
    <2>2. rco.parent[c] >= e
      BY <1>4, <1>5, <1>11
    <2>3. \A g \in e+1..c : g \in e+1..m \/ g = c
      BY <1>4, <1>5, <1>11
    <2>4. \A g \in e+1..c : rco.parent[g] >= e
      BY <2>1, <2>2, <2>3
    <2>5. e <= c /\ e \in 1..c
      BY <1>4, <1>5, <1>11
    <2> QED BY <2>4, <2>5 DEF Within
  <1>13. ASSUME NEW i \in 1..Len(rco.kids[e])
         PROVE  rco.kids[e][i] <= c <=> i <= d + 1
    <2>1. /\ \A j \in 1..Len(rco.kids[e]) : d + 1 < j => rco.kids[e][d + 1] < rco.kids[e][j]
          /\ \A j \in 1..Len(rco.kids[e]) : j < d + 1 => rco.kids[e][j] < rco.kids[e][d + 1]
      BY <1>4, <1>8, KidType
    <2>2. rco.kids[e][d + 1] = c
      BY <1>4, <1>11
    <2>3. rco.kids[e][i] \in Nat
      <3>1. rco.kids[e][i] \in E
        BY <1>8, <1>13, KidType
      <3> QED BY <1>5, <3>1
    <2>4. d + 1 < i => c < rco.kids[e][i]
      BY <1>13, <2>1, <2>2
    <2>5. i < d + 1 => rco.kids[e][i] < c
      BY <1>13, <2>1, <2>2
    <2>6. i = d + 1 => rco.kids[e][i] = c
      BY <2>2
    <2> QED BY <1>4, <1>11, <1>13, <2>3, <2>4, <2>5, <2>6
  <1>14. x.left \in 0..Len(rco.kids[e])
    BY <1>5, <1>7, <1>8, <1>10
  <1>15. Reading(x, c)
    BY <1>7, <1>9, <1>10, <1>12, <1>13, <1>14 DEF Reading
  <1> QED BY <1>1, <1>2, <1>3, <1>6, <1>7, <1>9, <1>11, <1>15

LEMMA ChildWaiting ==
    ASSUME rco \in Archives, NEW m, NEW s, ReadCalls(s, m), s # <<>>, s[1].left > 0
    PROVE  LET x == [s[1] EXCEPT !.left = @ - 1]
               t == <<x>> \o Tail(s)
           IN Waiting(t, m + 1) /\ Len(t) = Len(s) /\ t[1] = x /\ \A j \in 2..Len(s) : t[j] = s[j]
  <1>1. PICK x : x = [s[1] EXCEPT !.left = @ - 1]
    OBVIOUS
  <1>2. x \in ReadFrames /\ x.e = s[1].e /\ Reading(x, m + 1)
    BY <1>1, ReadingNext
  <1>3. /\ m \in 1..N-1 /\ m + 1 \in E /\ m + 1 # Main /\ s[1].e \in 1..m
        /\ rco.parent[m + 1] = s[1].e
    BY NextRead
  <1>4. /\ s \in Seq(ReadFrames) /\ Chained(s) /\ Awaited(s, m)
        /\ \A j \in 1..Len(s) : Reading(s[j], m)
    BY DEF ReadCalls
  <1>5. PICK t : t = <<x>> \o Tail(s)
    OBVIOUS
  <1>6. /\ t \in Seq(ReadFrames) /\ Len(t) = Len(s) /\ Len(s) \in Nat \ {0}
        /\ t[1] = x /\ \A j \in 2..Len(s) : t[j] = s[j]
    BY <1>2, <1>4, <1>5, FirstReplaced
  <1>7. N \in Nat /\ E = 1..N
    BY ParentType
  <1>8. \A j \in 1..Len(s) : t[j].e = s[j].e
    <2> TAKE j \in 1..Len(s)
    <2>1. CASE j = 1
      BY <1>2, <1>6, <2>1
    <2>2. CASE j # 1
      <3>1. j \in 2..Len(s)
        BY <1>6, <2>2
      <3> QED BY <1>6, <3>1
    <2> QED BY <2>1, <2>2
  <1>9. Chained(t)
    <2>1. \A j \in 1..Len(t) : j = Len(t) <=> t[j].e = Main
      BY <1>4, <1>6, <1>8 DEF Chained
    <2>2. \A j \in 1..Len(t)-1 : t[j+1].e = rco.parent[t[j].e]
      <3> TAKE j \in 1..Len(t)-1
      <3>1. j \in 1..Len(s) /\ j + 1 \in 1..Len(s) /\ j \in 1..Len(s)-1
        BY <1>6
      <3>2. t[j].e = s[j].e /\ t[j+1].e = s[j+1].e
        BY <1>8, <3>1
      <3>3. s[j+1].e = rco.parent[s[j].e]
        BY <1>4, <3>1 DEF Chained
      <3> QED BY <3>2, <3>3
    <2>3. \A i, j \in 1..Len(t) : i < j => t[j].e < t[i].e
      BY <1>4, <1>6, <1>8 DEF Chained
    <2> QED BY <2>1, <2>2, <2>3 DEF Chained
  <1>10. ASSUME NEW j \in 1..Len(t)
         PROVE  Reading(t[j], m + 1) /\ t[j].e < m + 1
    <2>1. CASE j = 1
      <3>1. t[j].e < m + 1
        BY <1>2, <1>3, <1>6, <1>7, <2>1
      <3> QED BY <1>2, <1>6, <2>1, <3>1
    <2>2. CASE j # 1
      <3>1. j \in 2..Len(s) /\ 1 < j /\ 1 \in 1..Len(s) /\ j \in 1..Len(s)
        BY <1>6, <1>10, <2>2
      <3>2. PICK f : f = s[j]
        OBVIOUS
      <3>3. t[j] = f /\ Reading(f, m)
        BY <1>4, <1>6, <3>1, <3>2
      <3>4. f.e < s[1].e
        BY <1>4, <3>1, <3>2 DEF Chained
      <3>5. f.e \in 1..m
        BY <3>3 DEF Reading
      <3>6. m \in Nat /\ f.e \in E /\ rco.parent[m + 1] # f.e /\ f.e <= rco.parent[m + 1]
        BY <1>3, <1>7, <3>4, <3>5
      <3>7. Reading(f, m + 1)
        BY <1>3, <3>3, <3>6, ReadingMore
      <3> QED BY <1>7, <3>3, <3>5, <3>6, <3>7
    <2> QED BY <2>1, <2>2
  <1>11. ASSUME NEW e \in E, e > m + 1, e # Main, rco.parent[e] < m + 1
         PROVE  Called(t, rco.parent[e])
    <2>1. e \in Nat /\ rco.parent[e] \in Nat /\ m \in Nat
      BY <1>3, <1>7, ParentType
    <2>2. e > m /\ rco.parent[e] <= m
      BY <1>11, <2>1
    <2>3. Called(s, rco.parent[e])
      BY <1>4, <1>11, <2>2 DEF Awaited
    <2> QED BY <1>6, <1>8, <2>3 DEF Called
  <1>12. t # <<>> /\ t[1].e = rco.parent[m + 1]
    <2>1. t # <<>>
      BY <1>6
    <2> QED BY <1>2, <1>3, <1>6, <2>1
  <1>13. Waiting(t, m + 1)
    BY <1>3, <1>6, <1>9, <1>10, <1>11, <1>12 DEF Waiting
  <1> QED BY <1>1, <1>5, <1>6, <1>13

(* The call of read_entry for an entry, at its start.                      *)
Starts(f, c) ==
    /\ f \in ReadFrames /\ f.e = c /\ f.extra = ExtraLen(c)
    /\ f.left = Len(rco.kids[c]) /\ f.next = NextDistance(c, N)

LEMMA ReadingStart ==
    ASSUME rco \in Archives, NEW c \in E, NEW f, Starts(f, c)
    PROVE  Reading(f, c) /\ Came(f) = 0
  <1>1. /\ f \in ReadFrames /\ f.e = c /\ f.extra = ExtraLen(c)
        /\ f.left = Len(rco.kids[c]) /\ f.next = NextDistance(c, N)
    BY DEF Starts
  <1>2. Len(rco.kids[c]) \in Nat /\ E = 1..N /\ N \in Nat
    BY EntryType, ParentType
  <1>3. Came(f) = 0
    BY <1>1, <1>2 DEF Came
  <1>4. Within(rco, c, c)
    BY <1>2 DEF Within
  <1>5. \A i \in 1..Len(rco.kids[c]) : rco.kids[c][i] <= c <=> i <= 0
    <2> TAKE i \in 1..Len(rco.kids[c])
    <2>1. rco.kids[c][i] \in E /\ c < rco.kids[c][i]
      BY KidType
    <2> QED BY <1>2, <2>1
  <1>6. c \in 1..c /\ f.left \in 0..Len(rco.kids[c])
    BY <1>1, <1>2
  <1> QED BY <1>1, <1>3, <1>4, <1>5, <1>6 DEF Reading

LEMMA EntryCalled ==
    ASSUME rco \in Archives, NEW c, NEW t, Waiting(t, c), NEW f, Starts(f, c)
    PROVE  ReadCalls(<<f>> \o t, c)
  <1>1. /\ c \in E /\ t \in Seq(ReadFrames) /\ Chained(t) /\ f \in ReadFrames /\ f.e = c
        /\ \A j \in 1..Len(t) : Reading(t[j], c) /\ t[j].e < c
        /\ IF c = Main THEN t = <<>> ELSE t # <<>> /\ t[1].e = rco.parent[c]
    BY DEF Waiting, Starts
  <1>2. PICK u : u = <<f>> \o t
    OBVIOUS
  <1>3. /\ u \in Seq(ReadFrames) /\ Len(u) = Len(t) + 1 /\ Len(t) \in Nat
        /\ u[1] = f /\ \A j \in 2..Len(t)+1 : u[j] = t[j-1]
        /\ \A j \in 1..Len(t) : u[j+1] = t[j]
    BY <1>1, <1>2, OneAhead
  <1>4. N \in Nat /\ E = 1..N
    BY ParentType
  <1>5. \A j \in 1..Len(u) : j = 1 \/ (j \in 2..Len(t)+1 /\ j - 1 \in 1..Len(t))
    BY <1>3
  <1>6. \A j \in 1..Len(u) : Reading(u[j], c)
    <2>1. Reading(f, c)
      BY <1>1, ReadingStart
    <2> QED BY <1>1, <1>3, <1>5, <2>1
  <1>7. Chained(u)
    <2>1. ASSUME NEW j \in 1..Len(u) PROVE j = Len(u) <=> u[j].e = Main
      <3>1. CASE j = 1
        <4>1. t = <<>> <=> Len(t) = 0
          BY <1>1, EmptySeq
        <4>2. Len(u) = 1 <=> c = Main
          BY <1>1, <1>3, <4>1
        <4> QED BY <1>1, <1>3, <3>1, <4>2
      <3>2. CASE j # 1
        <4>1. j \in 2..Len(t)+1 /\ j - 1 \in 1..Len(t)
          BY <1>5, <2>1, <3>2
        <4>2. j - 1 = Len(t) <=> t[j-1].e = Main
          BY <1>1, <4>1 DEF Chained
        <4>3. j - 1 = Len(t) <=> j = Len(u)
          BY <1>3, <4>1
        <4> QED BY <1>3, <4>1, <4>2, <4>3
      <3> QED BY <3>1, <3>2
    <2>2. ASSUME NEW j \in 1..Len(u)-1 PROVE u[j+1].e = rco.parent[u[j].e]
      <3>1. j \in 1..Len(t) /\ u[j+1] = t[j]
        BY <1>3, <2>2
      <3>2. CASE j = 1
        <4>1. t # <<>>
          BY <1>3, <3>1
        <4> QED BY <1>1, <1>3, <3>1, <3>2, <4>1
      <3>3. CASE j # 1
        <4>1. j \in 2..Len(t)+1 /\ j - 1 \in 1..Len(t)-1 /\ (j - 1) + 1 = j
          BY <1>3, <3>1, <3>3
        <4>2. t[(j-1)+1].e = rco.parent[t[j-1].e]
          BY <1>1, <4>1 DEF Chained
        <4> QED BY <1>3, <3>1, <4>1, <4>2
      <3> QED BY <3>2, <3>3
    <2>3. ASSUME NEW i \in 1..Len(u), NEW j \in 1..Len(u), i < j
          PROVE  u[j].e < u[i].e
      <3>1. j \in 2..Len(t)+1 /\ j - 1 \in 1..Len(t) /\ u[j] = t[j-1]
        BY <1>3, <2>3
      <3>2. CASE i = 1
        BY <1>1, <1>3, <3>1, <3>2
      <3>3. CASE i # 1
        <4>1. i \in 2..Len(t)+1 /\ i - 1 \in 1..Len(t) /\ i - 1 < j - 1 /\ u[i] = t[i-1]
          BY <1>3, <2>3, <3>3
        <4>2. t[j-1].e < t[i-1].e
          BY <1>1, <3>1, <4>1 DEF Chained
        <4> QED BY <3>1, <4>1, <4>2
      <3> QED BY <3>2, <3>3
    <2> QED BY <2>1, <2>2, <2>3 DEF Chained
  <1>8. ASSUME NEW e \in E, e > c, e # Main, rco.parent[e] <= c
        PROVE  Called(u, rco.parent[e])
    <2>1. CASE rco.parent[e] = c
      <3>1. 1 \in 1..Len(u) /\ u[1].e = c
        BY <1>1, <1>3
      <3> QED BY <2>1, <3>1 DEF Called
    <2>2. CASE rco.parent[e] # c
      <3>1. rco.parent[e] < c
        <4>1. rco.parent[e] \in Nat
          BY ParentType
        <4> QED BY <1>1, <1>4, <1>8, <2>2, <4>1
      <3>2. Called(t, rco.parent[e])
        BY <1>8, <3>1 DEF Waiting
      <3>3. PICK j \in 1..Len(t) : t[j].e = rco.parent[e]
        BY <3>2 DEF Called
      <3>4. j + 1 \in 1..Len(u) /\ u[j+1].e = rco.parent[e]
        BY <1>3, <3>3
      <3> QED BY <3>4 DEF Called
    <2> QED BY <2>1, <2>2
  <1>9. c \in 0..N
    BY <1>1, <1>4
  <1>10. Awaited(u, c)
    BY <1>8 DEF Awaited
  <1> QED BY <1>2, <1>3, <1>6, <1>7, <1>9, <1>10 DEF ReadCalls

LEMMA LeafCalled ==
    ASSUME rco \in Archives, NEW c, NEW t, Waiting(t, c), rco.kids[c] = <<>>
    PROVE  ReadCalls(t, c)
  <1>1. /\ c \in E /\ t \in Seq(ReadFrames) /\ Chained(t)
        /\ \A j \in 1..Len(t) : Reading(t[j], c) /\ t[j].e < c
    BY DEF Waiting
  <1>2. N \in Nat /\ E = 1..N
    BY ParentType
  <1>3. ASSUME NEW e \in E, e > c, e # Main, rco.parent[e] <= c
        PROVE  Called(t, rco.parent[e])
    <2>1. rco.parent[e] # c
      <3>1. rco.parent[e] = c => Place(e) \in 1..Len(rco.kids[c])
        BY <1>3, PlaceType
      <3> QED BY <3>1
    <2>2. rco.parent[e] \in Nat
      BY ParentType
    <2>3. rco.parent[e] < c
      BY <1>1, <1>2, <1>3, <2>1, <2>2
    <2> QED BY <1>3, <2>3 DEF Waiting
  <1>4. Awaited(t, c)
    BY <1>3 DEF Awaited
  <1>5. c \in 0..N
    BY <1>1, <1>2
  <1> QED BY <1>1, <1>4, <1>5 DEF ReadCalls

-----------------------------------------------------------------------------
(* A call comes to its end.                                                *)

LEMMA InnerCall ==
    ASSUME rco \in Archives, NEW m, NEW s, ReadCalls(s, m), s # <<>>
    PROVE  /\ s[1].e \in 1..m /\ s[1].e \in E /\ m \in 0..N /\ 1 \in 1..Len(s)
           /\ Len(s) \in Nat \ {0} /\ Reading(s[1], m)
           /\ \A j \in 1..Len(s) : s[j].e \in E /\ s[j].e <= s[1].e
           /\ s[1].e # Main => 2 \in 1..Len(s) /\ s[2].e = rco.parent[s[1].e]
  <1>1. /\ s \in Seq(ReadFrames) /\ m \in 0..N /\ Chained(s)
        /\ \A j \in 1..Len(s) : Reading(s[j], m)
    BY DEF ReadCalls
  <1>2. Len(s) \in Nat \ {0} /\ 1 \in 1..Len(s)
    <2>1. Len(s) \in Nat \ {0}
      BY <1>1, Popped
    <2> QED BY <2>1
  <1>3. N \in Nat /\ E = 1..N
    BY ParentType
  <1>4. \A j \in 1..Len(s) : s[j].e \in 1..m /\ s[j].e \in E
    <2>1. \A j \in 1..Len(s) : s[j].e \in 1..m
      BY <1>1 DEF Reading
    <2> QED BY <1>1, <1>3, <2>1
  <1>5. \A j \in 1..Len(s) : s[j].e <= s[1].e
    <2> TAKE j \in 1..Len(s)
    <2>1. j # 1 => s[j].e < s[1].e
      <3>1. j # 1 => 1 < j
        OBVIOUS
      <3> QED BY <1>1, <1>2, <3>1 DEF Chained
    <2>2. s[j].e \in Nat /\ s[1].e \in Nat
      BY <1>2, <1>3, <1>4
    <2> QED BY <2>1, <2>2
  <1>6. s[1].e # Main => 2 \in 1..Len(s) /\ s[2].e = rco.parent[s[1].e]
    <2> SUFFICES ASSUME s[1].e # Main
                 PROVE  2 \in 1..Len(s) /\ s[2].e = rco.parent[s[1].e]
      OBVIOUS
    <2>1. 1 # Len(s)
      BY <1>1, <1>2 DEF Chained
    <2>2. 1 \in 1..Len(s)-1 /\ 2 \in 1..Len(s) /\ 1 + 1 = 2
      <3>1. PICK n \in Nat \ {0} : n = Len(s)
        BY <1>2
      <3>2. n >= 2
        BY <2>1, <3>1
      <3>3. 1 \in 1..n-1 /\ 2 \in 1..n /\ 1 + 1 = 2
        BY <3>2
      <3> QED BY ONLY <3>1, <3>3
    <2>3. s[1+1].e = rco.parent[s[1].e]
      BY <1>1, <2>2 DEF Chained
    <2> QED BY <2>2, <2>3
  <1> QED BY <1>1, <1>2, <1>4, <1>5, <1>6

LEMMA AllCome ==
    ASSUME rco \in Archives, NEW m, NEW s, ReadCalls(s, m), s # <<>>, s[1].left = 0,
           NEW g \in E, g # Main, rco.parent[g] = s[1].e
    PROVE  g <= m
  <1>1. PICK f : f = s[1]
    OBVIOUS
  <1>2. PICK e \in E : e = f.e
    BY <1>1, InnerCall
  <1>3. /\ f.left = 0
        /\ \A i \in 1..Len(rco.kids[e]) : rco.kids[e][i] <= m <=> i <= Came(f)
    <2>1. Reading(f, m)
      BY <1>1, InnerCall
    <2> QED BY <1>1, <1>2, <2>1 DEF Reading
  <1>4. Len(rco.kids[e]) \in Nat
    BY EntryType
  <1>5. Came(f) = Len(rco.kids[e])
    BY <1>2, <1>3, <1>4 DEF Came
  <1>6. PICK k \in 1..Len(rco.kids[e]) : rco.kids[e][k] = g
    <2>1. /\ Siblings(g) = rco.kids[rco.parent[g]]
          /\ Place(g) \in 1..Len(Siblings(g)) /\ Siblings(g)[Place(g)] = g
      BY PlaceType
    <2>2. Siblings(g) = rco.kids[e]
      BY <1>1, <1>2, <2>1
    <2> QED BY <2>1, <2>2
  <1>7. k <= Came(f)
    BY <1>4, <1>5
  <1> QED BY <1>3, <1>6, <1>7

(* What is read next is the next sibling.                                  *)
LEMMA SiblingNext ==
    ASSUME rco \in Archives, NEW m, NEW s, ReadCalls(s, m), s # <<>>, s[1].left = 0,
           ~ LastSibling(s[1].e)
    PROVE  Sibling(s[1].e) = m + 1
  <1>1. PICK e \in E : e = s[1].e
    BY InnerCall
  <1>2. PICK g : g = Sibling(e)
    OBVIOUS
  <1>3. PICK p \in E : p = rco.parent[e]
    BY <1>1, SiblingType
  <1>4. /\ e # Main /\ g \in E /\ g # Main /\ e < g /\ rco.parent[g] = p
    BY <1>1, <1>2, <1>3, SiblingType
  <1>5. /\ N \in Nat /\ E = 1..N /\ p < e /\ Main = 1
        /\ \A c \in E : c # Main => rco.parent[c] \in E /\ rco.parent[c] < c
        /\ \A c \in E : \A f \in rco.parent[c]+1..c-1 : rco.parent[f] >= rco.parent[c]
    BY <1>3, <1>4, ParentType
  <1>6. /\ e \in 1..m /\ m \in 0..N /\ Reading(s[1], m) /\ Awaited(s, m) /\ Chained(s)
        /\ Len(s) \in Nat /\ 2 \in 1..Len(s) /\ s[2].e = p
        /\ \A j \in 1..Len(s) : s[j].e <= e
    <2>1. Awaited(s, m) /\ Chained(s)
      BY DEF ReadCalls
    <2>2. /\ e \in 1..m /\ m \in 0..N /\ Reading(s[1], m)
          /\ Len(s) \in Nat /\ \A j \in 1..Len(s) : s[j].e <= e
      BY <1>1, InnerCall
    <2>3. 2 \in 1..Len(s) /\ s[2].e = p
      BY <1>1, <1>3, <1>4, InnerCall
    <2> QED BY <2>1, <2>2, <2>3
  <1>7. g > m
    <2> SUFFICES ASSUME ~ (g > m) PROVE FALSE
      OBVIOUS
    <2>1. g \in e+1..m
      BY <1>4, <1>5, <1>6
    <2>2. rco.parent[g] >= e
      BY <1>1, <1>6, <2>1 DEF Reading, Within
    <2> QED BY <1>4, <1>5, <2>2
  <1> SUFFICES ASSUME g # m + 1 PROVE FALSE
    BY <1>1, <1>2
  <1>8. PICK c \in Nat : c = m + 1
    BY <1>6
  <1>9. c \in E /\ c # Main /\ c < g /\ p < c /\ e < c /\ c > m
    BY <1>4, <1>5, <1>6, <1>7, <1>8
  <1>10. PICK q \in E : q = rco.parent[c]
    BY <1>5, <1>9
  <1>11. q <= m
    BY <1>5, <1>6, <1>8, <1>9, <1>10
  <1>12. q >= p
    <2>1. c \in rco.parent[g]+1..g-1
      BY <1>4, <1>5, <1>9
    <2> QED BY <1>4, <1>10, <2>1, <1>5
  <1>13. PICK j \in 1..Len(s) : s[j].e = q
    <2>1. Called(s, rco.parent[c])
      BY <1>6, <1>9, <1>10, <1>11 DEF Awaited
    <2> QED BY <1>10, <2>1 DEF Called
  <1>14. q # e
    <2>1. rco.parent[c] = s[1].e => c <= m
      BY <1>9, AllCome
    <2> QED BY <1>1, <1>6, <1>8, <1>10, <2>1
  <1>15. q <= p
    <2>1. j # 1
      BY <1>1, <1>13, <1>14
    <2>2. j # 2 => s[j].e < s[2].e
      <3>1. j # 2 => 2 < j
        BY <2>1
      <3> QED BY <1>6, <3>1 DEF Chained
    <2> QED BY <1>5, <1>6, <1>13, <2>2
  <1>16. q = p
    BY <1>5, <1>12, <1>15
  <1>17. g <= c
    BY <1>1, <1>2, <1>3, <1>9, <1>10, <1>16, NoneBetween
  <1> QED BY <1>4, <1>5, <1>9, <1>17

LEMMA CallsPopped ==
    ASSUME rco \in Archives, NEW m, NEW s, ReadCalls(s, m), s # <<>>, s[1].left = 0
    PROVE  ReadCalls(Tail(s), m)
  <1>1. /\ s \in Seq(ReadFrames) /\ m \in 0..N /\ Chained(s) /\ Awaited(s, m)
        /\ \A j \in 1..Len(s) : Reading(s[j], m)
    BY DEF ReadCalls
  <1>2. PICK t : t = Tail(s)
    OBVIOUS
  <1>3. /\ t \in Seq(ReadFrames) /\ Len(t) = Len(s) - 1 /\ Len(s) \in Nat \ {0}
        /\ \A j \in 1..Len(t) : t[j] = s[j+1]
    <2>1. t \in Seq(ReadFrames)
      BY <1>1, <1>2, TailType
    <2>2. Len(s) \in Nat \ {0} /\ Len(Tail(s)) = Len(s) - 1
          /\ \A j \in 1..Len(s)-1 : Tail(s)[j] = s[j+1]
      BY <1>1, Popped
    <2> QED BY <1>2, <2>1, <2>2
  <1>4. \A j \in 1..Len(t) : j + 1 \in 1..Len(s)
    BY <1>3
  <1>5. \A j \in 1..Len(t) : Reading(t[j], m)
    BY <1>1, <1>3, <1>4
  <1>6. Chained(t)
    <2>1. ASSUME NEW j \in 1..Len(t) PROVE j = Len(t) <=> t[j].e = Main
      <3>1. j + 1 = Len(s) <=> s[j+1].e = Main
        BY <1>1, <1>4, <2>1 DEF Chained
      <3>2. j + 1 = Len(s) <=> j = Len(t)
        BY <1>3, <2>1
      <3> QED BY <1>3, <2>1, <3>1, <3>2
    <2>2. ASSUME NEW j \in 1..Len(t)-1 PROVE t[j+1].e = rco.parent[t[j].e]
      <3>1. PICK k \in Int : k = j + 1
        OBVIOUS
      <3>2. k \in 1..Len(s)-1 /\ j \in 1..Len(t) /\ k \in 1..Len(t)
        BY <1>3, <2>2, <3>1
      <3>3. s[k+1].e = rco.parent[s[k].e]
        BY <1>1, <3>2 DEF Chained
      <3>4. t[k] = s[k+1] /\ t[j] = s[k]
        BY <1>3, <3>1, <3>2
      <3> QED BY <3>1, <3>3, <3>4
    <2>3. ASSUME NEW i \in 1..Len(t), NEW j \in 1..Len(t), i < j
          PROVE  t[j].e < t[i].e
      <3>1. i + 1 \in 1..Len(s) /\ j + 1 \in 1..Len(s) /\ i + 1 < j + 1
        BY <1>4, <2>3
      <3>2. s[j+1].e < s[i+1].e
        BY <1>1, <3>1 DEF Chained
      <3> QED BY <1>3, <2>3, <3>2
    <2> QED BY <2>1, <2>2, <2>3 DEF Chained
  <1>7. ASSUME NEW e \in E, e > m, e # Main, rco.parent[e] <= m
        PROVE  Called(t, rco.parent[e])
    <2>1. Called(s, rco.parent[e])
      BY <1>1, <1>7 DEF Awaited
    <2>2. PICK j \in 1..Len(s) : s[j].e = rco.parent[e]
      BY <2>1 DEF Called
    <2>3. j # 1
      <3>1. rco.parent[e] = s[1].e => e <= m
        BY <1>7, AllCome
      <3>2. e \in Nat /\ m \in Nat
        BY <1>1, ParentType
      <3> QED BY <1>7, <2>2, <3>1, <3>2
    <2>4. PICK k \in Int : k = j - 1
      OBVIOUS
    <2>5. k \in 1..Len(t) /\ k + 1 = j
      BY <1>3, <2>3, <2>4
    <2>6. t[k].e = rco.parent[e]
      BY <1>3, <2>2, <2>5
    <2> QED BY <2>5, <2>6 DEF Called
  <1>8. Awaited(t, m)
    BY <1>7 DEF Awaited
  <1> QED BY <1>1, <1>2, <1>3, <1>5, <1>6, <1>8 DEF ReadCalls

-----------------------------------------------------------------------------
(* The steps of the reader through the tree.                               *)

LEMMA SameFrames ==
    ASSUME UNCHANGED vars
    PROVE  /\ \A s, m : ReadCalls(s, m)' <=> ReadCalls(s, m)
           /\ \A m : Ahead(m)' = Ahead(m)
           /\ \A f : Came(f)' = Came(f)
           /\ \A p, s, c : ReadTree(p, s, c)' <=> ReadTree(p, s, c)
           /\ NodesRead' <=> \A i \in DOMAIN ents' : i \in E /\ Node(ents'[i], offset[i])
  <1>1. /\ rco' = rco /\ src' = src /\ offset' = offset /\ stack' = stack /\ pos' = pos
        /\ E' = E /\ N' = N
    BY DEF vars, E, N
  <1>2. \A e : ExtraLen(e)' = ExtraLen(e)
    BY <1>1, FormSame
  <1>3. \A m : Ahead(m)' = Ahead(m)
    BY <1>1, <1>2 DEF Ahead, EndAt
  <1>4. \A f : Came(f)' = Came(f)
    BY <1>1 DEF Came
  <1>5. \A e : NextDistance(e, N)' = NextDistance(e, N)
    BY <1>1 DEF NextDistance, LastSibling, OnStack, Siblings, Place
  <1>6. ReadFrames' = ReadFrames
    BY <1>1 DEF ReadFrames
  <1>7. \A f, m : Reading(f, m)' <=> Reading(f, m)
    BY <1>1, <1>2, <1>4, <1>5 DEF Reading, Within
  <1>8. \A s : Chained(s)' <=> Chained(s)
    BY <1>1 DEF Chained
  <1>9. \A s, m : Awaited(s, m)' <=> Awaited(s, m)
    BY <1>1 DEF Awaited, Called
  <1>10. \A s, m : ReadCalls(s, m)' <=> ReadCalls(s, m)
    BY <1>1, <1>6, <1>7, <1>8, <1>9 DEF ReadCalls
  <1>11. \A s, m : NodesTo(s, m)' <=> NodesTo(s, m)
    BY <1>1 DEF NodesTo, Node
  <1>12. \A s, c : Begun(s, c)' <=> Begun(s, c)
    BY <1>4 DEF Begun
  <1>13. \A m, p, s, c : ReadTo(m, p, s, c)' <=> ReadTo(m, p, s, c)
    BY <1>3, <1>10, <1>11, <1>12 DEF ReadTo
  <1>14. \A p, s, c : ReadTree(p, s, c)' <=> ReadTree(p, s, c)
    BY <1>1, <1>13 DEF ReadTree
  <1>15. NodesRead' <=> \A i \in DOMAIN ents' : i \in E /\ Node(ents'[i], offset[i])
    BY <1>1 DEF NodesRead, Node
  <1> QED BY <1>3, <1>4, <1>10, <1>14, <1>15

LEMMA Sight ==
    ASSUME TypeInv, TreeInv, FormInv, HeadInv, Legible, pc = "done", Buffered => Unpacked
    PROVE  InSight
  <1>1. Mirror
    BY Mirrors
  <1>2. TreeWritten
    BY DEF TreeWritten
  <1> QED BY <1>1, <1>2 DEF InSight, InFull

(* An entry is added to the children of its parent.                        *)
Grown(t, s, p, c) == t = [s EXCEPT ![p].kids = Append(@, c)]

(* The entries s lie where they were written; t are entries s, of which p  *)
(* has become the parent of one more.                                      *)
AllNodes(s) == \A i \in 1..Len(s) : Node(s[i], offset[i])

SameBut(t, s, p) ==
    /\ \E T : t \in Seq(T)
    /\ Len(t) = Len(s) /\ AllNodes(t)
    /\ t[p].kids # <<>> /\ \A i \in 1..Len(s) : i # p => t[i] = s[i]

LEMMA KidAdded ==
    ASSUME NEW S, NEW s \in Seq(S), NEW p \in 1..Len(s), NEW c \in Nat,
           AllNodes(s), NEW t, Grown(t, s, p, c)
    PROVE  SameBut(t, s, p)
  <1>1. PICK n \in Nat : n = Len(s)
    OBVIOUS
  <1>2. PICK x : x = s[p]
    OBVIOUS
  <1>3. PICK k \in Seq(Nat) : k = x.kids
    BY <1>2 DEF Node, AllNodes
  <1>4. PICK l : l = Append(k, c)
    OBVIOUS
  <1>5. l \in Seq(Nat) /\ l # <<>>
    <2>1. l \in Seq(Nat) /\ Len(l) = Len(k) + 1 /\ Len(k) \in Nat
      BY <1>4
    <2> QED BY <2>1, EmptySeq
  <1>6. PICK y : y = [x EXCEPT !.kids = l]
    OBVIOUS
  <1>7. Node(y, offset[p]) /\ y.kids = l
    <2>1. Node(x, offset[p])
      BY <1>2 DEF AllNodes
    <2> QED BY <1>5, <1>6, <2>1 DEF Node
  <1>9. t = [s EXCEPT ![p] = y]
    BY <1>2, <1>3, <1>4, <1>6 DEF Grown
  <1>10. DOMAIN s = 1..n /\ s \in [1..n -> S]
    BY <1>1
  <1>11. PICK T : T = S \cup {y}
    OBVIOUS
  <1>12. /\ t \in [1..n -> T] /\ t[p] = y /\ \A i \in 1..n : i # p => t[i] = s[i]
    BY <1>1, <1>9, <1>10, <1>11
  <1>13. t \in Seq(T) /\ Len(t) = n
    <2>1. t \in Seq(T)
      BY <1>1, <1>12, FunctionIsSeq
    <2>2. DOMAIN t = 1..n
      BY <1>12
    <2> QED BY <1>1, <2>1, <2>2
  <1>14. \A i \in 1..n : Node(t[i], offset[i])
    BY <1>1, <1>7, <1>12 DEF AllNodes
  <1> QED BY <1>1, <1>5, <1>7, <1>12, <1>13, <1>14 DEF SameBut, AllNodes

LEMMA NodeAdded ==
    ASSUME NEW S, NEW s \in Seq(S), NEW m \in Nat, Len(s) = m, NEW x,
           \A i \in 1..m : Node(s[i], offset[i]), Node(x, offset[m + 1])
    PROVE  LET t == Append(s, x)
           IN NodesTo(t, m + 1) /\ t[m + 1] = x /\ \A i \in 1..m : t[i] = s[i]
  <1>1. PICK T : T = S \cup {x}
    OBVIOUS
  <1>2. s \in Seq(T) /\ x \in T
    BY <1>1
  <1>3. PICK t : t = Append(s, x)
    OBVIOUS
  <1>4. t \in Seq(T) /\ Len(t) = m + 1 /\ t[m + 1] = x /\ \A i \in 1..m : t[i] = s[i]
    BY <1>2, <1>3
  <1>5. t \in Seq({t[i] : i \in DOMAIN t})
    BY <1>4, OwnSeq
  <1>6. \A i \in 1..m+1 : Node(t[i], offset[i])
    <2> TAKE i \in 1..m+1
    <2>1. i \in 1..m \/ i = m + 1
      OBVIOUS
    <2> QED BY <1>4, <2>1
  <1> QED BY <1>3, <1>4, <1>5, <1>6 DEF NodesTo

(* The call that read_entry begins.                                        *)
LEMMA CallBegun ==
    ASSUME InSight, NEW c \in E, NEW r, ReadWhole(r, c), r.ok, NEW p, p = offset[c]
    PROVE  Starts([e |-> c, extra |-> r.size,
                   left |-> R!Capped(R!Cell(p + R!CountField - 1)),
                   next |-> R!Cell(p + R!NextField - 1)], c)
  <1>1. /\ R!Cell(p + NextField - 1) = NextDistance(c, N)
        /\ R!Capped(R!Cell(p + CountField - 1)) = Len(rco.kids[c])
    BY HeaderRead
  <1>2. R!CountField = CountField /\ R!NextField = NextField
    BY ReaderNames
  <1>3. r.size = ExtraLen(c)
    BY DEF ReadWhole
  <1>4. NextDistance(c, N) \in Int /\ ExtraLen(c) \in Nat /\ Len(rco.kids[c]) \in Nat
    <2>1. InFull /\ TypeInv /\ rco \in Archives
      BY DEF InSight, InFull, TypeInv
    <2> QED BY <2>1, NextWritten, ExtraLenType, EntryType
  <1>5. PICK l \in Nat, d \in Int, x \in Nat :
           l = Len(rco.kids[c]) /\ d = NextDistance(c, N) /\ x = ExtraLen(c)
    BY <1>4
  <1>6. PICK f : f = [e |-> c, extra |-> x, left |-> l, next |-> d]
    OBVIOUS
  <1>7. Starts(f, c)
    BY <1>5, <1>6 DEF Starts, ReadFrames
  <1> QED BY <1>1, <1>2, <1>3, <1>5, <1>6, <1>7

(* What read_entry does to the entries and to the calls.                   *)
Read1(s, m, parent, callers) ==
    /\ step' = step /\ mem' = mem /\ ents' = s /\ at' = Ahead(m)
    /\ NodesTo(s, m) /\ s[m].kids = <<>> /\ (parent # Nil => s[parent].kids # <<>>)
    /\ \A i \in 1..m-1 : i # parent => s[i].kids = ents[i].kids
    /\ \/ \E f : Starts(f, m) /\ calls' = <<f>> \o callers
       \/ rco.kids[m] = <<>> /\ calls' = callers

LEMMA EnterRead ==
    ASSUME InSight, NEW m \in 0..N-1, NodesTo(ents, m), at = Ahead(m),
           NEW parent, parent = Nil \/ parent \in 1..m, NEW callers,
           R!Enter(parent, callers)
    PROVE  \/ step' = "undefined" /\ ents' = ents
           \/ \E s : Read1(s, m + 1, parent, callers)
  <1>1. CASE ~ R!Fits(at, R!EntryWords)
    BY <1>1 DEF R!Enter
  <1>2. CASE R!Fits(at, R!EntryWords)
    <2>1. /\ TypeInv /\ rco \in Archives /\ InFull /\ N \in Nat /\ E = 1..N /\ m \in Nat
      <3>1. TypeInv /\ rco \in Archives /\ InFull
        BY DEF InSight, InFull, TypeInv
      <3> QED BY <3>1, ParentType
    <2>2. PICK c \in E : c = m + 1
      BY <2>1
    <2>3. at = offset[c] /\ Ahead(c) = EndAt(c)
      <3>1. c - 1 = m
        BY <2>1, <2>2
      <3>2. offset[c] = Ahead(c - 1) /\ EndAt(c) = Ahead(c)
        BY <2>1, EntryWritten
      <3> QED BY <3>1, <3>2
    <2>4. PICK p : p = at
      OBVIOUS
    <2>5. PICK r : r = R!ReadExtra(R!EntryAt(p))
      OBVIOUS
    <2>6. ReadWhole(r, c)
      BY <2>3, <2>4, <2>5, ExtraTaken
    <2>7. PICK base : base = IF parent = Nil THEN ents
                             ELSE [ents EXCEPT ![parent].kids = Append(@, c)]
      OBVIOUS
    <2>8. PICK f : f = [e |-> c, extra |-> r.size,
                        left |-> R!Capped(R!Cell(p + R!CountField - 1)),
                        next |-> R!Cell(p + R!NextField - 1)]
      OBVIOUS
    <2>9. /\ ents' = Append(base, r.entry) /\ at' = r.to /\ step' = step /\ mem' = mem
          /\ calls' = IF r.ok THEN <<f>> \o callers ELSE callers
      <3>1. Len(ents) + 1 = c /\ R!Nil = Nil
        BY <2>2 DEF NodesTo, R!Nil, Nil
      <3> QED BY <1>2, <2>4, <2>5, <2>7, <2>8, <3>1 DEF R!Enter
    <2>10. at' = Ahead(c)
      BY <2>3, <2>6, <2>9 DEF ReadWhole
    <2>11. ents \in Seq({ents[i] : i \in DOMAIN ents}) /\ Len(ents) = m
           /\ \A i \in 1..m : Node(ents[i], offset[i])
      BY DEF NodesTo
    <2>12. /\ \E S : base \in Seq(S)
           /\ Len(base) = m /\ \A i \in 1..m : Node(base[i], offset[i])
           /\ parent # Nil => base[parent].kids # <<>>
           /\ \A i \in 1..m : i # parent => base[i] = ents[i]
      <3>1. CASE parent = Nil
        <4>1. base = ents
          BY <2>7, <3>1
        <4> QED BY <2>11, <3>1, <4>1
      <3>2. CASE parent # Nil
        <4>1. parent \in 1..Len(ents) /\ c \in Nat
          BY <2>1, <2>2, <2>11, <3>2
        <4>2. base = [ents EXCEPT ![parent].kids = Append(@, c)]
          BY <2>7, <3>2
        <4>3. PICK s : s = ents
          OBVIOUS
        <4>4. PICK S : s \in Seq(S)
          BY <2>11, <4>3
        <4>5. parent \in 1..Len(s) /\ AllNodes(s)
          BY <2>11, <4>1, <4>3 DEF AllNodes
        <4>6. Grown(base, s, parent, c)
          BY <4>2, <4>3 DEF Grown
        <4>7. SameBut(base, s, parent)
          BY <4>1, <4>4, <4>5, <4>6, KidAdded
        <4> QED BY <2>11, <4>3, <4>7 DEF SameBut, AllNodes
      <3> QED BY <3>1, <3>2
    <2>13. Node(r.entry, offset[c]) /\ r.entry.kids = <<>>
      <3>1. Fresh(r.entry, offset[c])
        BY <2>6 DEF ReadWhole
      <3> QED BY <3>1 DEF Fresh, Node
    <2>14. PICK s : s = ents'
      OBVIOUS
    <2>15. NodesTo(s, c) /\ s[c] = r.entry /\ \A i \in 1..m : s[i] = base[i]
      <3>1. PICK S : base \in Seq(S)
        BY <2>12
      <3>2. s = Append(base, r.entry)
        BY <2>9, <2>14
      <3>3. Node(r.entry, offset[m + 1])
        BY <2>2, <2>13
      <3>4. LET t == Append(base, r.entry)
            IN NodesTo(t, m + 1) /\ t[m + 1] = r.entry /\ \A i \in 1..m : t[i] = base[i]
        BY <2>1, <2>12, <3>1, <3>3, NodeAdded
      <3> QED BY <2>2, <3>2, <3>4
    <2>16. \/ Starts(f, c) /\ calls' = <<f>> \o callers
           \/ rco.kids[c] = <<>> /\ calls' = callers
      <3>1. CASE r.ok
        BY <2>3, <2>4, <2>6, <2>8, <2>9, <3>1, CallBegun
      <3>2. CASE ~ r.ok
        BY <2>6, <2>9, <3>2 DEF ReadWhole
      <3> QED BY <3>1, <3>2
    <2>17. parent # Nil => s[parent].kids # <<>>
      BY <2>12, <2>15
    <2>18. \A i \in 1..c-1 : i # parent => s[i].kids = ents[i].kids
      <3>1. c - 1 = m
        BY <2>1, <2>2
      <3> QED BY <2>12, <2>15, <3>1
    <2>19. Read1(s, c, parent, callers)
      BY <2>9, <2>10, <2>13, <2>14, <2>15, <2>16, <2>17, <2>18 DEF Read1
    <2> QED BY <2>2, <2>19
  <1> QED BY <1>1, <1>2

-----------------------------------------------------------------------------
(* Each step through the tree leads from one entry to the next.            *)

(* After a step through the tree the reader has read the first entries of  *)
(* the document and is at the end of the last of them, or the file was too *)
(* short.                                                                  *)
Onward ==
    \/ step' = "undefined" /\ ents' = ents
    \/ /\ step' \in {"entries", "shortcuts"} /\ mem' = mem
       /\ \E p, s, c : p = at' /\ s = ents' /\ c = calls' /\ ReadTree(p, s, c)

LEMMA EntryBegun ==
    ASSUME rco \in Archives, NEW s, NEW m \in E, NEW parent, NEW t, step = "entries",
           Read1(s, m, parent, t), Waiting(t, m), Begun(s, t)
    PROVE  Onward
  <1>1. /\ step' = step /\ mem' = mem /\ ents' = s /\ at' = Ahead(m)
        /\ NodesTo(s, m) /\ s[m].kids = <<>>
        /\ \/ \E f : Starts(f, m) /\ calls' = <<f>> \o t
           \/ rco.kids[m] = <<>> /\ calls' = t
    BY DEF Read1
  <1>2. m \in 0..N
    BY ParentType
  <1>3. ASSUME NEW d, d = calls', ReadCalls(d, m), Begun(s, d)
        PROVE  Onward
    <2>1. PICK p : p = Ahead(m)
      OBVIOUS
    <2>2. ReadTree(p, s, d)
      BY <1>1, <1>2, <1>3, <2>1 DEF ReadTree, ReadTo
    <2>3. p = at' /\ s = ents' /\ d = calls'
      BY <1>1, <1>3, <2>1
    <2>4. step' \in {"entries", "shortcuts"} /\ mem' = mem
      BY <1>1
    <2> QED BY <2>2, <2>3, <2>4 DEF Onward
  <1>4. CASE \E f : Starts(f, m) /\ calls' = <<f>> \o t
    <2>1. PICK f : Starts(f, m) /\ calls' = <<f>> \o t
      BY <1>4
    <2>2. PICK d : d = <<f>> \o t
      OBVIOUS
    <2>3. ReadCalls(d, m)
      BY <2>1, <2>2, EntryCalled
    <2>4. t \in Seq(ReadFrames) /\ f \in ReadFrames /\ f.e = m
      BY <2>1 DEF Waiting, Starts
    <2>5. /\ Len(d) = Len(t) + 1 /\ Len(t) \in Nat
          /\ d[1] = f /\ \A j \in 2..Len(t)+1 : d[j] = t[j-1]
      BY <2>2, <2>4, OneAhead
    <2>6. Came(f) = 0
      BY <2>1, ReadingStart
    <2>7. ASSUME NEW j \in 1..Len(d)
          PROVE  s[d[j].e].kids = <<>> <=> Came(d[j]) = 0
      <3>1. CASE j = 1
        BY <1>1, <2>4, <2>5, <2>6, <3>1
      <3>2. CASE j # 1
        <4>1. j \in 2..Len(t)+1
          BY <2>5, <2>7, <3>2
        <4>2. PICK k \in 1..Len(t) : k = j - 1
          BY <2>5, <4>1
        <4>3. d[j] = t[k]
          BY <2>5, <4>1, <4>2
        <4>4. s[t[k].e].kids = <<>> <=> Came(t[k]) = 0
          BY <4>2 DEF Begun
        <4> QED BY <4>3, <4>4
      <3> QED BY <3>1, <3>2
    <2>8. Begun(s, d)
      BY <2>7 DEF Begun
    <2> QED BY <1>3, <2>1, <2>2, <2>3, <2>8
  <1>5. CASE rco.kids[m] = <<>> /\ calls' = t
    <2>1. ReadCalls(t, m)
      BY <1>5, LeafCalled
    <2> QED BY <1>3, <1>5, <2>1
  <1> QED BY <1>1, <1>4, <1>5

LEMMA MainStep ==
    ASSUME InSight, step = "entries", ReadTree(at, ents, calls), R!ReadMain
    PROVE  Onward
  <1>1. /\ rco \in Archives /\ N \in Nat \ {0} /\ E = 1..N /\ Main \in E /\ Main = 1
    <2>1. rco \in Archives
      BY DEF InSight, InFull, TypeInv
    <2> QED BY <2>1, ParentType
  <1>2. ents = <<>> /\ R!Enter(R!Nil, <<>>) /\ R!Nil = Nil
    BY DEF R!ReadMain, R!Nil, Nil
  <1>3. PICK m \in 0..N : ReadTo(m, at, ents, calls)
    BY DEF ReadTree
  <1>4. at = Ahead(m) /\ NodesTo(ents, m)
    BY <1>3 DEF ReadTo
  <1>5. m = 0
    <2>1. Len(ents) = 0
      BY <1>2
    <2> QED BY <1>4, <2>1 DEF NodesTo
  <1>6. PICK t : t = <<>>
    OBVIOUS
  <1>7. m \in 0..N-1 /\ m + 1 = Main
    BY <1>1, <1>5
  <1>8. \/ step' = "undefined" /\ ents' = ents
        \/ \E s : Read1(s, m + 1, Nil, t)
    BY <1>2, <1>4, <1>6, <1>7, EnterRead
  <1>9. Waiting(t, Main)
    BY <1>1, <1>6, MainWaiting
  <1>10. ASSUME NEW s, Read1(s, m + 1, Nil, t) PROVE Onward
    <2>1. Read1(s, Main, Nil, t)
      BY <1>7, <1>10
    <2>2. Begun(s, t)
      <3>1. Len(t) = 0
        BY <1>6
      <3> QED BY <3>1 DEF Begun
    <2> QED BY <1>1, <1>9, <2>1, <2>2, EntryBegun
  <1> QED BY <1>8, <1>10 DEF Onward

LEMMA ChildStep ==
    ASSUME InSight, step = "entries", ReadTree(at, ents, calls), R!ReadChild
    PROVE  Onward
  <1>1. /\ rco \in Archives /\ N \in Nat \ {0} /\ E = 1..N
    <2>1. rco \in Archives
      BY DEF InSight, InFull, TypeInv
    <2> QED BY <2>1, ParentType
  <1>2. PICK c : c = calls
    OBVIOUS
  <1>3. c # <<>> /\ c[1].left > 0
    BY <1>2 DEF R!ReadChild
  <1>4. PICK m \in 0..N : ReadTo(m, at, ents, c)
    BY <1>2 DEF ReadTree
  <1>5. at = Ahead(m) /\ NodesTo(ents, m) /\ ReadCalls(c, m) /\ Begun(ents, c)
    BY <1>4 DEF ReadTo
  <1>6. PICK x : x = [c[1] EXCEPT !.left = @ - 1]
    OBVIOUS
  <1>7. PICK t : t = <<x>> \o Tail(c)
    OBVIOUS
  <1>8. R!Enter(c[1].e, t)
    BY <1>2, <1>6, <1>7 DEF R!ReadChild
  <1>9. PICK e : e = c[1].e
    OBVIOUS
  <1>10. /\ m \in 0..N-1 /\ m + 1 \in E /\ e \in 1..m /\ Came(c[1]) \in Nat
    BY <1>1, <1>3, <1>5, <1>9, NextRead
  <1>11. \/ step' = "undefined" /\ ents' = ents
         \/ \E s : Read1(s, m + 1, e, t)
    BY <1>5, <1>8, <1>9, <1>10, EnterRead
  <1>12. Waiting(t, m + 1) /\ Len(t) = Len(c) /\ t[1] = x /\ \A j \in 2..Len(c) : t[j] = c[j]
    BY <1>1, <1>3, <1>5, <1>6, <1>7, ChildWaiting
  <1>13. x.e = e /\ Came(x) = Came(c[1]) + 1
    BY <1>1, <1>3, <1>5, <1>6, <1>9, ReadingNext
  <1>14. c \in Seq(ReadFrames) /\ Chained(c) /\ \A j \in 1..Len(c) : Reading(c[j], m)
    BY <1>5 DEF ReadCalls
  <1>15. Len(c) \in Nat \ {0}
    BY <1>3, <1>14, Popped
  <1>16. ASSUME NEW s, Read1(s, m + 1, e, t) PROVE Onward
    <2>1. s[e].kids # <<>> /\ \A i \in 1..m : i # e => s[i].kids = ents[i].kids
      <3>1. e # Nil
        BY <1>10 DEF Nil
      <3>2. \A i \in 1..m : i \in 1..(m+1)-1
        BY <1>10
      <3> QED BY <1>16, <3>1, <3>2 DEF Read1
    <2>2. ASSUME NEW j \in 1..Len(t)
          PROVE  s[t[j].e].kids = <<>> <=> Came(t[j]) = 0
      <3>1. CASE j = 1
        <4>1. Came(x) # 0
          BY <1>10, <1>13
        <4> QED BY <1>12, <1>13, <2>1, <3>1, <4>1
      <3>2. CASE j # 1
        <4>1. j \in 2..Len(c) /\ j \in 1..Len(c) /\ 1 \in 1..Len(c) /\ 1 < j
          BY <1>12, <1>15, <2>2, <3>2
        <4>2. PICK f : f = c[j]
          OBVIOUS
        <4>3. t[j] = f
          BY <1>12, <4>1, <4>2
        <4>4. f.e < e
          BY <1>9, <1>14, <4>1, <4>2 DEF Chained
        <4>5. f.e \in 1..m
          BY <1>14, <4>1, <4>2 DEF Reading
        <4>6. s[f.e].kids = ents[f.e].kids
          BY <1>10, <2>1, <4>4, <4>5
        <4>7. ents[f.e].kids = <<>> <=> Came(f) = 0
          BY <1>5, <4>1, <4>2 DEF Begun
        <4> QED BY <4>3, <4>6, <4>7
      <3> QED BY <3>1, <3>2
    <2>3. Begun(s, t)
      BY <2>2 DEF Begun
    <2> QED BY <1>1, <1>10, <1>12, <1>16, <2>3, EntryBegun
  <1> QED BY <1>11, <1>16 DEF Onward

(* A call ends where the entry behind it begins.                           *)
LEMMA CallEnds ==
    ASSUME InFull, NEW m \in 0..N, ReadTo(m, at, ents, calls),
           calls # <<>>, calls[1].left = 0
    PROVE  calls[1].next \in {0, R!Consumed(calls[1])}
  <1>1. /\ rco \in Archives /\ N \in Nat \ {0} /\ E = 1..N
    <2>1. rco \in Archives
      BY DEF InFull, TypeInv
    <2> QED BY <2>1, ParentType
  <1>2. PICK c : c = calls
    OBVIOUS
  <1>3. /\ at = Ahead(m) /\ NodesTo(ents, m) /\ ReadCalls(c, m) /\ Begun(ents, c)
        /\ c # <<>> /\ c[1].left = 0
    BY <1>2 DEF ReadTo
  <1>4. PICK f : f = c[1]
    OBVIOUS
  <1>5. PICK e \in E : e = f.e
    BY <1>1, <1>3, <1>4, InnerCall
  <1>6. e \in 1..m /\ Reading(f, m) /\ 1 \in 1..Len(c)
    BY <1>1, <1>3, <1>4, <1>5, InnerCall
  <1>7. f.next = NextDistance(e, N) /\ f.extra = ExtraLen(e) /\ f.left = 0
    BY <1>3, <1>4, <1>5, <1>6 DEF Reading
  <1>8. CASE LastSibling(e)
    <2>1. f.next = 0
      BY <1>7, <1>8, NextWritten
    <2> QED BY <1>2, <1>4, <2>1
  <1>9. CASE ~ LastSibling(e)
    <2>1. Sibling(e) = m + 1 /\ Sibling(e) \in E
      BY <1>1, <1>3, <1>4, <1>5, <1>9, SiblingNext, SiblingType
    <2>2. f.next = offset[m + 1] - offset[e]
      BY <1>7, <1>9, <2>1, NextWritten
    <2>3. offset[m + 1] = at
      <3>1. PICK k \in E : k = m + 1
        BY <2>1
      <3>2. k - 1 = m
        BY <3>1
      <3>3. offset[k] = Ahead(k - 1)
        BY EntryWritten
      <3> QED BY <1>3, <3>1, <3>2, <3>3
    <2>4. ents[e].at = offset[e]
      BY <1>3, <1>6 DEF NodesTo, Node
    <2>5. CASE ents[e].kids # <<>>
      <3>1. R!Consumed(f) = at - ents[e].at
        BY <1>5, <2>5 DEF R!Consumed
      <3> QED BY <1>2, <1>4, <2>2, <2>3, <2>4, <3>1
    <2>6. CASE ents[e].kids = <<>>
      <3>1. Came(f) = 0
        BY <1>3, <1>4, <1>5, <1>6, <2>6 DEF Begun
      <3>2. Len(rco.kids[e]) = 0 /\ rco.kids[e] \in Seq(E)
        <4>1. Len(rco.kids[e]) \in Nat /\ rco.kids[e] \in Seq(E)
          BY <1>1, EntryType
        <4> QED BY <1>5, <1>7, <3>1, <4>1 DEF Came
      <3>3. rco.kids[e] = <<>>
        BY <3>2, EmptySeq
      <3>4. f.next \in {0, EntryWords + f.extra}
        BY <1>7, <3>3, NextWritten
      <3>5. R!Consumed(f) = EntryWords + f.extra
        BY <1>5, <2>6, ReaderNames DEF R!Consumed
      <3> QED BY <1>2, <1>4, <3>4, <3>5
    <2> QED BY <2>5, <2>6
  <1> QED BY <1>8, <1>9

LEMMA ReturnStep ==
    ASSUME InSight, step = "entries", ReadTree(at, ents, calls), R!Return
    PROVE  Onward
  <1>1. rco \in Archives /\ InFull
    BY DEF InSight, InFull, TypeInv
  <1>2. PICK m \in 0..N : ReadTo(m, at, ents, calls)
    BY DEF ReadTree
  <1>3. calls # <<>> /\ calls[1].left = 0
    BY DEF R!Return
  <1>4. calls[1].next \in {0, R!Consumed(calls[1])}
    BY <1>1, <1>2, <1>3, CallEnds
  <1>5. /\ at' = at /\ ents' = ents /\ calls' = Tail(calls) /\ mem' = mem
        /\ step' \in {"entries", "shortcuts"}
    BY <1>4 DEF R!Return
  <1>6. PICK c : c = calls
    OBVIOUS
  <1>7. at = Ahead(m) /\ NodesTo(ents, m) /\ ReadCalls(c, m) /\ Begun(ents, c)
    BY <1>2, <1>6 DEF ReadTo
  <1>8. PICK t : t = Tail(c)
    OBVIOUS
  <1>9. ReadCalls(t, m)
    BY <1>1, <1>3, <1>6, <1>7, <1>8, CallsPopped
  <1>10. c \in Seq(ReadFrames) /\ c # <<>>
    BY <1>3, <1>6, <1>7 DEF ReadCalls
  <1>11. Len(t) = Len(c) - 1 /\ Len(c) \in Nat \ {0} /\ \A j \in 1..Len(c)-1 : t[j] = c[j+1]
    BY <1>8, <1>10, Popped
  <1>12. ASSUME NEW j \in 1..Len(t)
         PROVE  ents[t[j].e].kids = <<>> <=> Came(t[j]) = 0
    <2>1. PICK k \in 1..Len(c) : k = j + 1
      BY <1>11, <1>12
    <2>2. t[j] = c[k]
      BY <1>11, <1>12, <2>1
    <2>3. ents[c[k].e].kids = <<>> <=> Came(c[k]) = 0
      BY <1>7 DEF Begun
    <2> QED BY <2>2, <2>3
  <1>13. Begun(ents, t)
    BY <1>12 DEF Begun
  <1>14. PICK p, s : p = at /\ s = ents
    OBVIOUS
  <1>15. ReadTree(p, s, t)
    BY <1>7, <1>9, <1>13, <1>14 DEF ReadTree, ReadTo
  <1>16. p = at' /\ s = ents' /\ t = calls'
    BY <1>5, <1>6, <1>8, <1>14
  <1> QED BY <1>5, <1>15, <1>16 DEF Onward

-----------------------------------------------------------------------------
(* The other steps of the reader.                                          *)

(* The entries that a step leaves lie where they were written.             *)
NodesKept == \A i \in DOMAIN ents' : i \in E /\ Node(ents'[i], offset[i])

LEMMA ReadKept ==
    ASSUME UNCHANGED vars, pc = "done", NodesKept,
           step' \in Unread => ents' = <<>> /\ calls' = <<>>,
           step' = "texts" => Buffered /\ at' \in Int,
           step' \in Untreed /\ Buffered => Unpacked',
           step' = "entries" =>
              \E p, s, c : p = at' /\ s = ents' /\ c = calls' /\ ReadTree(p, s, c)
    PROVE  ReadInv'
  <1>1. NodesRead'
    BY SameFrames DEF NodesKept
  <1>2. (Buffered' <=> Buffered) /\ pc' = pc
    BY DEF vars, Buffered
  <1>3. step' = "entries" => ReadTree(at, ents, calls)'
    <2> SUFFICES ASSUME step' = "entries" PROVE ReadTree(at, ents, calls)'
      OBVIOUS
    <2>1. PICK p, s, c : p = at' /\ s = ents' /\ c = calls' /\ ReadTree(p, s, c)
      OBVIOUS
    <2>2. ReadTree(p, s, c)'
      BY <2>1, SameFrames
    <2> QED BY <2>1, <2>2
  <1> QED BY <1>1, <1>2, <1>3 DEF ReadInv

Passes == {"shortcuts", "sources", "addresses", "refs", "sizes", "done",
           "failed", "undefined"}

LEMMA PassKept ==
    ASSUME UNCHANGED vars, pc = "done", NodesKept, step' \in Passes
    PROVE  ReadInv'
  <1>1. step' \notin Unread /\ step' \notin Untreed /\ step' # "texts" /\ step' # "entries"
    BY DEF Passes, Unread, Untreed
  <1> QED BY <1>1, ReadKept

LEMMA SameNodes ==
    ASSUME NodesRead, ents' = ents
    PROVE  NodesKept
  BY DEF NodesRead, NodesKept

(* What the passes over the tree do to an entry.                           *)
Touched(y, x) ==
    \/ y = x
    \/ \E v : y = [x EXCEPT !.src = v] \/ y = [x EXCEPT !.attrs = v]
    \/ \E v : y = [x EXCEPT !.src.addr = v]

LEMMA NodeKept ==
    ASSUME NEW x, NEW p, Node(x, p), NEW y, Touched(y, x)
    PROVE  Node(y, p)
  <1>1. CASE y = x
    BY <1>1
  <1>2. CASE \E v : y = [x EXCEPT !.src = v] \/ y = [x EXCEPT !.attrs = v]
    BY <1>2 DEF Node
  <1>3. CASE \E v : y = [x EXCEPT !.src.addr = v]
    BY <1>3 DEF Node
  <1> QED BY <1>1, <1>2, <1>3 DEF Touched

LEMMA StepPassed ==
    ASSUME NodesRead, UNCHANGED vars,
           \/ R!AssignShortcuts \/ R!FindPlainTexts \/ R!FindPackedText
           \/ R!AddAddresses \/ R!FixRefs \/ R!FixSizes
    PROVE  NodesKept /\ step' \in Passes
  <1>1. ASSUME NEW i \in DOMAIN ents
        PROVE  i \in E /\ Node(ents[i], offset[i])
    BY <1>1 DEF NodesRead
  <1>2. CASE R!AssignShortcuts
    BY <1>1, <1>2 DEF R!AssignShortcuts, NodesKept, Passes
  <1>3. CASE R!FindPlainTexts
    <2>1. step' \in Passes
      BY <1>3 DEF R!FindPlainTexts, Passes
    <2>2. DOMAIN ents' = DOMAIN ents
      BY <1>3 DEF R!FindPlainTexts
    <2>3. ASSUME NEW i \in DOMAIN ents PROVE Node(ents'[i], offset[i])
      <3>1. Touched(ents'[i], ents[i])
        <4>1. \/ ents'[i] = ents[i]
              \/ \E v : ents'[i] = [ents[i] EXCEPT !.src = v]
          BY <1>3, <2>3 DEF R!FindPlainTexts, R!SetSource
        <4> QED BY <4>1 DEF Touched
      <3> QED BY <1>1, <2>3, <3>1, NodeKept
    <2> QED BY <1>1, <2>1, <2>2, <2>3 DEF NodesKept
  <1>4. CASE R!FindPackedText
    <2>1. step' \in Passes
      BY <1>4 DEF R!FindPackedText, Passes
    <2>2. \/ ents' = ents
          \/ \E h, v : ents' = [ents EXCEPT ![h] = [@ EXCEPT !.src = v]]
      <3> DEFINE s == R!Source(at + R!TextComprWords, R!InFile(at + 2), R!InFile(at + 3),
                               R!Header.compression)
                 of == SelectSeq(R!Children(R!TEXT),
                                 LAMBDA c : ents[c].lang = R!InFile(at) % 65536)
      <3>1. ents' = IF of = <<>> THEN ents
                    ELSE [ents EXCEPT ![Head(of)] = R!SetSource(@, s)]
        BY <1>4 DEF R!FindPackedText
      <3> HIDE DEF s, of
      <3> QED BY <3>1 DEF R!SetSource
    <2>3. CASE ents' = ents
      BY <1>1, <2>1, <2>3 DEF NodesKept
    <2>4. CASE \E h, v : ents' = [ents EXCEPT ![h] = [@ EXCEPT !.src = v]]
      <3>1. PICK h, v : ents' = [ents EXCEPT ![h] = [@ EXCEPT !.src = v]]
        BY <2>4
      <3>2. DOMAIN ents' = DOMAIN ents
        BY <3>1
      <3>3. ASSUME NEW i \in DOMAIN ents PROVE Node(ents'[i], offset[i])
        <4>1. ents'[i] = ents[i] \/ ents'[i] = [ents[i] EXCEPT !.src = v]
          BY <3>1, <3>3
        <4>2. Touched(ents'[i], ents[i])
          BY <4>1 DEF Touched
        <4> QED BY <1>1, <3>3, <4>2, NodeKept
      <3> QED BY <1>1, <2>1, <3>2, <3>3 DEF NodesKept
    <2> QED BY <2>2, <2>3, <2>4
  <1>5. CASE R!AddAddresses
    <2>1. step' \in Passes
      BY <1>5 DEF R!AddAddresses, Passes
    <2>2. DOMAIN ents' = DOMAIN ents
      BY <1>5 DEF R!AddAddresses
    <2>3. ASSUME NEW i \in DOMAIN ents PROVE Node(ents'[i], offset[i])
      <3>1. Touched(ents'[i], ents[i])
        <4>1. \E v : ents'[i] = [ents[i] EXCEPT !.src.addr = v]
          BY <1>5, <2>3 DEF R!AddAddresses
        <4> QED BY <4>1 DEF Touched
      <3> QED BY <1>1, <2>3, <3>1, NodeKept
    <2> QED BY <1>1, <2>1, <2>2, <2>3 DEF NodesKept
  <1>6. CASE R!FixRefs
    <2>1. step' \in Passes
      BY <1>6 DEF R!FixRefs, Passes
    <2>2. DOMAIN ents' = DOMAIN ents
      BY <1>6 DEF R!FixRefs
    <2>3. ASSUME NEW i \in DOMAIN ents PROVE Node(ents'[i], offset[i])
      <3>1. Touched(ents'[i], ents[i])
        <4>1. \E v : ents'[i] = [ents[i] EXCEPT !.attrs = v]
          BY <1>6, <2>3 DEF R!FixRefs
        <4> QED BY <4>1 DEF Touched
      <3> QED BY <1>1, <2>3, <3>1, NodeKept
    <2> QED BY <1>1, <2>1, <2>2, <2>3 DEF NodesKept
  <1>7. CASE R!FixSizes
    <2>1. step' \in Passes
      BY <1>7 DEF R!FixSizes, Passes
    <2>2. DOMAIN ents' = DOMAIN ents
      BY <1>7 DEF R!FixSizes
    <2>3. ASSUME NEW i \in DOMAIN ents PROVE Node(ents'[i], offset[i])
      <3>1. Touched(ents'[i], ents[i])
        <4>1. \E v : ents'[i] = [ents[i] EXCEPT !.src = v]
          BY <1>7, <2>3 DEF R!FixSizes
        <4> QED BY <4>1 DEF Touched
      <3> QED BY <1>1, <2>3, <3>1, NodeKept
    <2> QED BY <1>1, <2>1, <2>2, <2>3 DEF NodesKept
  <1> QED BY <1>2, <1>3, <1>4, <1>5, <1>6, <1>7

-----------------------------------------------------------------------------
(* The packed header in the file.                                          *)

(* The packed header lies behind its two lengths, and the texts behind it. *)
PackedHeader ==
    \E len \in PackedLens :
       /\ FileWord(HeaderWords) = len
       /\ Holds(HeaderWords + HeaderComprWords, 0, 0, Words(len))

HeaderEnd == HeaderWords + HeaderComprWords + Words(FileWord(HeaderWords))

HeaderInv ==
    Buffered =>
      /\ pc \in FlushedFile => PackedHeader
      /\ pc \in PackedPhases /\ Languages # <<>> => HeaderEnd <= header.data[TEXT]

(* The steps with a packed header in the file.                             *)
PackedStep ==
    \/ BeginPackText \/ PackText \/ Fallthrough("packTextBody", "resources")
    \/ CopyResources \/ FixHeader

LEMMA BeforePacked ==
    ASSUME TypeInv, Next
    PROVE  Flush \/ PackedStep \/ pc' \notin FlushedFile
  <1>1. CASE EarlyStep
    BY <1>1, EarlySteps DEF Early, FlushedFile
  <1>2. CASE WritePlaceholderHeader \/ WriteMain \/ WriteChild \/ FinishEntry
    BY <1>2 DEF WritePlaceholderHeader, WriteMain, WriteChild, FinishEntry, Enter,
                Goto, FlushedFile
  <1>3. CASE \/ FixEntry \/ Fallthrough("fixObj", "fixAnim")
             \/ Fallthrough("fixAnim", "hashText")
    BY <1>3 DEF FixEntry, Fallthrough, Goto, FlushedFile
  <1>4. CASE \/ HashText \/ HashLang \/ HashTree
             \/ Fallthrough("hashLang", "hash") \/ Fallthrough("hash", "text")
    BY <1>4 DEF HashText, HashLang, HashTree, Fallthrough, Goto, FlushedFile
  <1>5. CASE \/ BeginText \/ WriteText \/ Fallthrough("textBody", "labels")
             \/ WriteLabelsEvents
    BY <1>5 DEF BeginText, WriteText, Fallthrough, WriteLabelsEvents, Goto, FlushedFile
  <1> QED BY <1>1, <1>2, <1>3, <1>4, <1>5, NextSteps DEF LaterStep, PackedStep

LEMMA HeaderFlushed ==
    ASSUME TypeInv, TreeInv, HeadInv, Buffered, Flush
    PROVE  PackedHeader'
  <1>1. PICK len \in PackedLens :
          FileWrite(<<len, Len(tables), longest>> \o Data(0, Words(len)))
    BY DEF Flush
  <1>2. len \in Nat /\ Words(len) \in Nat /\ longest \in Nat /\ Len(tables) \in Nat
    BY PackedLensAssumption, WordsType DEF TypeInv
  <1>3. PICK n \in Nat : n = Words(len)
    BY <1>2
  <1>4. PICK d : d = Data(0, n)
    OBVIOUS
  <1>5. d \in Seq(Int) /\ Len(d) = n /\ \A k \in 1..n : d[k] = DataWord(0, k)
    BY <1>4, DataType DEF Data
  <1>6. PICK s : s = <<len, Len(tables), longest>>
    OBVIOUS
  <1>7. s \in Seq(Int) /\ Len(s) = 3 /\ s[1] = len
    BY <1>2, <1>6
  <1>8. PICK ws : ws = s \o d
    OBVIOUS
  <1>9. /\ ws \in Seq(Int) /\ Len(ws) = 3 + n /\ ws[1] = len
        /\ \A k \in 1..n : ws[3 + k] = DataWord(0, k)
    <2>1. /\ Len(ws) = Len(s) + Len(d) /\ \A j \in 1..Len(s) : ws[j] = s[j]
          /\ \A k \in 1..Len(d) : ws[Len(s) + k] = d[k]
      BY <1>5, <1>7, <1>8, ConcatBegins
    <2>2. ws \in Seq(Int)
      BY <1>5, <1>7, <1>8, ConcatProperties
    <2> QED BY <1>5, <1>7, <2>1, <2>2
  <1>10. FileWrite(ws) /\ opts' = opts /\ pc = "flush"
    BY <1>1, <1>3, <1>4, <1>6, <1>8 DEF Flush
  <1>11. pos = StreamEnd
    <2>1. pc \in Later
      BY <1>10 DEF Later
    <2> QED BY <2>1, LaterStart
  <1>12. PICK p : p = FilePos
    OBVIOUS
  <1>13. p = HeaderWords /\ HeaderWords \in Int
    <2>1. file = <<>>
      BY <1>10 DEF HeadInv, FlushedFile
    <2>2. Len(file) = 0
      BY <2>1
    <2> QED BY <1>12, <2>2, EndsType DEF FileEnd, HeaderWords
  <1>14. FileEnd' = p + (3 + n) /\ \A j \in 1..3+n : FileWord(p + j - 1)' = ws[j]
    BY <1>9, <1>10, <1>11, <1>12, FileWriteWords
  <1>15. FileWord(p)' = len
    <2>1. 1 \in 1..3+n /\ p + 1 - 1 = p
      BY <1>13
    <2>2. FileWord(p + 1 - 1)' = ws[1]
      BY <1>14, <2>1
    <2> QED BY <1>9, <2>1, <2>2
  <1>16. PICK q \in Int : q = p + 3
    BY <1>13
  <1>17. q + n <= FileEnd'
    <2>1. FileEnd' = q + n
      BY <1>13, <1>14, <1>16
    <2> QED BY <1>16, <2>1
  <1>18. \A k \in 1..n : FileWord(q + k - 1)' = DataWord(0, 0 + k)
    <2> TAKE k \in 1..n
    <2>1. 3 + k \in 1..3+n /\ p + (3 + k) - 1 = q + k - 1 /\ 0 + k = k
      BY <1>13, <1>16
    <2>2. FileWord(p + (3 + k) - 1)' = ws[3 + k]
      BY <1>14, <2>1
    <2> QED BY <1>9, <2>1, <2>2
  <1>19. Holds(q, 0, 0, n)'
    BY <1>17, <1>18 DEF Holds, DataWord
  <1>20. q = HeaderWords + HeaderComprWords
    BY <1>13, <1>16 DEF HeaderWords, HeaderComprWords
  <1> QED BY <1>3, <1>13, <1>15, <1>19, <1>20 DEF PackedHeader

(* What lies in a file that only grows stays there.                        *)
LEMMA HoldsKept ==
    ASSUME FileEnd \in Int, FileEnd' \in Int, FileEnd' >= FileEnd,
           \A p \in HeaderWords..FileEnd-1 : FileWord(p)' = FileWord(p),
           NEW q \in Int, q >= HeaderWords, NEW owner, NEW n \in Nat, Holds(q, owner, 0, n)
    PROVE  Holds(q, owner, 0, n)'
  <1>1. PICK f \in Int : f = FileEnd
    OBVIOUS
  <1>2. PICK g \in Int : g = FileEnd'
    OBVIOUS
  <1>3. q + n <= f /\ f <= g
    BY <1>1, <1>2 DEF Holds
  <1>4. q + n <= FileEnd'
    <2>1. q + n <= g
      BY <1>3
    <2> QED BY <1>2, <2>1
  <1>5. ASSUME NEW j \in 1..n
        PROVE  FileWord(q + j - 1)' = DataWord(owner, 0 + j)
    <2>1. PICK p \in Int : p = q + j - 1
      OBVIOUS
    <2>2. p \in HeaderWords..f-1
      BY <1>3, <2>1 DEF HeaderWords
    <2>3. FileWord(p)' = FileWord(p)
      BY <1>1, <2>2
    <2>4. FileWord(p) = DataWord(owner, 0 + j)
      BY <2>1 DEF Holds
    <2> QED BY <2>1, <2>3, <2>4
  <1> QED BY <1>4, <1>5 DEF Holds, DataWord

(* The packed header is not written to once it is in the file.             *)
LEMMA HeaderStays ==
    ASSUME TypeInv, TypeInv', TreeInv, Buffered, PackedHeader, PackedStep
    PROVE  /\ PackedHeader' /\ FileWord(HeaderWords)' = FileWord(HeaderWords)
           /\ FileEnd \in Int /\ FileEnd' \in Int /\ FileEnd' >= FileEnd
  <1>1. LaterStep
    BY DEF PackedStep, LaterStep
  <1>2. Appends /\ pc \in Later /\ opts' = opts
    BY <1>1, LaterAppends
  <1>3. /\ FileEnd \in Int /\ FileEnd' \in Int /\ FileEnd' >= FileEnd
        /\ \A p \in HeaderWords..FileEnd-1 : FileWord(p)' = FileWord(p)
    BY <1>2, LaterStart, FileGrows
  <1>4. PICK len \in PackedLens :
           /\ FileWord(HeaderWords) = len
           /\ Holds(HeaderWords + HeaderComprWords, 0, 0, Words(len))
    BY DEF PackedHeader
  <1>5. Words(len) \in Nat
    BY PackedLensAssumption, WordsType
  <1>6. PICK q \in Int : q = HeaderWords + HeaderComprWords
    BY DEF HeaderWords, HeaderComprWords
  <1>7. HeaderWords \in Int /\ q > HeaderWords
    BY <1>6 DEF HeaderWords, HeaderComprWords
  <1>8. PICK n \in Nat : n = Words(len)
    BY <1>5
  <1>9. Holds(q, 0, 0, n)'
    <2>1. Holds(q, 0, 0, n) /\ q >= HeaderWords
      BY <1>4, <1>6, <1>7, <1>8
    <2> QED BY <1>3, <2>1, HoldsKept
  <1>10. FileWord(HeaderWords)' = FileWord(HeaderWords)
    <2>1. q + n <= FileEnd
      BY <1>4, <1>6, <1>8 DEF Holds
    <2>2. HeaderWords \in HeaderWords..FileEnd-1
      BY <1>3, <1>7, <2>1
    <2>3. PICK p : p = HeaderWords
      OBVIOUS
    <2>4. FileWord(p)' = FileWord(p)
      BY <1>3, <2>2, <2>3
    <2> QED BY <2>3, <2>4 DEF HeaderWords
  <1>11. PackedHeader'
    <2>1. FileWord(HeaderWords)' = len
      BY <1>4, <1>10
    <2>2. Holds(HeaderWords + HeaderComprWords, 0, 0, Words(len))'
      BY <1>6, <1>8, <1>9
    <2> QED BY <2>1, <2>2 DEF PackedHeader
  <1> QED BY <1>3, <1>10, <1>11

LEMMA HeaderFits ==
    ASSUME TypeInv, PackedHeader
    PROVE  /\ FileWord(HeaderWords) \in PackedLens /\ FileWord(HeaderWords) \in Nat
           /\ Words(FileWord(HeaderWords)) \in Nat
           /\ HeaderEnd \in Int /\ HeaderEnd <= FileEnd
           /\ HeaderEnd = HeaderWords + 3 + Words(FileWord(HeaderWords))
  <1>1. PICK len \in PackedLens :
           /\ FileWord(HeaderWords) = len
           /\ Holds(HeaderWords + HeaderComprWords, 0, 0, Words(len))
    BY DEF PackedHeader
  <1>2. len \in Nat /\ Words(len) \in Nat
    BY PackedLensAssumption, WordsType
  <1>3. HeaderEnd = HeaderWords + 3 + Words(len)
    BY <1>1 DEF HeaderEnd, HeaderComprWords
  <1>4. HeaderWords + 3 + Words(len) <= FileEnd
    BY <1>1 DEF Holds, HeaderComprWords
  <1>5. HeaderWords + 3 + Words(len) \in Int
    BY <1>2 DEF HeaderWords
  <1> QED BY <1>1, <1>2, <1>3, <1>4, <1>5

LEMMA NextHeader ==
    ASSUME TypeInv, TypeInv', TreeInv, StageInv, HeadInv, HeaderInv, Next
    PROVE  HeaderInv'
  <1> SUFFICES ASSUME Buffered'
               PROVE  /\ pc' \in FlushedFile => PackedHeader'
                      /\ pc' \in PackedPhases /\ Languages' # <<>>
                            => HeaderEnd' <= header'.data[TEXT]
    BY DEF HeaderInv
  <1>1. opts' = opts /\ rco' = rco
    BY OptionsKept
  <1>2. Buffered /\ Languages' = Languages
    BY <1>1, TextsSame DEF Buffered
  <1>3. CASE pc' \notin FlushedFile
    BY <1>3 DEF FlushedFile, PackedPhases
  <1>4. CASE Flush
    <2>1. pc' \notin PackedPhases
      BY <1>4 DEF Flush, Goto, PackedPhases
    <2> QED BY <1>2, <1>4, <2>1, HeaderFlushed
  <1>5. CASE PackedStep
    <2>1. pc \in FlushedFile
      BY <1>5 DEF PackedStep, BeginPackText, PackText, Fallthrough, CopyResources,
                  FixHeader, FlushedFile
    <2>2. PackedHeader
      BY <1>2, <2>1 DEF HeaderInv
    <2>3. /\ PackedHeader' /\ FileWord(HeaderWords)' = FileWord(HeaderWords)
      BY <1>2, <1>5, <2>2, HeaderStays
    <2>4. HeaderEnd' = HeaderEnd
      BY <2>3 DEF HeaderEnd, Words
    <2>5. ASSUME Languages # <<>>
          PROVE  HeaderEnd <= header'.data[TEXT]
      <3>1. header \in Headers /\ TEXT \in Kinds
        BY KindNames DEF TypeInv
      <3>2. CASE BeginPackText
        <4>1. Work("packTextBody") # <<>>
          <5>1. opts \in Options
            BY DEF TypeInv
          <5>2. opts.packText # NONE
            BY <1>2, <5>1, OptionsAssumption DEF IsOptions, Buffered
          <5> QED BY <2>5, <5>2 DEF Work, Languages
        <4>2. header' = [header EXCEPT !.data[TEXT] = FilePos, !.ldata[TEXT] = 0]
          BY <3>2, <4>1 DEF BeginPackText
        <4>3. header'.data[TEXT] = FilePos
          BY <3>1, <4>2 DEF Headers
        <4>4. FilePos = FileEnd
          BY <1>2, EndsType
        <4> QED BY <2>2, <4>3, <4>4, HeaderFits
      <3>3. CASE ~ BeginPackText
        <4>1. pc \in PackedPhases
          BY <1>5, <3>3 DEF PackedStep, PackText, Fallthrough, CopyResources,
                  FixHeader, PackedPhases
        <4>2. HeaderEnd <= header.data[TEXT]
          BY <1>2, <2>5, <4>1 DEF HeaderInv
        <4>3. header'.data[TEXT] = header.data[TEXT]
          <5>1. CASE Fallthrough("packTextBody", "resources")
            BY <5>1 DEF Fallthrough
          <5>2. CASE CopyResources
            BY <5>2, CopyHeader
          <5>3. CASE FixHeader
            <6>1. \E f : header' = [header EXCEPT !.table = f]
              BY <5>3 DEF FixHeader
            <6> QED BY <3>1, <6>1 DEF Headers
          <5>4. CASE PackText
            <6>1. \E v : header' = [header EXCEPT !.ldata[TEXT] = v]
              BY <5>4 DEF PackText
            <6> QED BY <3>1, <6>1 DEF Headers
          <5> QED BY <1>5, <3>3, <5>1, <5>2, <5>3, <5>4 DEF PackedStep
        <4> QED BY <4>2, <4>3
      <3> QED BY <3>2, <3>3
    <2> QED BY <1>2, <2>3, <2>4, <2>5
  <1> QED BY <1>3, <1>4, <1>5, BeforePacked

LEMMA StutterHeader == ASSUME HeaderInv, UNCHANGED vars PROVE HeaderInv'
  <1>1. UNCHANGED <<pc, rco, opts, file, header>>
    BY DEF vars
  <1>2. (Buffered' <=> Buffered) /\ Languages' = Languages
    BY <1>1, TextsSame DEF Buffered
  <1>3. FileEnd' = FileEnd /\ \A p : FileWord(p)' = FileWord(p)
    BY <1>1 DEF FileEnd, FileWord
  <1>4. PackedHeader => PackedHeader'
    BY <1>3 DEF PackedHeader, Holds, DataWord, Words
  <1>5. HeaderEnd' = HeaderEnd
    BY <1>3 DEF HeaderEnd, Words
  <1> QED BY <1>1, <1>2, <1>4, <1>5 DEF HeaderInv

LEMMA InitHeader == ASSUME Init PROVE HeaderInv
  BY DEF Init, HeaderInv, FlushedFile, PackedPhases

-----------------------------------------------------------------------------
(* The reader looks at the file.                                           *)

LEMMA FileNames ==
    /\ R!FileEnd = FileEnd /\ R!TextComprWords = 4 /\ R!HeaderComprWords = 3
    /\ R!TEXT = TEXT /\ R!RLZ = RLZ /\ R!NULL_PTR = NULL_PTR
    /\ R!OBJ = OBJ /\ R!ANIM = ANIM
    /\ \A p : R!InFile(p) = FileWord(p)
  BY DEF R!FileEnd, Written, R!HeaderWords, FileEnd, HeaderWords, R!TextComprWords,
         R!HeaderComprWords, R!TEXT, TEXT, R!RLZ, RLZ, R!NULL_PTR, NULL_PTR,
         R!OBJ, OBJ, R!ANIM, ANIM, R!InFile, FileWord

(* What is held at a place can be unpacked there.                          *)
LEMMA HeldUnpacks ==
    ASSUME NEW p \in Int, p >= HeaderWords, NEW owner \in Nat, NEW bytes \in Nat, bytes > 0,
           Holds(p, owner, 0, Words(bytes))
    PROVE  R!Unpacks(p, bytes)
  <1>1. PICK n \in Nat : n = Words(bytes)
    BY WordsType
  <1>2. n >= 1
    BY <1>1 DEF Words
  <1>3. p + n <= FileEnd /\ \A k \in 1..n : FileWord(p + k - 1) = DataWord(owner, 0 + k)
    BY <1>1 DEF Holds
  <1>4. FileWord(p) = DataWord(owner, 1)
    <2>1. 1 \in 1..n /\ p + 1 - 1 = p /\ 0 + 1 = 1
      BY <1>2
    <2> QED BY <1>3, <2>1
  <1>5. R!OwnerOf(FileWord(p)) = owner
    BY <1>4 DEF R!OwnerOf, DataWord
  <1>6. \A k \in 1..n : R!InFile(p + k - 1) = R!DataWord(owner, k)
    <2> TAKE k \in 1..n
    <2>1. 0 + k = k
      OBVIOUS
    <2>2. FileWord(p + k - 1) = DataWord(owner, k)
      BY <1>3, <2>1
    <2> QED BY <2>2, FileNames DEF DataWord, R!DataWord
  <1>7. R!OwnerOf(R!InFile(p)) = owner
    BY <1>5, FileNames
  <1>8. R!Words(bytes) = n /\ R!HeaderWords = HeaderWords
    BY <1>1, ReaderNames
  <1> QED BY <1>3, <1>6, <1>7, <1>8, FileNames DEF R!Unpacks

-----------------------------------------------------------------------------
(* Unpacking.                                                              *)

LEMMA WordInFile ==
    ASSUME TypeInv, NEW p \in Int, p >= R!HeaderWords, p < R!FileEnd
    PROVE  R!InFile(p) \in Int
  <1>1. file \in Seq(Int) /\ Len(file) \in Nat
    BY DEF TypeInv
  <1>2. R!FileEnd = R!HeaderWords + Len(file)
    BY DEF R!FileEnd, Written
  <1>3. PICK k \in Int : k = p - R!HeaderWords + 1
    BY DEF R!HeaderWords
  <1>4. k \in 1..Len(file)
    BY <1>1, <1>2, <1>3 DEF R!HeaderWords
  <1>5. file[k] \in Int
    BY <1>1, <1>4
  <1> QED BY <1>3, <1>5 DEF R!InFile, Written

LEMMA IntervalSeq ==
    ASSUME NEW n \in Int, NEW f \in [1..n -> Int]
    PROVE  f \in Seq(Int)
  <1>1. PICK m \in Nat : 1..n = 1..m
    <2>1. CASE n \in Nat
      BY <2>1
    <2>2. CASE n \notin Nat
      <3>1. 1..n = 1..0
        BY <2>2
      <3> QED BY <3>1
    <2> QED BY <2>1, <2>2
  <1> QED BY <1>1, FunctionIsSeq

(* What is made of a packed block is a sequence of words, whatever it is.  *)
LEMMA InflatedWords ==
    ASSUME NEW p, NEW bytes, NEW owner, NEW n \in Int, R!Unpacks(p, bytes) => owner \in Int,
           NEW d \in R!Inflated(p, bytes, R!Data(owner, n), n)
    PROVE  d \in Seq(Int)
  <1>1. CASE R!Unpacks(p, bytes)
    <2>1. R!Data(owner, n) \in [1..n -> Int]
      BY <1>1 DEF R!Data, R!DataWord
    <2>2. d = R!Data(owner, n)
      BY <1>1 DEF R!Inflated
    <2> QED BY <2>1, <2>2, IntervalSeq
  <1>2. CASE ~ R!Unpacks(p, bytes)
    <2>1. PICK m \in Memories : d = [i \in 1..n |-> IF i <= Len(m) THEN m[i] ELSE 0]
      BY <1>2 DEF R!Inflated, R!Unfilled
    <2>2. m \in Seq(Nat)
      BY MemoriesAssumption DEF R!MemoriesType
    <2>3. Len(m) \in Nat /\ \A i \in 1..Len(m) : m[i] \in Int
      BY <2>2
    <2>4. d \in [1..n -> Int]
      BY <2>1, <2>3
    <2> QED BY <2>4, IntervalSeq
  <1> QED BY <1>1, <1>2

(* Packing the header does not fail.                                       *)
HeaderSure == Buffered => 0 \notin PackedLens

LEMMA HeaderHeld ==
    ASSUME HeaderInv, HeaderSure, Buffered, pc = "done"
    PROVE  R!Unpacks(R!HeaderWords + R!HeaderComprWords, R!InFile(R!HeaderWords))
  <1>1. PICK len \in PackedLens :
           /\ FileWord(HeaderWords) = len
           /\ Holds(HeaderWords + HeaderComprWords, 0, 0, Words(len))
    BY DEF HeaderInv, FlushedFile, PackedHeader
  <1>2. len \in Nat /\ len > 0
    <2>1. len \in Nat /\ len # 0
      BY PackedLensAssumption DEF HeaderSure
    <2> QED BY <2>1
  <1>3. PICK p \in Int : p = HeaderWords + HeaderComprWords
    BY DEF HeaderWords, HeaderComprWords
  <1>4. p >= HeaderWords /\ p = R!HeaderWords + R!HeaderComprWords
    BY <1>3, FileNames, ReaderNames DEF HeaderWords, HeaderComprWords
  <1>5. Holds(p, 0, 0, Words(len)) /\ 0 \in Nat
    BY <1>1, <1>3
  <1>6. R!Unpacks(p, len)
    BY <1>2, <1>4, <1>5, HeldUnpacks
  <1> QED BY <1>1, <1>4, <1>6, FileNames, ReaderNames

LEMMA HeaderUnpacked ==
    ASSUME TypeInv, HeadInv, HeaderInv, HeaderSure, pc = "done", step = "header",
           R!ReadPackedHeader, step' # "failed"
    PROVE  /\ Buffered /\ mem' = tables /\ step' \in {"texts", "sections"}
           /\ UNCHANGED <<ents, calls>>
           /\ step' = "texts" => at' \in Int
  <1>1. R!Packed /\ Buffered
    BY PackedIs DEF R!ReadPackedHeader
  <1>2. Len(file) >= 2 /\ file[2] = Len(tables) /\ file \in Seq(Int) /\ tables \in Seq(Int)
    BY <1>1 DEF HeadInv, FlushedFile, TypeInv
  <1>3. R!InFile(R!HeaderWords + 1) = Len(tables)
    <2>1. (R!HeaderWords + 1) - R!HeaderWords + 1 = 2
      BY DEF R!HeaderWords
    <2> QED BY <1>2, <2>1 DEF R!InFile, Written
  <1>4. /\ mem' = SubSeq(tables, 1, R!InFile(R!HeaderWords + 1))
        /\ UNCHANGED <<ents, calls>> /\ step' \in {"texts", "sections"}
        /\ step' = "texts" => at' = R!Header.data[R!TEXT]
    <2>1. R!Unpacks(R!HeaderWords + R!HeaderComprWords, R!InFile(R!HeaderWords))
      BY <1>1, HeaderHeld
    <2> QED BY <2>1 DEF R!ReadPackedHeader, R!Inflated, R!Fail, Written
  <1>5. mem' = tables
    <2>1. SubSeq(tables, 1, Len(tables)) = tables
      BY <1>2, SubSeqFull
    <2> QED BY <1>3, <1>4, <2>1
  <1>6. R!Header.data[R!TEXT] \in Int
    <2>1. R!Header = header /\ header \in Headers
      BY DEF R!Header, Written, HeadInv, TypeInv
    <2>2. R!TEXT \in Kinds
      BY DEF R!TEXT, Kinds, MAIN, ANIM
    <2> QED BY <2>1, <2>2 DEF Headers
  <1> QED BY <1>1, <1>4, <1>5, <1>6

LEMMA TextUnpacked ==
    ASSUME TypeInv, Unpacked, at \in Int, R!UnpackText, step' # "failed"
    PROVE  /\ mem' \in Seq(Int) /\ Len(mem') >= Len(tables)
           /\ \A k \in 1..Len(tables) : mem'[k] = tables[k]
           /\ step' \in {"texts", "sections"} /\ at' \in Int
           /\ UNCHANGED <<ents, calls>>
  <1> DEFINE p == at + R!TextComprWords
             packed == R!InFile(at + 2)
             unpacked == R!InFile(at + 3)
             next == R!InFile(at + 1)
  <1> DEFINE end == IF p + R!Words(packed) <= R!FileEnd
                    THEN p + R!Words(packed) ELSE R!FileEnd
  <1>1. /\ at >= R!HeaderWords /\ ~ (p > R!FileEnd)
        /\ \E d \in R!Inflated(p, packed, R!Data(R!OwnerOf(R!InFile(p)), unpacked),
                               unpacked) : mem' = mem \o d
        /\ IF next = 0 THEN step' = "sections" /\ UNCHANGED at
           ELSE /\ at' = R!FileSeek(end, end + next - R!TextComprWords - R!Words(packed))
                /\ UNCHANGED step
        /\ UNCHANGED <<ents, calls>> /\ step = "texts"
    BY DEF R!UnpackText, R!Fail
  <1>2. p = at + 4 /\ p \in Int /\ R!FileEnd \in Int
    <2>1. file \in Seq(Int)
      BY DEF TypeInv
    <2>2. Len(file) \in Nat /\ Written.file = file
      BY <2>1 DEF Written
    <2> QED BY <2>2 DEF R!TextComprWords, R!FileEnd, R!HeaderWords
  <1>3. next \in Int /\ packed \in Int /\ unpacked \in Int
    <2>1. \A i \in 1..3 : at + i \in Int /\ at + i >= R!HeaderWords /\ at + i < R!FileEnd
      BY <1>1, <1>2 DEF R!HeaderWords
    <2>2. \A i \in 1..3 : R!InFile(at + i) \in Int
      BY <2>1, WordInFile
    <2> QED BY <2>2
  <1>4. R!Unpacks(p, packed) => R!OwnerOf(R!InFile(p)) \in Int
    <2> SUFFICES ASSUME R!Unpacks(p, packed)
                 PROVE  R!OwnerOf(R!InFile(p)) \in Int
      OBVIOUS
    <2>1. packed > 0 /\ p + R!Words(packed) <= R!FileEnd /\ p >= R!HeaderWords
      BY DEF R!Unpacks
    <2>2. R!Words(packed) \in Int /\ R!Words(packed) >= 1
      BY <1>3, <2>1 DEF R!Words
    <2>3. p < R!FileEnd
      BY <1>2, <2>1, <2>2
    <2>4. R!InFile(p) \in Int
      BY <1>2, <2>1, <2>3, WordInFile
    <2> QED BY <2>4 DEF R!OwnerOf
  <1>5. PICK d \in Seq(Int) : mem' = mem \o d
    <2> HIDE DEF p, packed, unpacked, next, end
    <2> QED BY <1>1, <1>3, <1>4, InflatedWords
  <1>6. PICK m \in Seq(Int), n \in Nat :
           /\ m = mem /\ n = Len(tables) /\ Len(m) >= n
           /\ \A k \in 1..n : m[k] = tables[k]
    <2>1. /\ mem \in Seq(Int) /\ Len(mem) >= Len(tables)
          /\ \A k \in 1..Len(tables) : mem[k] = tables[k]
      BY DEF Unpacked
    <2>2. tables \in Seq(Int)
      BY DEF TypeInv
    <2>3. Len(tables) \in Nat
      BY <2>2
    <2> QED BY <2>1, <2>3
  <1>7. PICK u : u = m \o d
    OBVIOUS
  <1>8. u \in Seq(Int) /\ Len(u) >= n /\ \A k \in 1..n : u[k] = m[k]
    <2>1. /\ u \in Seq(Int) /\ Len(u) = Len(m) + Len(d)
          /\ \A k \in 1..Len(m) + Len(d) :
                u[k] = IF k <= Len(m) THEN m[k] ELSE d[k - Len(m)]
      BY <1>6, <1>7, ConcatProperties
    <2>2. Len(m) \in Nat /\ Len(d) \in Nat
      BY <1>6
    <2> QED BY <1>6, <2>1, <2>2
  <1>9. mem' = u
    BY <1>5, <1>6, <1>7
  <1>10. at' \in Int /\ step' \in {"texts", "sections"}
    <2>1. R!Words(packed) \in Int
      <3> HIDE DEF packed
      <3> QED BY <1>3 DEF R!Words
    <2>2. end \in Int
      BY <1>2, <2>1
    <2>3. end + next - R!TextComprWords - R!Words(packed) \in Int
      <3> HIDE DEF packed, next, end
      <3> QED BY <1>3, <2>1, <2>2 DEF R!TextComprWords
    <2> HIDE DEF p, packed, unpacked, next, end
    <2> QED BY <1>1, <2>2, <2>3 DEF R!FileSeek
  <1>11. UNCHANGED <<ents, calls>>
    BY <1>1
  <1>12. /\ mem' \in Seq(Int) /\ Len(mem') >= Len(tables)
         /\ \A k \in 1..Len(tables) : mem'[k] = tables[k]
    BY ONLY <1>6, <1>8, <1>9
  <1> HIDE DEF p, packed, unpacked, next, end
  <1> QED BY <1>10, <1>11, <1>12

-----------------------------------------------------------------------------
(* The reader keeps its place.                                             *)

LEMMA TreeOpened ==
    ASSUME rco \in Archives
    PROVE  ReadTree(HeaderWords, <<>>, <<>>)
  <1>1. /\ N \in Nat \ {0} /\ E = 1..N
        /\ \A e \in E : e # Main => rco.parent[e] \in E
    BY ParentType
  <1>2. PICK s : s = <<>>
    OBVIOUS
  <1>3. s \in Seq(ReadFrames) /\ Len(s) = 0 /\ s \in Seq({s[i] : i \in DOMAIN s})
    BY <1>2
  <1>4. HeaderWords = Ahead(0)
    BY DEF Ahead
  <1>5. NodesTo(s, 0) /\ Begun(s, s)
    BY <1>3 DEF NodesTo, Begun
  <1>6. ReadCalls(s, 0)
    <2>1. Chained(s)
      BY <1>3 DEF Chained
    <2>2. \A e \in E : e # Main => ~ (rco.parent[e] <= 0)
      BY <1>1
    <2>3. Awaited(s, 0)
      BY <2>2 DEF Awaited
    <2> QED BY <1>1, <1>3, <2>1, <2>3 DEF ReadCalls
  <1>7. 0 \in 0..N
    BY <1>1
  <1>8. ReadTree(HeaderWords, s, s)
    BY <1>4, <1>5, <1>6, <1>7 DEF ReadTree, ReadTo
  <1> QED BY <1>2, <1>8

LEMMA NoNodes ==
    ASSUME ents' = <<>>
    PROVE  NodesKept
  BY DEF NodesKept

LEMMA EarlyRead ==
    ASSUME TypeInv, HeadInv, HeaderInv, HeaderSure, ReadInv, pc = "done", UNCHANGED vars,
           \/ R!Open \/ R!OpenFails \/ R!ReadPlainHeader \/ R!ReadPackedHeader
           \/ R!UnpackText \/ R!ReadSections
    PROVE  ReadInv'
  <1>1. step \in Unread /\ ents = <<>> /\ calls = <<>>
    BY DEF R!Open, R!OpenFails, R!ReadPlainHeader, R!ReadPackedHeader,
           R!UnpackText, R!ReadSections, ReadInv, Unread
  <1>2. CASE step' = "failed"
    <2>1. ents' = ents
      BY <1>2 DEF R!Open, R!OpenFails, R!ReadPlainHeader, R!ReadPackedHeader,
           R!UnpackText, R!ReadSections, R!Fail
    <2>2. NodesKept
      BY <1>1, <2>1, NoNodes
    <2> QED BY <1>2, <2>2, PassKept DEF Passes
  <1>3. CASE R!Open
    <2>1. step' = "header" /\ UNCHANGED <<ents, calls>>
      BY <1>3 DEF R!Open
    <2>2. NodesKept
      BY <1>1, <2>1, NoNodes
    <2> QED BY <1>1, <2>1, <2>2, ReadKept DEF Untreed
  <1>4. CASE R!OpenFails
    BY <1>2, <1>4 DEF R!OpenFails, R!Fail
  <1>5. CASE R!ReadPlainHeader
    <2>1. step' = "sections" /\ UNCHANGED <<ents, calls>> /\ ~ Buffered
      BY <1>5, PackedIs DEF R!ReadPlainHeader
    <2>2. NodesKept
      BY <1>1, <2>1, NoNodes
    <2> QED BY <1>1, <2>1, <2>2, ReadKept
  <1>6. CASE R!ReadPackedHeader /\ step' # "failed"
    <2>1. /\ Buffered /\ mem' = tables /\ step' \in {"texts", "sections"}
          /\ UNCHANGED <<ents, calls>>
          /\ step' = "texts" => at' \in Int
      <3>1. step = "header"
        BY <1>6 DEF R!ReadPackedHeader
      <3> QED BY <1>6, <3>1, HeaderUnpacked
    <2>2. NodesKept
      BY <1>1, <2>1, NoNodes
    <2>3. Unpacked'
      <3>1. tables' = tables /\ tables \in Seq(Int)
        BY DEF vars, TypeInv
      <3>2. Len(tables) \in Nat
        BY <3>1
      <3> QED BY <2>1, <3>1, <3>2 DEF Unpacked
    <2> QED BY <1>1, <2>1, <2>2, <2>3, ReadKept
  <1>7. CASE R!UnpackText /\ step' # "failed"
    <2>1. step = "texts"
      BY <1>7 DEF R!UnpackText
    <2>2. Buffered /\ at \in Int /\ Unpacked
      BY <2>1 DEF ReadInv, Untreed
    <2>3. /\ mem' \in Seq(Int) /\ Len(mem') >= Len(tables)
          /\ \A k \in 1..Len(tables) : mem'[k] = tables[k]
          /\ step' \in {"texts", "sections"} /\ at' \in Int
          /\ UNCHANGED <<ents, calls>>
      BY <1>7, <2>2, TextUnpacked
    <2>4. NodesKept
      BY <1>1, <2>3, NoNodes
    <2>5. Unpacked'
      <3>1. tables' = tables
        BY DEF vars
      <3> QED BY <2>3, <3>1 DEF Unpacked
    <2> QED BY <1>1, <2>2, <2>3, <2>4, <2>5, ReadKept
  <1>8. CASE R!ReadSections /\ step' # "failed"
    <2>1. /\ step = "sections" /\ step' = "entries" /\ UNCHANGED <<mem, ents, calls>>
          /\ at' = R!Header.table[R!MAIN]
      BY <1>8 DEF R!ReadSections, R!Fail
    <2>2. at' = HeaderWords
      BY <2>1 DEF R!Header, Written, HeadInv, R!MAIN, MAIN
    <2>3. NodesKept
      BY <1>1, <2>1, NoNodes
    <2>4. Buffered => Unpacked'
      <3>1. Buffered => Unpacked
        BY <2>1 DEF ReadInv, Untreed
      <3>2. tables' = tables
        BY DEF vars
      <3> QED BY <2>1, <3>1, <3>2 DEF Unpacked
    <2>5. \E p, s, c : p = at' /\ s = ents' /\ c = calls' /\ ReadTree(p, s, c)
      <3>1. rco \in Archives
        BY DEF TypeInv
      <3>2. PICK p, s : p = HeaderWords /\ s = <<>>
        OBVIOUS
      <3>3. ReadTree(p, s, s)
        BY <3>1, <3>2, TreeOpened
      <3> QED BY <1>1, <2>1, <2>2, <3>2, <3>3
    <2>6. step' \notin Unread /\ step' # "texts"
      BY <2>1 DEF Unread
    <2> QED BY <2>3, <2>4, <2>5, <2>6, ReadKept
  <1> QED BY <1>2, <1>3, <1>4, <1>5, <1>6, <1>7, <1>8

LEMMA EntriesRead ==
    ASSUME TypeInv, TreeInv, FormInv, HeadInv, Legible, ReadInv, pc = "done",
           UNCHANGED vars, R!ReadMain \/ R!ReadChild \/ R!Return
    PROVE  ReadInv'
  <1>1. step = "entries"
    BY DEF R!ReadMain, R!ReadChild, R!Return
  <1>2. ReadTree(at, ents, calls) /\ (Buffered => Unpacked) /\ NodesRead
    BY <1>1 DEF ReadInv, Untreed
  <1>3. InSight
    BY <1>2, Sight
  <1>4. Onward
    BY <1>1, <1>2, <1>3, MainStep, ChildStep, ReturnStep
  <1>5. CASE step' = "undefined" /\ ents' = ents
    BY <1>2, <1>5, SameNodes, PassKept DEF Passes
  <1>6. CASE /\ step' \in {"entries", "shortcuts"} /\ mem' = mem
             /\ \E p, s, c : p = at' /\ s = ents' /\ c = calls' /\ ReadTree(p, s, c)
    <2>1. PICK p, s, c : p = at' /\ s = ents' /\ c = calls' /\ ReadTree(p, s, c)
      BY <1>6
    <2>2. PICK m \in 0..N : NodesTo(s, m)
      BY <2>1 DEF ReadTree, ReadTo
    <2>3. NodesKept
      <3>1. N \in Nat /\ E = 1..N
        <4>1. rco \in Archives
          BY DEF TypeInv
        <4> QED BY <4>1, ParentType
      <3>2. PICK S : s \in Seq(S) /\ Len(s) = m /\ \A i \in 1..m : Node(s[i], offset[i])
        BY <2>2 DEF NodesTo
      <3>3. DOMAIN s = 1..m
        BY <3>2
      <3>4. \A i \in DOMAIN s : i \in E /\ Node(s[i], offset[i])
        BY <3>1, <3>2, <3>3
      <3> QED BY <2>1, <3>4 DEF NodesKept
    <2>4. Buffered => Unpacked'
      <3>1. tables' = tables
        BY DEF vars
      <3> QED BY <1>2, <1>6, <3>1 DEF Unpacked
    <2>5. step' \notin Unread /\ step' # "texts"
      BY <1>6 DEF Unread
    <2> QED BY <1>6, <2>3, <2>4, <2>5, ReadKept
  <1> QED BY <1>4, <1>5, <1>6 DEF Onward

LEMMA ReadStep ==
    ASSUME TypeInv, TreeInv, FormInv, HeadInv, HeaderInv, HeaderSure, Legible, ReadInv, Read
    PROVE  ReadInv'
  <1>1. pc = "done" /\ R!Next /\ UNCHANGED vars
    BY DEF Read
  <1>2. CASE \/ R!Open \/ R!OpenFails \/ R!ReadPlainHeader \/ R!ReadPackedHeader
             \/ R!UnpackText \/ R!ReadSections
    BY <1>1, <1>2, EarlyRead
  <1>3. CASE R!ReadMain \/ R!ReadChild \/ R!Return
    BY <1>1, <1>3, EntriesRead
  <1>4. CASE \/ R!AssignShortcuts \/ R!FindPlainTexts \/ R!FindPackedText
             \/ R!AddAddresses \/ R!FixRefs \/ R!FixSizes
    <2>1. NodesRead
      BY DEF ReadInv
    <2>2. NodesKept /\ step' \in Passes
      BY <1>1, <1>4, <2>1, StepPassed
    <2> QED BY <1>1, <2>2, PassKept
  <1> QED BY <1>1, <1>2, <1>3, <1>4 DEF R!Next

LEMMA NotDone == Next => pc # "done"
  BY DEF Next, Open, OpenFails, StageImage, StageSound, StageModel, StageCompressed,
         WritePlaceholderHeader, WriteMain, WriteChild, FinishEntry, FixEntry,
         HashText, HashLang, HashTree, BeginText, WriteText, WriteLabelsEvents,
         Flush, BeginPackText, PackText, CopyResources, FixHeader, EndLoop, Fallthrough

LEMMA WriteStep ==
    ASSUME ReadInv, UNCHANGED readerVars, pc # "done"
    PROVE  ReadInv'
  <1>1. step = "closed" /\ ents = <<>> /\ calls = <<>>
    BY DEF ReadInv, Unread
  <1>2. step' = "closed" /\ ents' = <<>> /\ calls' = <<>>
    BY <1>1 DEF readerVars
  <1>3. NodesRead'
    BY <1>2 DEF NodesRead
  <1> QED BY <1>2, <1>3 DEF ReadInv, Untreed

LEMMA StutterRead ==
    ASSUME ReadInv, UNCHANGED allVars
    PROVE  ReadInv'
  <1>1. UNCHANGED vars /\ UNCHANGED readerVars
    BY DEF allVars
  <1>2. CASE pc # "done"
    BY <1>1, <1>2, WriteStep
  <1>3. CASE pc = "done"
    <2>1. UNCHANGED <<step, mem, at, ents, calls>>
      BY <1>1 DEF readerVars
    <2>2. NodesKept
      BY <2>1, SameNodes DEF ReadInv
    <2>3. step' \in Untreed /\ Buffered => Unpacked'
      <3>1. tables' = tables
        BY <1>1 DEF vars
      <3> QED BY <2>1, <3>1 DEF ReadInv, Unpacked
    <2>4. step' = "entries" =>
              \E p, s, c : p = at' /\ s = ents' /\ c = calls' /\ ReadTree(p, s, c)
      BY <2>1 DEF ReadInv
    <2>5. /\ step' \in Unread => ents' = <<>> /\ calls' = <<>>
          /\ step' = "texts" => Buffered /\ at' \in Int
      BY <2>1 DEF ReadInv
    <2> QED BY <1>1, <1>3, <2>2, <2>3, <2>4, <2>5, ReadKept
  <1> QED BY <1>2, <1>3

(* The inductive invariant of both.                                        *)
RoundInv ==
    /\ TypeInv /\ PatchedLast /\ TreeInv /\ StageInv /\ FormInv
    /\ HeadInv /\ HeaderInv /\ HeaderSure /\ Legible /\ ReadInv

LEMMA RoundBegins ==
    ASSUME RoundInit, PatchedLast, Legible, HeaderSure
    PROVE  RoundInv
  <1>1. Init /\ R!Init
    BY DEF RoundInit
  <1>2. TypeInv /\ TreeInv /\ StageInv /\ FormInv /\ HeadInv /\ HeaderInv
    BY <1>1, InitType, InitTree, InitLayout, InitForm, InitHead, InitHeader DEF LayoutAll
  <1>3. ReadInv
    <2>1. step = "closed" /\ ents = <<>> /\ calls = <<>>
      BY <1>1 DEF R!Init
    <2>2. NodesRead
      BY <2>1 DEF NodesRead
    <2> QED BY <2>1, <2>2 DEF ReadInv, Untreed
  <1> QED BY <1>2, <1>3 DEF RoundInv

LEMMA RoundStays ==
    ASSUME RoundInv, [Write \/ Read]_allVars
    PROVE  RoundInv'
  <1>1. [Next]_vars
    BY DEF Write, Read, allVars
  <1>2. /\ TypeInv /\ PatchedLast /\ TreeInv /\ StageInv /\ FormInv
        /\ HeadInv /\ HeaderInv /\ HeaderSure /\ Legible /\ ReadInv
    BY DEF RoundInv
  <1>3. rco' = rco /\ PatchedLast' /\ HeaderSure'
    <2>1. rco' = rco /\ PatchedLast'
      BY <1>1, <1>2, ArchiveKept
    <2>2. opts' = opts
      BY <1>1, <1>2, OptionsKept
    <2> QED BY <1>2, <2>1, <2>2 DEF HeaderSure, Buffered
  <1>4. Legible'
    BY <1>2, <1>3 DEF Legible, HasAttrs, Listed, Leaf, E
  <1>5. TypeInv' /\ TreeInv' /\ StageInv' /\ FormInv' /\ HeadInv' /\ HeaderInv'
    <2>1. CASE Next
      <3>1. TypeInv' /\ TreeInv' /\ Changes
        BY <1>2, <2>1, NextType, NextTree
      <3>2. StageInv' /\ HeaderInv'
        BY <1>2, <2>1, <3>1, NextStage, NextHeader
      <3> QED BY <1>2, <2>1, <3>1, <3>2, NextForm, NextHead
    <2>2. CASE UNCHANGED vars
      <3>1. TypeInv'
        BY <1>2, <2>2 DEF TypeInv, vars, E, Frames
      <3>2. StageInv'
        BY <1>2, <2>2 DEF vars, StageInv, HasSubentries, Table, Staging
      <3>3. HeaderInv'
        BY <1>2, <2>2, StutterHeader
      <3> QED BY <1>2, <2>2, <3>1, <3>2, <3>3, StutterTree, StutterForm, StutterHead
    <2> QED BY <1>1, <2>1, <2>2
  <1>6. ReadInv'
    <2>1. CASE Write
      BY <1>2, <2>1, NotDone, WriteStep DEF Write
    <2>2. CASE Read
      BY <1>2, <2>2, ReadStep
    <2>3. CASE UNCHANGED allVars
      BY <1>2, <2>3, StutterRead
    <2> QED BY <2>1, <2>2, <2>3
  <1> QED BY <1>3, <1>4, <1>5, <1>6 DEF RoundInv

(* For every archive that the format can hold and whose last entry is      *)
(* patched last, when packing the header does not fail (what is packed to  *)
(* nothing cannot be unpacked, and the reader reads on all the same): the  *)
(* nth entry the reader comes to is the nth entry of the archive, at the   *)
(* place where write_entry put it, whatever else could not be packed.      *)
THEOREM ReaderInStep ==
    RoundSpec /\ PatchedLast /\ Legible /\ HeaderSure => []InStep
  <1>1. RoundInit /\ PatchedLast /\ Legible /\ HeaderSure => RoundInv
    BY RoundBegins
  <1>2. RoundInv /\ [Write \/ Read]_allVars => RoundInv'
    BY RoundStays
  <1>3. RoundInv => InStep
    BY DEF RoundInv, ReadInv, NodesRead, Node, InStep
  <1> QED BY <1>1, <1>2, <1>3, PTL DEF RoundSpec

(* Then the reader is where the next entry begins whenever it is done with *)
(* one, and nextEntryOffset brings it back on course in no such file.      *)
THEOREM ReaderAligned ==
    RoundSpec /\ PatchedLast /\ Legible /\ HeaderSure => []Aligned
  <1>1. RoundInit /\ PatchedLast /\ Legible /\ HeaderSure => RoundInv
    BY RoundBegins
  <1>2. RoundInv /\ [Write \/ Read]_allVars => RoundInv'
    BY RoundStays
  <1>3. RoundInv => Aligned
    <2> SUFFICES ASSUME RoundInv, step = "entries", calls # <<>>, calls[1].left = 0
                 PROVE  calls[1].next \in {0, R!Consumed(calls[1])}
      BY DEF Aligned
    <2>1. ReadTree(at, ents, calls) /\ pc = "done" /\ (Buffered => Unpacked)
      BY DEF RoundInv, ReadInv, Untreed
    <2>2. InFull
      BY <2>1, Sight DEF RoundInv, InSight
    <2>3. PICK m \in 0..N : ReadTo(m, at, ents, calls)
      BY <2>1 DEF ReadTree
    <2> QED BY <2>2, <2>3, CallEnds
  <1> QED BY <1>1, <1>2, <1>3, PTL DEF RoundSpec

-----------------------------------------------------------------------------
(***************************************************************************)
(* What is written is read.  The reader gives up when the chain of packed  *)
(* texts leads out of the file and when a section ends behind the room     *)
(* there is: the length of the file, and for all that is unpacked the      *)
(* difference of the two lengths.                                          *)
(***************************************************************************)

-----------------------------------------------------------------------------
(* The pointers of the header.                                             *)

(* A table that the header points to has a length, and where there is no   *)
(* language there are no texts.                                            *)
PointersInv ==
    /\ \A k \in {OBJ, ANIM} : header.ptrs[k] = NULL_PTR \/ header.lptrs[k] > 0
    /\ Languages = <<>> =>
          header.ldata[TEXT] = 0 /\ (pc \in {"textBody", "packTextBody"} => todo = <<>>)

LEMMA PrimePositive ==
    ASSUME NEW a \in Archives, NEW m \in 0..a.n
    PROVE  FindLargerPrime(m) > 0
  <1>1. a.n \in Nat
    BY ArchivesAssumption DEF IsArchive
  <1>2. CASE m <= 2
    BY <1>1, <1>2 DEF FindLargerPrime
  <1>3. CASE m > 2
    BY <1>1, <1>3, PrimeType
  <1> QED BY <1>1, <1>2, <1>3

SameTables == header'.ptrs = header.ptrs /\ header'.lptrs = header.lptrs

LEMMA TableHashed ==
    ASSUME TypeInv, HashTree, \A k \in {OBJ, ANIM} : header.ptrs[k] = NULL_PTR \/ header.lptrs[k] > 0
    PROVE  \A k \in {OBJ, ANIM} : header'.ptrs[k] = NULL_PTR \/ header'.lptrs[k] > 0
  <1>1. header \in Headers /\ rco \in Archives /\ todo \in Seq(Kinds) /\ todo # <<>>
    BY DEF TypeInv, HashTree
  <1>2. PICK j \in Kinds : j = Head(todo)
    BY <1>1, TailType
  <1>3. CASE Table(j) = Nil
    <2>1. header' = header
      BY <1>2, <1>3 DEF HashTree
    <2> QED BY <2>1
  <1>4. CASE Table(j) # Nil
    <2>1. PICK n : n = HashSize(j)
      OBVIOUS
    <2>2. n > 0
      <3>1. Len(Hashed(j)) \in 0..rco.n
        BY <1>1, <1>4, HashedType
      <3> QED BY <1>1, <2>1, <3>1, PrimePositive DEF HashSize
    <2>3. header' = [header EXCEPT !.ptrs[j] = pos, !.lptrs[j] = n]
      BY <1>2, <1>4, <2>1 DEF HashTree
    <2>4. \A k \in Kinds : IF k = j THEN header'.lptrs[k] = n
                           ELSE header'.ptrs[k] = header.ptrs[k] /\ header'.lptrs[k] = header.lptrs[k]
      BY <1>1, <2>3 DEF Headers
    <2> QED BY <2>2, <2>4, KindNames
  <1> QED BY <1>3, <1>4

LEMMA NextTables ==
    ASSUME TypeInv, StageInv, Next,
           \A k \in {OBJ, ANIM} : header.ptrs[k] = NULL_PTR \/ header.lptrs[k] > 0
    PROVE  \A k \in {OBJ, ANIM} : header'.ptrs[k] = NULL_PTR \/ header'.lptrs[k] > 0
  <1>1. header \in Headers
    BY DEF TypeInv
  <1>2. CASE SameTables
    BY <1>2 DEF SameTables
  <1>3. CASE HashTree
    BY <1>3, TableHashed
  <1>4. CASE HashText \/ HashLang
    <2>1. \/ header' = header
          \/ \E v : header' = [header EXCEPT !.ptrs[TEXT] = v]
          \/ \E v : header' = [header EXCEPT !.lptrs[TEXT] = v]
      BY <1>4 DEF HashText, HashLang
    <2>2. \A k \in {OBJ, ANIM} :
            header'.ptrs[k] = header.ptrs[k] /\ header'.lptrs[k] = header.lptrs[k]
      <3>1. OBJ # TEXT /\ ANIM # TEXT /\ OBJ \in Kinds /\ ANIM \in Kinds
        BY KindNames DEF OBJ, ANIM, TEXT
      <3> QED BY <1>1, <2>1, <3>1 DEF Headers
    <2> QED BY <2>2
  <1>5. CASE StageImage \/ StageModel \/ StageSound
    <2>1. header' = header \/ \E f : header' = [header EXCEPT !.ldata = f]
      BY <1>5 DEF StageImage, StageModel, StageSound, StageCompressed
    <2>2. SameTables
      BY <1>1, <2>1 DEF SameTables, Headers
    <2> QED BY <1>2, <2>2
  <1>6. CASE \/ Open \/ OpenFails \/ EndLoop \/ WritePlaceholderHeader
             \/ WriteMain \/ WriteChild \/ FinishEntry \/ FixEntry \/ WriteText \/ Flush
    <2>1. header' = header
      BY <1>6 DEF Open, OpenFails, EndLoop, Fallthrough, WritePlaceholderHeader, WriteMain,
             WriteChild, FinishEntry, Enter, FixEntry, WriteText, Flush
    <2> QED BY <1>2, <2>1 DEF SameTables
  <1>7. CASE BeginText \/ BeginPackText \/ PackText
    <2>1. \/ header' = header
          \/ \E f : header' = [header EXCEPT !.ldata = f]
          \/ \E f, g : header' = [header EXCEPT !.data = f, !.ldata = g]
      BY <1>7 DEF BeginText, BeginPackText, PackText
    <2>2. SameTables
      BY <1>1, <2>1 DEF SameTables, Headers
    <2> QED BY <1>2, <2>2
  <1>8. CASE WriteLabelsEvents
    <2>1. \E a, b, c, d : header' = [header EXCEPT !.label = a, !.event = b, !.levent = c,
                                                   !.data = d]
      BY <1>8 DEF WriteLabelsEvents
    <2>2. \A a, b, c, d :
            LET h == [header EXCEPT !.label = a, !.event = b, !.levent = c, !.data = d]
            IN h.ptrs = header.ptrs /\ h.lptrs = header.lptrs
      BY <1>1 DEF Headers
    <2> QED BY <1>2, <2>1, <2>2 DEF SameTables
  <1>9. CASE CopyResources
    BY <1>2, <1>9, CopyHeader DEF SameTables
  <1>10. CASE FixHeader
    <2>1. \E f : header' = [header EXCEPT !.table = f]
      BY <1>10 DEF FixHeader
    <2>2. SameTables
      BY <1>1, <2>1 DEF SameTables, Headers
    <2> QED BY <1>2, <2>2
  <1> QED BY <1>3, <1>4, <1>5, <1>6, <1>7, <1>8, <1>9, <1>10 DEF Next

(* Where there is no language.                                             *)
Silence ==
    header.ldata[TEXT] = 0 /\ (pc \in {"textBody", "packTextBody"} => todo = <<>>)

LEMMA NextSilence ==
    ASSUME TypeInv, StageInv, Next, Languages = <<>>, Silence
    PROVE  Silence'
  <1>1. header \in Headers /\ TEXT \in Kinds
    BY KindNames DEF TypeInv
  <1>2. header.ldata[TEXT] = 0
    BY DEF Silence
  <1>3. CASE EarlyStep
    BY <1>2, <1>3, EarlySteps, EarlyBlank DEF SameBlank, Silence, Early
  <1>4. CASE \/ WritePlaceholderHeader \/ WriteMain \/ WriteChild \/ FinishEntry \/ FixEntry
             \/ Fallthrough("fixObj", "fixAnim") \/ Fallthrough("fixAnim", "hashText")
             \/ Fallthrough("hashLang", "hash") \/ Fallthrough("hash", "text")
             \/ Fallthrough("textBody", "labels") \/ Flush
             \/ Fallthrough("packTextBody", "resources")
    <2>1. header' = header /\ pc' \notin {"textBody", "packTextBody"}
      BY <1>4 DEF Fallthrough, WritePlaceholderHeader, WriteMain, WriteChild, FinishEntry,
                  Enter, FixEntry, Flush, Goto
    <2> QED BY <1>2, <2>1 DEF Silence
  <1>5. CASE WriteText \/ PackText
    <2>1. todo # <<>> /\ pc \in {"textBody", "packTextBody"}
      BY <1>5 DEF WriteText, PackText
    <2> QED BY <2>1 DEF Silence
  <1>6. CASE BeginText
    <2>1. Work("textBody") = <<>>
      BY DEF Work, Languages
    <2> QED BY <1>2, <1>6, <2>1 DEF BeginText, Goto, Silence
  <1>7. CASE BeginPackText
    <2>1. Work("packTextBody") = <<>>
      BY DEF Work, Languages
    <2> QED BY <1>2, <1>7, <2>1 DEF BeginPackText, Goto, Silence
  <1>8. CASE HashText \/ HashLang \/ HashTree
    <2>1. pc' \notin {"textBody", "packTextBody"}
      BY <1>8 DEF HashText, HashLang, HashTree, Goto
    <2>2. \/ header' = header
          \/ \E f : header' = [header EXCEPT !.ptrs = f]
          \/ \E f : header' = [header EXCEPT !.lptrs = f]
          \/ \E f, g : header' = [header EXCEPT !.ptrs = f, !.lptrs = g]
      BY <1>8 DEF HashText, HashLang, HashTree
    <2>3. header'.ldata = header.ldata
      BY <1>1, <2>2 DEF Headers
    <2> QED BY <1>2, <2>1, <2>3 DEF Silence
  <1>9. CASE WriteLabelsEvents
    <2>1. pc' \notin {"textBody", "packTextBody"}
      BY <1>9 DEF WriteLabelsEvents, Goto
    <2>2. \E a, b, c, d : header' = [header EXCEPT !.label = a, !.event = b, !.levent = c,
                                                   !.data = d]
      BY <1>9 DEF WriteLabelsEvents
    <2>3. \A a, b, c, d :
            LET h == [header EXCEPT !.label = a, !.event = b, !.levent = c, !.data = d]
            IN h.ldata = header.ldata
      BY <1>1 DEF Headers
    <2> QED BY <1>2, <2>1, <2>2, <2>3 DEF Silence
  <1>10. CASE CopyResources
    <2>1. pc' \notin {"textBody", "packTextBody"}
      BY <1>10 DEF CopyResources, Goto
    <2> QED BY <1>2, <1>10, <2>1, CopyHeader DEF Silence
  <1>11. CASE FixHeader
    <2>1. pc' \notin {"textBody", "packTextBody"}
      BY <1>11 DEF FixHeader, Goto
    <2>2. \E f : header' = [header EXCEPT !.table = f]
      BY <1>11 DEF FixHeader
    <2>3. header'.ldata = header.ldata
      BY <1>1, <2>2 DEF Headers
    <2> QED BY <1>2, <2>1, <2>3 DEF Silence
  <1> QED BY <1>3, <1>4, <1>5, <1>6, <1>7, <1>8, <1>9, <1>10, <1>11, NextSteps DEF LaterStep

LEMMA NextPointers ==
    ASSUME TypeInv, StageInv, PointersInv, Next
    PROVE  PointersInv'
  <1>1. rco' = rco
    BY OptionsKept
  <1>2. Languages' = Languages
    BY <1>1, TextsSame
  <1>3. \A k \in {OBJ, ANIM} : header'.ptrs[k] = NULL_PTR \/ header'.lptrs[k] > 0
    BY NextTables DEF PointersInv
  <1>4. Languages = <<>> => Silence'
    BY NextSilence DEF PointersInv, Silence
  <1> QED BY <1>2, <1>3, <1>4 DEF PointersInv, Silence

LEMMA StutterPointers == ASSUME PointersInv, UNCHANGED vars PROVE PointersInv'
  <1>1. UNCHANGED <<pc, rco, todo, header>>
    BY DEF vars
  <1>2. Languages' = Languages
    BY <1>1, TextsSame
  <1> QED BY <1>1, <1>2 DEF PointersInv

LEMMA InitPointers == ASSUME Init PROVE PointersInv
  <1>1. header = BlankHeader(rco, opts) /\ pc = "open"
    BY DEF Init
  <1>2. OBJ \in Kinds /\ ANIM \in Kinds /\ TEXT \in Kinds
    BY KindNames
  <1>3. \A k \in Kinds : header.ptrs[k] = NULL_PTR /\ header.ldata[k] = 0
    BY <1>1 DEF BlankHeader
  <1> QED BY <1>1, <1>2, <1>3 DEF PointersInv

(* What ends within the room there is fits.                                *)
LEMMA FitsWithin ==
    ASSUME NEW p \in Int, NEW n \in Int, p + n >= 0, NEW limit \in Int, p + n <= limit,
           room \in Int, limit <= room
    PROVE  R!Fits(p, n)
  <1>1. PICK s \in Nat : s = p + n
    OBVIOUS
  <1>2. s % R!Wrap <= s /\ s % R!Wrap \in Int
    BY DEF R!Wrap
  <1>3. PICK m \in Int : m = s % R!Wrap
    BY <1>2
  <1>4. m <= room
    BY <1>1, <1>2, <1>3
  <1> QED BY <1>1, <1>3, <1>4 DEF R!Fits

-----------------------------------------------------------------------------
(* The room there is.                                                      *)

(* In phase s at p, with the room r, the reader has got room for what is   *)
(* still to be read: while texts are unpacked, for those that are left.    *)
RoomFor(s, p, r) ==
    /\ r \in Int
    /\ s = "closed" => r = 0
    /\ s = "header" => r = FileEnd
    /\ s = "texts" =>
          \E b : \E n \in 1..Len(Languages) :
             BlocksAt(b, Len(Languages)) /\ p = b[n] /\ StreamEnd + (FileEnd - p) <= r
    /\ s \in {"sections", "entries"} => StreamEnd <= r
    /\ s # "undefined"
    /\ s = "failed" => r = 0 \/ opts.packHeader = RLZ

RoomInv == RoomFor(step, at, room)

(* The step ends in a state with room.                                     *)
GivesRoom == \E s, p, r : s = step' /\ p = at' /\ r = room' /\ RoomFor(s, p, r)

LEMMA RoomKept ==
    ASSUME TypeInv, UNCHANGED vars, GivesRoom
    PROVE  RoomInv'
  <1>1. PICK s, p, r : s = step' /\ p = at' /\ r = room' /\ RoomFor(s, p, r)
    BY DEF GivesRoom
  <1>2. UNCHANGED <<rco, opts, file, tables, header>>
    BY DEF vars
  <1>3. Languages' = Languages /\ StreamEnd' = StreamEnd /\ FileEnd' = FileEnd
    BY <1>2, TextsSame, EndsSame
  <1>4. \A b, n : BlocksAt(b, n) => BlocksAt(b, n)'
    <2>1. FileEnd \in Int /\ FileEnd' >= FileEnd /\ FileEnd' \in Int
      BY <1>3, EndsType
    <2>2. \A q \in HeaderWords..FileEnd-1 : FileWord(q)' = FileWord(q)
      BY <1>2 DEF FileWord
    <2> QED BY <1>2, <2>1, <2>2, BlocksKept
  <1>5. s = "texts" =>
          \E b : \E n \in 1..Len(Languages') :
             BlocksAt(b, Len(Languages))' /\ p = b[n] /\ StreamEnd' + (FileEnd' - p) <= r
    <2> SUFFICES ASSUME s = "texts"
                 PROVE  \E b : \E n \in 1..Len(Languages') :
                           BlocksAt(b, Len(Languages))' /\ p = b[n]
                             /\ StreamEnd' + (FileEnd' - p) <= r
      OBVIOUS
    <2>1. PICK b : \E n \in 1..Len(Languages) :
             BlocksAt(b, Len(Languages)) /\ p = b[n] /\ StreamEnd + (FileEnd - p) <= r
      BY <1>1 DEF RoomFor
    <2>2. PICK l : l = Len(Languages)
      OBVIOUS
    <2>3. BlocksAt(b, l)' /\ l = Len(Languages)'
      BY <1>3, <1>4, <2>1, <2>2
    <2> QED BY <1>3, <2>1, <2>2, <2>3
  <1>6. RoomFor(s, p, r)'
    BY <1>1, <1>2, <1>3, <1>5 DEF RoomFor
  <1> QED BY <1>1, <1>6 DEF RoomInv

(* Each step of the reader. *)
LEMMA OpenedRoom ==
    ASSUME TypeInv, RoomInv, R!Open \/ R!OpenFails
    PROVE  GivesRoom
  <1>1. step = "closed" /\ room = 0 /\ FileEnd \in Int
    BY EndsType DEF R!Open, R!OpenFails, RoomInv, RoomFor
  <1>2. CASE R!Open
    <2>1. step' = "header" /\ room' = FileEnd
      BY <1>2, FileNames DEF R!Open
    <2> QED BY <1>1, <2>1 DEF GivesRoom, RoomFor
  <1>3. CASE R!OpenFails
    <2>1. step' = "failed" /\ room' = 0
      BY <1>1, <1>3 DEF R!OpenFails, R!Fail
    <2> QED BY <2>1 DEF GivesRoom, RoomFor
  <1> QED BY <1>2, <1>3

LEMMA PlainRoom ==
    ASSUME TypeInv, HeadInv, pc = "done", RoomInv, R!ReadPlainHeader
    PROVE  GivesRoom
  <1>1. step = "header" /\ step' = "sections" /\ room' = room /\ ~ Buffered
    BY PackedIs DEF R!ReadPlainHeader
  <1>2. room = FileEnd /\ FileEnd = StreamEnd /\ FileEnd \in Int
    BY <1>1, EndsType DEF RoomInv, RoomFor
  <1> QED BY <1>1, <1>2 DEF GivesRoom, RoomFor

LEMMA HeaderRoom ==
    ASSUME TypeInv, HeadInv, HeaderInv, PointersInv, TextInv, pc = "done",
           RoomInv, R!ReadPackedHeader
    PROVE  GivesRoom
  <1>1. step = "header" /\ Buffered /\ room = FileEnd /\ FileEnd \in Int
    BY PackedIs, EndsType DEF R!ReadPackedHeader, RoomInv, RoomFor
  <1>2. R!Header = header
    BY DEF R!Header, Written, HeadInv
  <1>3. PackedHeader
    BY <1>1 DEF HeaderInv, FlushedFile
  <1>4. PICK len \in PackedLens :
           /\ FileWord(HeaderWords) = len
           /\ Holds(HeaderWords + HeaderComprWords, 0, 0, Words(len))
    BY <1>3 DEF PackedHeader
  <1>6. PICK w \in Nat : w = Words(len)
    BY PackedLensAssumption, WordsType
  <1>7. PICK n \in Nat : n = Len(tables)
    BY DEF TypeInv
  <1>8. StreamEnd = HeaderWords + n
    BY <1>1, <1>7 DEF StreamEnd, Stream
  <1>9. R!InFile(R!HeaderWords) = len
    BY <1>4, FileNames, ReaderNames
  <1>10. R!InFile(R!HeaderWords + 1) = n
    <2>1. file[2] = n
      BY <1>1, <1>7 DEF HeadInv, FlushedFile
    <2>2. FileWord(HeaderWords + 1) = file[2]
      <3>1. (HeaderWords + 1) - HeaderWords + 1 = 2
        BY DEF HeaderWords
      <3> QED BY <3>1 DEF FileWord
    <2> QED BY <2>1, <2>2, FileNames, ReaderNames
  <1>12. CASE header.compression = RLZ
    <2>1. opts.packHeader = RLZ
      BY <1>12 DEF HeadInv
    <2>2. step' = "failed" /\ room' = room
      BY <1>2, <1>12, FileNames DEF R!ReadPackedHeader, R!Fail
    <2> QED BY <1>1, <2>1, <2>2 DEF GivesRoom, RoomFor
  <1>13. CASE header.compression # RLZ
    <2>1. /\ room' = room + (n - w)
          /\ IF header.data[TEXT] # NULL_PTR /\ header.ldata[TEXT] # 0
             THEN step' = "texts" /\ at' = header.data[TEXT]
             ELSE step' = "sections"
      <3>1. R!RoomGained(len, n) = n - w
        BY <1>6, ReaderNames DEF R!RoomGained
      <3> QED BY <1>2, <1>9, <1>10, <1>13, <3>1, FileNames DEF R!ReadPackedHeader
    <2>2. HeaderWords + 3 + w <= FileEnd /\ HeaderEnd = HeaderWords + 3 + w
      BY <1>3, <1>4, <1>6, HeaderFits
    <2>3. StreamEnd <= room' /\ room' \in Int
      BY <1>1, <1>8, <2>1, <2>2 DEF HeaderWords
    <2>4. CASE step' = "sections"
      BY <2>3, <2>4 DEF GivesRoom, RoomFor
    <2>5. CASE step' # "sections"
      <3>1. step' = "texts" /\ at' = header.data[TEXT] /\ header.ldata[TEXT] # 0
        BY <2>1, <2>5
      <3>2. Languages # <<>>
        BY <3>1 DEF PointersInv
      <3>3. PICK b : BlocksAt(b, Len(Languages))
        BY <1>1, <3>2 DEF TextInv, PackedInv
      <3>4. b[1] = header.data[TEXT]
        BY <3>3 DEF BlocksAt
      <3>5. 1 \in 1..Len(Languages)
        <4>1. Len(Languages) \in Nat
          BY LanguagesType DEF TypeInv
        <4>2. Languages \in Seq(E)
          BY LanguagesType DEF TypeInv
        <4> QED BY <3>2, <4>1, <4>2, EmptySeq
      <3>6. PICK d \in Int : d = header.data[TEXT]
        BY KindNames DEF TypeInv, Headers
      <3>7. HeaderWords + 3 + w <= d
        BY <1>1, <2>2, <3>2, <3>6 DEF HeaderInv, PackedPhases
      <3>8. StreamEnd + (FileEnd - d) <= room'
        BY <1>1, <1>8, <2>1, <3>7 DEF HeaderWords
      <3> QED BY <2>3, <3>1, <3>3, <3>4, <3>5, <3>6, <3>8 DEF GivesRoom, RoomFor
    <2> QED BY <2>4, <2>5
  <1> QED BY <1>12, <1>13

LEMMA TextRoom ==
    ASSUME TypeInv, RoomInv, R!UnpackText
    PROVE  GivesRoom
  <1>1. step = "texts"
    BY DEF R!UnpackText
  <1>2. PICK b : \E n \in 1..Len(Languages) :
           BlocksAt(b, Len(Languages)) /\ at = b[n] /\ StreamEnd + (FileEnd - at) <= room
    BY <1>1 DEF RoomInv, RoomFor
  <1>3. PICK n \in 1..Len(Languages) :
           BlocksAt(b, Len(Languages)) /\ at = b[n] /\ StreamEnd + (FileEnd - at) <= room
    BY <1>2
  <1>4. /\ rco \in Archives /\ Languages \in Seq(E) /\ Len(Languages) \in Nat
        /\ DOMAIN Languages = 1..Len(Languages)
    BY LanguagesType DEF TypeInv
  <1>5. PICK e \in E : e = Languages[n]
    BY <1>4
  <1>6. PICK last \in BOOLEAN : last = (n = Len(Languages))
    OBVIOUS
  <1>7. PICK c : c = b[n+1]
    OBVIOUS
  <1>8. PICK p : p = at
    OBVIOUS
  <1>9. BlockAt(e, p, c, last)
    BY <1>3, <1>5, <1>6, <1>7, <1>8 DEF BlocksAt
  <1>10. p \in Int /\ p >= HeaderWords /\ c <= FileEnd
    BY <1>9 DEF BlockAt
  <1>11. PICK len \in PackedLens \ {0} : len = FileWord(p + 2) /\ c = p + BlockWords(len)
    BY <1>9, BlockRead
  <1>12. /\ (FileWord(p + 1) = 0) = last
         /\ ~ last => c = p + FileWord(p + 1)
         /\ Holds(p + TextComprWords, e, 0, Words(len))
         /\ FileWord(p + 3) = TextTotal(rco, e)
    BY <1>9, <1>11, BlockRead
  <1>13. PICK w \in Nat : w = Words(len)
    BY <1>11, PackedLensAssumption, WordsType
  <1>14. c = p + (4 + w)
    BY <1>11, <1>13 DEF BlockWords, TextComprWords
  <1>15. PICK t \in Nat : t = TextTotal(rco, e)
    BY <1>4, ArchiveType, EntryType, TextUsedType DEF TypeInv, E
  <1>16. /\ R!InFile(p + 1) = FileWord(p + 1) /\ R!InFile(p + 2) = len /\ R!InFile(p + 3) = t
         /\ R!HeaderWords = HeaderWords /\ R!FileEnd = FileEnd /\ R!TextComprWords = 4
    BY <1>11, <1>12, <1>15, FileNames, ReaderNames
  <1>18. FileEnd \in Int /\ p + 4 <= FileEnd /\ room \in Int /\ StreamEnd \in Int
    BY <1>10, <1>13, <1>14, EndsType DEF RoomInv, RoomFor
  <1>19. /\ room' = room + (t - w)
         /\ IF FileWord(p + 1) = 0 THEN step' = "sections"
            ELSE step' = step /\ (~ last => at' = c)
    <2>1. R!RoomGained(len, t) = t - w /\ R!Words(len) = w
      BY <1>13, ReaderNames DEF R!RoomGained
    <2>2. /\ ~ (p + 4 > FileEnd) /\ ~ (len < 0) /\ ~ (t < 0)
          /\ p + 4 + w <= FileEnd /\ p + 4 + w \in Int
      <3>1. len \in Nat
        BY <1>11, PackedLensAssumption
      <3> QED BY <1>10, <1>13, <1>14, <1>18, <3>1
    <2>3. /\ room' = room + (t - w)
          /\ IF FileWord(p + 1) = 0 THEN step' = "sections"
             ELSE /\ step' = step
                  /\ at' = R!FileSeek(p + 4 + w, p + 4 + w + FileWord(p + 1) - 4 - w)
      BY <1>8, <1>16, <2>1, <2>2 DEF R!UnpackText
    <2>4. ASSUME ~ last
          PROVE  R!FileSeek(p + 4 + w, p + 4 + w + FileWord(p + 1) - 4 - w) = c
      <3>1. PICK x : x = FileWord(p + 1)
        OBVIOUS
      <3>2. x \in Int
        BY <1>10, <1>18, <3>1, WordInFile, FileNames, ReaderNames DEF HeaderWords
      <3>3. c = p + x
        BY <1>12, <2>4, <3>1
      <3>4. PICK q \in Int : q = p + x
        BY <1>10, <3>2
      <3>5. p + 4 + w + x - 4 - w = q /\ ~ (q < 0)
        BY <1>10, <1>14, <3>2, <3>3, <3>4 DEF HeaderWords
      <3> QED BY <3>1, <3>3, <3>4, <3>5 DEF R!FileSeek
    <2> QED BY <2>3, <2>4
  <1>20. room' \in Int /\ StreamEnd + (FileEnd - c) <= room'
    <2>1. PICK f \in Int, s \in Int, r \in Int : f = FileEnd /\ s = StreamEnd /\ r = room
      BY <1>18
    <2>2. s + (f - p) <= r
      BY <1>3, <1>8, <2>1
    <2>3. room' = r + (t - w)
      BY <1>19, <2>1
    <2>4. PICK gain \in Int : gain = r + (t - w)
      BY <1>13, <1>15
    <2>5. p \in Int /\ w \in Nat /\ t \in Nat
      BY <1>10
    <2>6. s + (f - (p + (4 + w))) <= gain
      BY <2>2, <2>4, <2>5
    <2> QED BY <1>14, <2>1, <2>3, <2>4, <2>6
  <1>21. CASE last
    <2>1. step' = "sections"
      BY <1>12, <1>19, <1>21
    <2>2. StreamEnd <= room'
      BY <1>10, <1>14, <1>18, <1>20
    <2> QED BY <1>20, <2>1, <2>2 DEF GivesRoom, RoomFor
  <1>22. CASE ~ last
    <2>1. step' = "texts" /\ at' = c
      BY <1>1, <1>12, <1>19, <1>22
    <2>2. PICK m \in 1..Len(Languages) : m = n + 1
      <3>1. PICK l \in Nat : l = Len(Languages)
        <4>1. Len(Languages) \in Nat
          BY <1>4
        <4> QED BY <4>1
      <3>2. n \in 1..l /\ n # l
        BY <1>6, <1>22, <3>1
      <3>3. n + 1 \in 1..l
        BY <3>1, <3>2
      <3> QED BY <3>1, <3>3
    <2>3. c = b[m]
      BY <1>7, <2>2
    <2> QED BY <1>3, <1>20, <2>1, <2>2, <2>3 DEF GivesRoom, RoomFor
  <1> QED BY <1>21, <1>22

LEMMA SectionsRoom ==
    ASSUME TypeInv, HeadInv, LayoutInv, PointersInv, pc = "done", RoomInv, R!ReadSections
    PROVE  GivesRoom
  <1>1. step = "sections" /\ room \in Int /\ StreamEnd <= room /\ StreamEnd \in Int
    BY EndsType DEF R!ReadSections, RoomInv, RoomFor
  <1>2. R!Header = header /\ header \in Headers
    BY DEF R!Header, Written, HeadInv, TypeInv
  <1>3. \A s \in Full : s[1] >= HeaderWords /\ s[1] + s[2] <= StreamEnd
    <2>1. AllLaid
      BY DEF LayoutInv
    <2>2. CASE Buffered
      BY <2>1, <2>2 DEF AllLaid, Apart
    <2>3. CASE ~ Buffered
      <3>1. FileEnd = StreamEnd
        BY <2>3, EndsType
      <3> QED BY <2>1, <2>3, <3>1 DEF AllLaid, Apart
    <2> QED BY <2>2, <2>3
  <1>4. ASSUME NEW p \in Int, NEW n \in Nat, <<p, n>> \in Full
        PROVE  R!Fits(p, n)
    <2>1. p >= HeaderWords /\ p + n <= StreamEnd
      BY <1>3, <1>4
    <2>2. p + n >= 0
      BY <2>1 DEF HeaderWords
    <2> QED BY <1>1, <2>1, <2>2, FitsWithin
  <1>5. R!Fits(header.label, header.llabel) /\ R!Fits(header.event, header.levent)
    <2>1. <<header.label, header.llabel>> \in Full /\ <<header.event, header.levent>> \in Full
      BY DEF Full, LabelSections
    <2>2. /\ header.label \in Int /\ header.llabel \in Nat
          /\ header.event \in Int /\ header.levent \in Nat
      BY <1>2 DEF Headers
    <2> QED BY <1>4, <2>1, <2>2
  <1>6. ASSUME NEW k \in {OBJ, ANIM}
        PROVE  header.ptrs[k] = NULL_PTR \/ R!Fits(header.ptrs[k], header.lptrs[k])
    <2>1. CASE header.ptrs[k] = NULL_PTR
      BY <2>1
    <2>2. CASE header.lptrs[k] > 0
      <3>1. k \in Kinds
        BY KindNames
      <3>2. <<header.ptrs[k], header.lptrs[k]>> \in Full
        BY <2>2, <3>1 DEF Full, Inner, Sections
      <3>3. header.ptrs[k] \in Int /\ header.lptrs[k] \in Nat
        BY <1>2, <3>1 DEF Headers
      <3> QED BY <1>4, <3>2, <3>3
    <2> QED BY <2>1, <2>2 DEF PointersInv
  <1>7. step' = "entries" /\ room' = room
    BY <1>2, <1>5, <1>6, FileNames DEF R!ReadSections
  <1> QED BY <1>1, <1>7 DEF GivesRoom, RoomFor

(* The entry at which the reader is lies in the room there is.             *)
LEMMA EntryFits ==
    ASSUME InFull, room \in Int, StreamEnd <= room, NEW m \in 0..N-1, at = Ahead(m)
    PROVE  R!Fits(at, R!EntryWords)
  <1>1. rco \in Archives /\ TypeInv
    BY DEF InFull, TypeInv
  <1>2. N \in Nat /\ E = 1..N
    BY <1>1, ParentType
  <1>3. PICK c \in E : c = m + 1
    BY <1>2
  <1>4. c - 1 = m
    BY <1>2, <1>3
  <1>5. /\ offset[c] \in Nat /\ ExtraLen(c) \in Nat /\ EndAt(c) <= StreamEnd
        /\ at = offset[c]
    BY <1>4, EntryWritten
  <1>6. at \in Int /\ at + EntryWords >= 0 /\ at + EntryWords <= StreamEnd /\ EntryWords \in Int
    BY <1>1, <1>5, EndsType DEF EndAt, EntryWords
  <1>7. PICK p \in Int : p = at
    BY <1>6
  <1>8. R!Fits(p, EntryWords)
    BY <1>1, <1>6, <1>7, EndsType, FitsWithin
  <1> QED BY <1>7, <1>8, ReaderNames

LEMMA EntriesRoom ==
    ASSUME InFull, step = "entries", ReadTree(at, ents, calls), RoomInv,
           R!ReadMain \/ R!ReadChild \/ R!Return
    PROVE  GivesRoom
  <1>1. room \in Int /\ StreamEnd <= room
    BY DEF RoomInv, RoomFor
  <1>2. rco \in Archives
    BY DEF InFull, TypeInv
  <1>3. N \in Nat \ {0}
    BY <1>2, ParentType
  <1>4. PICK m \in 0..N : ReadTo(m, at, ents, calls)
    BY DEF ReadTree
  <1>5. at = Ahead(m) /\ NodesTo(ents, m) /\ ReadCalls(calls, m)
    BY <1>4 DEF ReadTo
  <1>6. CASE R!ReadMain \/ R!ReadChild
    <2>1. m \in 0..N-1
      <3>1. CASE R!ReadMain
        <4>1. Len(ents) = 0
          BY <3>1 DEF R!ReadMain
        <4>2. m = 0
          BY <1>5, <4>1 DEF NodesTo
        <4> QED BY <1>3, <4>2
      <3>2. CASE R!ReadChild
        <4>1. PICK c : c = calls
          OBVIOUS
        <4>2. c # <<>> /\ c[1].left > 0
          BY <3>2, <4>1 DEF R!ReadChild
        <4>3. m \in 1..N-1
          BY <1>2, <1>5, <4>1, <4>2, NextRead
        <4> QED BY <1>3, <4>3
      <3> QED BY <1>6, <3>1, <3>2
    <2>2. R!Fits(at, R!EntryWords)
      BY <1>1, <1>5, <2>1, EntryFits
    <2>3. step' = step /\ room' = room
      BY <1>6, <2>2 DEF R!ReadMain, R!ReadChild, R!Enter
    <2> QED BY <1>1, <2>3 DEF GivesRoom, RoomFor
  <1>7. CASE R!Return
    <2>1. step' \in {"shortcuts", "entries"} /\ room' = room
      BY <1>7 DEF R!Return
    <2> QED BY <1>1, <2>1 DEF GivesRoom, RoomFor
  <1> QED BY <1>6, <1>7

LEMMA PassRoom ==
    ASSUME RoomInv,
           \/ R!AssignShortcuts \/ R!FindPlainTexts \/ R!FindPackedText
           \/ R!AddAddresses \/ R!FixRefs \/ R!FixSizes
    PROVE  GivesRoom
  <1>1. room' = room /\ step' \in {"sources", "addresses", "refs", "sizes", "done"}
    <2>1. CASE R!AssignShortcuts
      BY <2>1 DEF R!AssignShortcuts
    <2>2. CASE R!FindPlainTexts
      BY <2>2 DEF R!FindPlainTexts
    <2>3. CASE R!FindPackedText
      BY <2>3 DEF R!FindPackedText
    <2>4. CASE R!AddAddresses \/ R!FixRefs \/ R!FixSizes
      BY <2>4 DEF R!AddAddresses, R!FixRefs, R!FixSizes
    <2> QED BY <2>1, <2>2, <2>3, <2>4
  <1>2. room \in Int
    BY DEF RoomInv, RoomFor
  <1> QED BY <1>1, <1>2 DEF GivesRoom, RoomFor

(* The inductive invariant of the writer, the reader and the room.         *)
FileInv ==
    /\ RoundInv /\ TextsSure /\ LayoutAll /\ IndexInv /\ TextInv
    /\ HeaderInv /\ PointersInv /\ RoomInv

LEMMA ReadRoom ==
    ASSUME FileInv, Read
    PROVE  RoomInv'
  <1>1. /\ TypeInv /\ TreeInv /\ FormInv /\ HeadInv /\ Legible /\ ReadInv
        /\ TextsSure /\ LayoutInv /\ TextInv /\ HeaderInv /\ PointersInv /\ RoomInv
    BY DEF FileInv, RoundInv, LayoutAll
  <1>2. pc = "done" /\ R!Next /\ UNCHANGED vars
    BY DEF Read
  <1>3. GivesRoom
    <2>1. CASE R!Open \/ R!OpenFails
      BY <1>1, <2>1, OpenedRoom
    <2>2. CASE R!ReadPlainHeader
      BY <1>1, <1>2, <2>2, PlainRoom
    <2>3. CASE R!ReadPackedHeader
      BY <1>1, <1>2, <2>3, HeaderRoom
    <2>4. CASE R!UnpackText
      BY <1>1, <2>4, TextRoom
    <2>5. CASE R!ReadSections
      BY <1>1, <1>2, <2>5, SectionsRoom
    <2>6. CASE R!ReadMain \/ R!ReadChild \/ R!Return
      <3>1. step = "entries"
        BY <2>6 DEF R!ReadMain, R!ReadChild, R!Return
      <3>2. ReadTree(at, ents, calls) /\ (Buffered => Unpacked)
        BY <1>1, <3>1 DEF ReadInv, Untreed
      <3>3. InFull
        BY <1>1, <1>2, <3>2, Sight DEF InSight
      <3> QED BY <1>1, <2>6, <3>1, <3>2, <3>3, EntriesRoom
    <2>7. CASE \/ R!AssignShortcuts \/ R!FindPlainTexts \/ R!FindPackedText
               \/ R!AddAddresses \/ R!FixRefs \/ R!FixSizes
      BY <1>1, <2>7, PassRoom
    <2> QED BY <1>2, <2>1, <2>2, <2>3, <2>4, <2>5, <2>6, <2>7 DEF R!Next
  <1> QED BY <1>1, <1>2, <1>3, RoomKept

LEMMA WriteRoom ==
    ASSUME ReadInv, RoomInv, pc # "done", UNCHANGED readerVars
    PROVE  RoomInv'
  <1>1. step = "closed"
    BY DEF ReadInv
  <1>2. step' = "closed" /\ room' = room /\ room = 0
    BY <1>1 DEF readerVars, RoomInv, RoomFor
  <1> QED BY <1>2 DEF RoomInv, RoomFor

LEMMA StutterRoom ==
    ASSUME TypeInv, RoomInv, UNCHANGED allVars
    PROVE  RoomInv'
  <1>1. UNCHANGED vars /\ step' = step /\ at' = at /\ room' = room
    BY DEF allVars, readerVars
  <1>2. GivesRoom
    BY <1>1 DEF GivesRoom, RoomInv
  <1> QED BY <1>1, <1>2, RoomKept

LEMMA FileBegins ==
    ASSUME RoundInit, PatchedLast, Legible, TextsSure
    PROVE  FileInv
  <1>1. Init /\ R!Init
    BY DEF RoundInit
  <1>2. RoundInv
    BY RoundBegins DEF TextsSure, HeaderSure
  <1>3. LayoutAll /\ IndexInv /\ TextInv /\ HeaderInv /\ PointersInv
    BY <1>1, InitLayout, InitIndex, InitTexts, InitHeader, InitPointers
  <1>4. RoomInv
    <2>1. step = "closed" /\ room = 0
      BY <1>1 DEF R!Init
    <2> QED BY <2>1 DEF RoomInv, RoomFor
  <1> QED BY <1>2, <1>3, <1>4 DEF FileInv

LEMMA FileStays ==
    ASSUME FileInv, [Write \/ Read]_allVars
    PROVE  FileInv'
  <1>1. [Next]_vars
    BY DEF Write, Read, allVars
  <1>2. /\ TypeInv /\ PatchedLast /\ TreeInv /\ HeadInv /\ ReadInv /\ StageInv
        /\ TextsSure /\ LayoutAll /\ IndexInv /\ TextInv
        /\ HeaderInv /\ PointersInv /\ RoomInv /\ RoundInv
    BY DEF FileInv, RoundInv, LayoutAll
  <1>3. RoundInv'
    BY <1>2, RoundStays
  <1>4. TypeInv' /\ TextsSure' /\ LayoutAll' /\ IndexInv' /\ TextInv'
    BY <1>1, <1>2, TextInvariant
  <1>5. HeaderInv' /\ PointersInv'
    <2>1. CASE Next
      BY <1>2, <1>4, <2>1, NextHeader, NextPointers
    <2>2. CASE UNCHANGED vars
      BY <1>2, <2>2, StutterHeader, StutterPointers
    <2> QED BY <1>1, <2>1, <2>2
  <1>6. RoomInv'
    <2>1. CASE Write
      BY <1>2, <2>1, NotDone, WriteRoom DEF Write
    <2>2. CASE Read
      BY <2>2, ReadRoom
    <2>3. CASE UNCHANGED allVars
      BY <1>2, <2>3, StutterRoom
    <2> QED BY <2>1, <2>2, <2>3
  <1> QED BY <1>3, <1>4, <1>5, <1>6 DEF FileInv

(* For every archive that the format can hold, whose last entry is patched *)
(* last and whose texts can all be packed, the file that was written is    *)
(* read: no check of a region and of the chain of texts turns away what    *)
(* the writer has laid out, and no entry is left as malloc returned it.    *)
(* The reader gives up only where the file cannot be opened or the header  *)
(* is packed with RLZ, which it does not unpack.                           *)
THEOREM FilesAreAccepted ==
    RoundSpec /\ PatchedLast /\ Legible /\ TextsSure => []Accepted
  <1>1. RoundInit /\ PatchedLast /\ Legible /\ TextsSure => FileInv
    BY FileBegins
  <1>2. FileInv /\ [Write \/ Read]_allVars => FileInv'
    BY FileStays
  <1>3. FileInv => Accepted
    BY DEF FileInv, RoomInv, RoomFor, Accepted
  <1> QED BY <1>1, <1>2, <1>3, PTL DEF RoundSpec
=============================================================================
