---------------------------- MODULE ExchangeProofs ----------------------------
(***************************************************************************)
(* Requests, whatever the server answers and however often: what an upload *)
(* sends keeps its frame, and has the whole file if nobody writes it; no   *)
(* part of an error is taken for the file, where CurlAgent can tell; a     *)
(* refused token is not sent again; and a request is what the walk takes   *)
(* it for.                                                                 *)
(*                                                                         *)
(* Framed speaks of what has been sent.  Its invariant adds where the      *)
(* streams stand: the position is the number of bytes sent; it lies in the *)
(* current part; and the first and the last part have been read as far as  *)
(* it says.  Of the file nothing of the kind is known, and need not be; if *)
(* nobody writes it, as much of it has been read too (WholeInv).           *)
(***************************************************************************)
EXTENDS Exchange, SequenceTheorems, TLAPS

Ahead == Len(Preamble)
Behind == Len(Epilogue)

StreamTypes ==
    /\ file \in Seq(Byte)
    /\ want \in Nat /\ pos \in Nat /\ cur \in Nat \ {0}
    /\ buf \in Seq(Byte) /\ sent \in Seq(Byte)
    /\ offset \in [Part -> Nat]

NoParts    == parts = <<>> /\ sizes = <<>>
TwoParts   == parts = <<"head", "tail">> /\ sizes = <<Ahead, Ahead + Behind>>
ThreeParts ==
    /\ parts = <<"head", "file", "tail">>
    /\ \E m \in Nat : m > Ahead /\ sizes = <<Ahead, m, m + Behind>>

Shape == NoParts \/ TwoParts \/ ThreeParts

InHead == parts # <<>> /\ cur = 1 /\ pos < Ahead /\ offset["head"] = pos
InFile == ThreeParts /\ cur = 2 /\ Ahead <= pos /\ pos < sizes[2]
InTail ==
    /\ parts # <<>> /\ cur = Len(parts)
    /\ Total - Behind <= pos /\ pos < Total
    /\ offset["tail"] = pos - (Total - Behind)
AtEnd  == cur > Len(parts) /\ pos = Total

Place ==
    /\ Len(sent) + Len(buf) = pos
    /\ InHead \/ InFile \/ InTail \/ AtEnd

StreamInv == StreamTypes /\ Shape /\ Place /\ Framed

-------------------------------------------------------------------------------
(* Sequences.                                                              *)

\* What is read from s at o, n bytes at most: what the part's own Read returns.
LEMMA Piece ==
    ASSUME NEW s \in Seq(Byte), NEW o \in Nat, NEW n \in Nat
    PROVE  LET g == SubSeq(s, o + 1, Smaller(o + n, Len(s)))
           IN /\ g \in Seq(Byte)
              /\ Len(g) <= n
              /\ o < Len(s) /\ n > 0 => Len(g) > 0
              /\ \A i \in 1..Len(g) : o + i <= Len(s) /\ g[i] = s[o + i]
<1> DEFINE z == Smaller(o + n, Len(s))
           g == SubSeq(s, o + 1, z)
<1>1. Len(s) \in Nat
    BY LenProperties
<1>2. z \in Nat /\ z <= Len(s) /\ z <= o + n
    BY <1>1 DEF Smaller
<1>3. \A i \in (o + 1)..z : s[i] \in Byte
    BY <1>1, <1>2, ElementOfSeq
<1>4. /\ g \in Seq(Byte)
      /\ Len(g) = IF o + 1 <= z THEN z - (o + 1) + 1 ELSE 0
      /\ \A i \in 1..(z - (o + 1) + 1) : g[i] = s[o + 1 + i - 1]
    <2> HIDE DEF z
    <2> QED BY <1>2, <1>3, SubSeqProperties
<1>5. o < Len(s) /\ n > 0 => Len(g) > 0
    BY <1>1, <1>4 DEF Smaller
<1> HIDE DEF z
<1>6. \A i \in 1..Len(g) : o + i <= Len(s) /\ g[i] = s[o + i]
    BY <1>1, <1>2, <1>4, SMTT(30)
<1>7. Len(g) <= n
    BY <1>2, <1>4
<1> QED BY <1>4, <1>5, <1>6, <1>7 DEF z

\* The bytes that a Read under way adds come after those there are.
LEMMA Grown ==
    ASSUME NEW s \in Seq(Byte), NEW b \in Seq(Byte), NEW m \in Seq(Byte)
    PROVE  /\ s \o (b \o m) \in Seq(Byte)
           /\ Len(s \o (b \o m)) = Len(s \o b) + Len(m)
           /\ Len(s \o b) = Len(s) + Len(b)
           /\ \A i \in 1..(Len(s \o b) + Len(m)) :
                 (s \o (b \o m))[i] =
                     IF i <= Len(s \o b) THEN (s \o b)[i] ELSE m[i - Len(s \o b)]
<1>1. s \o (b \o m) = (s \o b) \o m
    BY ConcatAssociative, SMTT(30)
<1>2. s \o b \in Seq(Byte) /\ Len(s \o b) = Len(s) + Len(b)
    BY ConcatProperties
<1> QED BY <1>1, <1>2, ConcatProperties

\* Padding is a sequence of bytes.
LEMMA ZerosAreBytes ==
    ASSUME NEW n \in Nat
    PROVE  /\ [i \in 1..n |-> Zero] \in Seq(Byte)
           /\ Len([i \in 1..n |-> Zero]) = n
BY StreamAssumption

-------------------------------------------------------------------------------
(* The stream.                                                             *)

LEMMA Lengths == Ahead \in Nat /\ Ahead > 0 /\ Behind \in Nat /\ Behind > 0
BY StreamAssumption, EmptySeq, LenProperties DEF Ahead, Behind

\* In a message of t bytes the byte x belongs at i.
Belongs(x, t, i) ==
    /\ i <= Ahead => x = Preamble[i]
    /\ i > t - Behind => i <= t /\ x = Epilogue[i - (t - Behind)]

\* Framed, of any bytes.
FramedBy(body, t) == \A i \in 1..Len(body) : Belongs(body[i], t, i)

LEMMA BelongsToTheEnd ==
    ASSUME NEW x, NEW t \in Nat, NEW i \in Nat, i > Ahead, i <= t,
           x = Epilogue[i - (t - Behind)]
    PROVE  Belongs(x, t, i)
BY Lengths DEF Belongs

\* What has been sent keeps the frame if the new bytes belong where they come.
LEMMA FrameGrows ==
    ASSUME NEW s \in Seq(Byte), NEW b \in Seq(Byte), NEW m \in Seq(Byte), NEW t \in Nat,
           FramedBy(s \o b, t),
           NEW p \in Nat, p = Len(s) + Len(b),
           \A k \in 1..Len(m) : Belongs(m[k], t, p + k)
    PROVE  FramedBy(s \o (b \o m), t)
<1> DEFINE new == s \o (b \o m)
           old == s \o b
<1>1. /\ Len(new) = p + Len(m) /\ Len(old) = p
      /\ \A i \in 1..(p + Len(m)) : new[i] = IF i <= p THEN old[i] ELSE m[i - p]
    BY Grown
<1>2. Len(m) \in Nat
    BY LenProperties
<1> SUFFICES ASSUME NEW i \in 1..(p + Len(m))
             PROVE  Belongs(new[i], t, i)
    BY <1>1 DEF FramedBy
<1>3. CASE i <= p
    <2>1. i \in 1..Len(old) /\ new[i] = old[i]
        BY <1>1, <1>2, <1>3
    <2>2. Belongs(old[i], t, i)
        BY <2>1 DEF FramedBy
    <2> QED BY <2>1, <2>2
<1>4. CASE i > p
    <2>1. i - p \in 1..Len(m) /\ p + (i - p) = i /\ new[i] = m[i - p]
        <3>1. i - p \in 1..Len(m) /\ p + (i - p) = i
            BY <1>2, <1>4
        <3>2. ~(i <= p)
            BY <1>2, <1>4
        <3>3. new[i] = IF i <= p THEN old[i] ELSE m[i - p]
            BY <1>1
        <3> QED BY <3>1, <3>2, <3>3
    <2>2. Belongs(m[i - p], t, p + (i - p))
        BY <2>1
    <2> QED BY <2>1, <2>2
<1> QED BY <1>3, <1>4

LEMMA TotalOfShape ==
    ASSUME Shape
    PROVE  /\ Total \in Nat
           /\ NoParts => Total = 0
           /\ parts # <<>> => Total - Behind \in Nat /\ Ahead <= Total - Behind /\ sizes[1] = Ahead
           /\ parts # <<>> => parts[1] = "head" /\ parts[Len(parts)] = "tail"
                              /\ sizes[Len(parts)] = Total /\ Len(parts) > 1
           /\ TwoParts => Total = Ahead + Behind /\ Len(parts) = 2
           /\ ThreeParts => /\ Len(parts) = 3 /\ parts[2] = "file"
                            /\ sizes[2] \in Nat /\ sizes[2] > Ahead /\ Total = sizes[2] + Behind
<1>1. CASE NoParts
    BY <1>1 DEF NoParts, TwoParts, ThreeParts, Total
<1>2. CASE TwoParts
    BY <1>2, Lengths DEF NoParts, TwoParts, ThreeParts, Total
<1>3. CASE ThreeParts
    BY <1>3, Lengths DEF NoParts, TwoParts, ThreeParts, Total
<1> QED BY <1>1, <1>2, <1>3 DEF Shape

LEMMA FramedIsFramedBy == Framed <=> FramedBy(sent \o buf, Total)
BY DEF Framed, FramedBy, Belongs, Ahead, Behind

\* One turn of Read that adds the bytes m, each of which belongs where it comes.
LEMMA ReadKeepsFrame ==
    ASSUME StreamTypes, Place, Framed, Total \in Nat,
           NEW m \in Seq(Byte), sent' = sent, buf' = buf \o m, sizes' = sizes,
           \A k \in 1..Len(m) : Belongs(m[k], Total, pos + k)
    PROVE  Framed' /\ Len(sent') + Len(buf') = pos + Len(m) /\ buf' \in Seq(Byte)
<1>1. pos \in Nat /\ pos = Len(sent) + Len(buf) /\ sent \in Seq(Byte) /\ buf \in Seq(Byte)
    BY DEF StreamTypes, Place
<1>2. FramedBy(sent \o (buf \o m), Total)
    BY <1>1, FramedIsFramedBy, FrameGrows
<1>3. Framed' <=> FramedBy(sent \o (buf \o m), Total)
    BY DEF Framed, FramedBy, Belongs, Ahead, Behind, Total
<1>4. Len(buf \o m) = Len(buf) + Len(m) /\ buf \o m \in Seq(Byte)
    BY <1>1, ConcatProperties
<1>5. Len(sent) \in Nat /\ Len(buf) \in Nat /\ Len(m) \in Nat
    BY <1>1, LenProperties
<1>6. Len(sent) + Len(buf \o m) = pos + Len(m)
    BY <1>1, <1>4, <1>5
<1> QED BY <1>2, <1>3, <1>4, <1>6

\* What is left to show of a turn of Read.
LEMMA Together ==
    ASSUME StreamInv, UNCHANGED <<file, parts, sizes, want, sent>>,
           Framed', Len(sent') + Len(buf') = pos', buf' \in Seq(Byte),
           pos' \in Nat, cur' \in Nat \ {0}, offset' \in [Part -> Nat],
           InHead' \/ InFile' \/ InTail' \/ AtEnd'
    PROVE  StreamInv'
<1>1. Shape'
    BY DEF StreamInv, Shape, NoParts, TwoParts, ThreeParts
<1>2. StreamTypes'
    BY DEF StreamInv, StreamTypes
<1>3. Place'
    BY DEF Place
<1> QED BY <1>1, <1>2, <1>3 DEF StreamInv

\* Read in the first part: the text of the preamble, and no padding.
LEMMA HeadGives ==
    ASSUME StreamInv, ReadPart, InHead
    PROVE  /\ Got \in Seq(Byte) /\ Len(Got) \in Nat /\ Len(Got) > 0 /\ Len(Got) <= Ahead - pos
           /\ \A k \in 1..Len(Got) : pos + k <= Ahead /\ Got[k] = Preamble[pos + k]
           /\ Got # <<>>
           /\ buf' = buf \o Got /\ pos' = pos + Len(Got) /\ sent' = sent
           /\ UNCHANGED <<file, parts, sizes, want>>
<1> USE DEF StreamInv
<1> DEFINE n == Smaller(want - Len(buf), sizes[cur] - pos)
<1>1. /\ cur = 1 /\ parts # <<>> /\ parts[cur] = "head" /\ sizes[cur] = Ahead
      /\ offset["head"] = pos /\ pos < Ahead /\ pos \in Nat /\ Ahead \in Nat
    BY TotalOfShape, Lengths DEF InHead, StreamTypes
<1>2. n \in Nat /\ n > 0 /\ n <= Ahead - pos
    <2>1. want \in Nat /\ Len(buf) \in Nat /\ want - Len(buf) > 0
        BY LenProperties DEF StreamTypes, ReadPart, Reading
    <2> QED BY <1>1, <2>1 DEF Smaller
<1>3. Got = SubSeq(Preamble, pos + 1, Smaller(pos + n, Len(Preamble)))
    BY <1>1 DEF Got, Read, ReadText, Text
<1> HIDE DEF n
<1>4. /\ Got \in Seq(Byte) /\ Len(Got) \in Nat /\ Len(Got) > 0 /\ Len(Got) <= Ahead - pos
      /\ \A k \in 1..Len(Got) : pos + k <= Ahead /\ Got[k] = Preamble[pos + k]
    <2>1. Preamble \in Seq(Byte)
        BY StreamAssumption
    <2>2. Got \in Seq(Byte) /\ Len(Got) <= n /\ Len(Got) > 0
          /\ \A k \in 1..Len(Got) : pos + k <= Ahead /\ Got[k] = Preamble[pos + k]
        BY <1>1, <1>2, <1>3, <2>1, Piece DEF Ahead
    <2> QED BY <1>1, <1>2, <2>2, LenProperties
<1>5. Got # <<>>
    BY <1>4
<1>6. /\ buf' = buf \o Got /\ pos' = pos + Len(Got) /\ sent' = sent
      /\ UNCHANGED <<file, parts, sizes, want>>
    BY <1>5 DEF ReadPart
<1> QED BY <1>4, <1>5, <1>6

LEMMA ReadInHead ==
    ASSUME StreamInv, ReadPart, InHead
    PROVE  StreamInv'
<1> USE DEF StreamInv
<1>1. /\ cur = 1 /\ parts # <<>> /\ parts[cur] = "head" /\ sizes[cur] = Ahead
      /\ offset["head"] = pos /\ pos < Ahead /\ pos \in Nat /\ Ahead \in Nat
      /\ Total \in Nat /\ Ahead <= Total - Behind /\ Behind \in Nat /\ Len(parts) > 1
    BY TotalOfShape, Lengths DEF InHead, StreamTypes
<1>4. /\ Got \in Seq(Byte) /\ Len(Got) \in Nat /\ Len(Got) > 0 /\ Len(Got) <= Ahead - pos
      /\ \A k \in 1..Len(Got) : pos + k <= Ahead /\ Got[k] = Preamble[pos + k]
    BY HeadGives
<1>5. Got # <<>>
    BY HeadGives
<1>6. \A k \in 1..Len(Got) : Belongs(Got[k], Total, pos + k)
    BY <1>1, <1>4 DEF Belongs
<1>7. /\ buf' = buf \o Got /\ pos' = pos + Len(Got) /\ sent' = sent
      /\ UNCHANGED <<file, parts, sizes, want>>
    BY HeadGives
<1>8. Framed' /\ Len(sent') + Len(buf') = pos' /\ buf' \in Seq(Byte)
    BY <1>1, <1>4, <1>6, <1>7, ReadKeepsFrame
<1>9. pos' \in Nat /\ pos' <= Ahead
    BY <1>1, <1>4, <1>7
<1> DEFINE read == [offset EXCEPT !["head"] = @ + Len(Got)]
<1>10. /\ offset \in [Part -> Nat] /\ read \in [Part -> Nat]
       /\ read["head"] = pos + Len(Got)
    BY <1>1, <1>4 DEF StreamTypes, Part
<1>11. Total' = Total /\ Shape'
    BY <1>7 DEF Total, Shape, NoParts, TwoParts, ThreeParts
<1>12. CASE pos' >= Ahead
    <2>1. cur' = 2 /\ offset' = [read EXCEPT ![parts[2]] = 0]
        BY <1>1, <1>5, <1>7, <1>12 DEF ReadPart, NextRewound, Start
    <2>2. parts[2] \in {"file", "tail"} /\ offset' \in [Part -> Nat] /\ offset'[parts[2]] = 0
        <3>1. parts[2] \in {"file", "tail"}
            BY <1>1, TotalOfShape DEF Shape, NoParts, TwoParts, ThreeParts
        <3> QED BY <1>10, <2>1, <3>1 DEF Part
    <2>3. pos' = Ahead
        BY <1>1, <1>9, <1>12
    <2>4. CASE TwoParts
        <3>1. InTail'
            <4>1. /\ parts' = parts /\ parts # <<>> /\ Len(parts) = 2 /\ parts[2] = "tail"
                  /\ Total' = Total /\ Total = Ahead + Behind /\ Behind > 0
                BY <1>1, <1>7, <1>11, <2>4, TotalOfShape, Lengths DEF TwoParts
            <4>2. /\ Total' - Behind = pos' /\ pos' < Total' /\ offset'["tail"] = 0
                  /\ Total' - Behind <= pos' /\ pos' - (Total' - Behind) = 0
                BY <1>1, <2>2, <2>3, <4>1
            <4> QED BY <2>1, <4>1, <4>2 DEF InTail, Behind
        <3> QED BY <1>7, <1>8, <1>9, <2>1, <2>2, <3>1, Together
    <2>5. CASE ThreeParts
        <3>1. InFile'
            BY <1>7, <2>1, <2>3, <2>5, <1>9, TotalOfShape DEF InFile, ThreeParts
        <3> QED BY <1>7, <1>8, <1>9, <2>1, <2>2, <3>1, Together
    <2> QED BY <1>1, <2>4, <2>5 DEF Shape, NoParts
<1>13. CASE ~(pos' >= Ahead)
    <2>1. cur' = 1 /\ offset' = read
        BY <1>1, <1>5, <1>7, <1>13 DEF ReadPart
    <2>2. InHead'
        BY <1>1, <1>7, <1>9, <1>10, <1>13, <2>1 DEF InHead
    <2> QED BY <1>7, <1>8, <1>9, <1>10, <2>1, <2>2, Together
<1> QED BY <1>12, <1>13

\* Read in the file: whatever it holds by now, or zeros, and never beyond its place.
LEMMA FileGives ==
    ASSUME StreamInv, ReadPart, InFile
    PROVE  \E n \in Nat :
              /\ n > 0 /\ n <= sizes[2] - pos
              /\ Got = SubSeq(file, offset["file"] + 1, Smaller(offset["file"] + n, Len(file)))
<1> USE DEF StreamInv
<1> DEFINE n == Smaller(want - Len(buf), sizes[cur] - pos)
<1>1. /\ cur = 2 /\ parts[cur] = "file" /\ sizes[2] \in Nat /\ pos < sizes[2] /\ pos \in Nat
    BY TotalOfShape DEF InFile, StreamTypes, ThreeParts
<1>2. n \in Nat /\ n > 0 /\ n <= sizes[2] - pos
    <2>1. want \in Nat /\ Len(buf) \in Nat /\ want - Len(buf) > 0
        BY LenProperties DEF StreamTypes, ReadPart, Reading
    <2> QED BY <1>1, <2>1 DEF Smaller
<1>3. Got = SubSeq(file, offset["file"] + 1, Smaller(offset["file"] + n, Len(file)))
    BY <1>1 DEF Got, Read, ReadText, Text
<1> HIDE DEF n
<1> QED BY <1>2, <1>3

LEMMA ReadInFile ==
    ASSUME StreamInv, ReadPart, InFile
    PROVE  StreamInv'
<1> USE DEF StreamInv
<1> DEFINE m == IF Got = <<>> THEN Padding ELSE Got
<1>1. /\ cur = 2 /\ parts[cur] = "file" /\ Len(parts) = 3 /\ ThreeParts
      /\ sizes[2] \in Nat /\ Ahead <= pos /\ pos < sizes[2] /\ pos \in Nat /\ Ahead \in Nat
      /\ Total \in Nat /\ Total = sizes[2] + Behind /\ Behind \in Nat /\ Behind > 0
      /\ parts[3] = "tail"
    BY TotalOfShape, Lengths DEF InFile, StreamTypes, ThreeParts
<1>2. PICK n \in Nat :
         /\ n > 0 /\ n <= sizes[2] - pos
         /\ Got = SubSeq(file, offset["file"] + 1, Smaller(offset["file"] + n, Len(file)))
    BY FileGives
<1>3. offset \in [Part -> Nat] /\ offset["file"] \in Nat
    BY DEF StreamTypes, Part
<1>5. Got \in Seq(Byte) /\ Len(Got) \in Nat /\ Len(Got) <= sizes[2] - pos
    <2>1. file \in Seq(Byte)
        BY DEF StreamTypes
    <2>2. Got = SubSeq(file, offset["file"] + 1, Smaller(offset["file"] + n, Len(file)))
        BY <1>2
    <2>3. Got \in Seq(Byte) /\ Len(Got) <= n
        BY <1>3, <2>1, <2>2, Piece
    <2>4. n <= sizes[2] - pos
        BY <1>2
    <2> QED BY <1>1, <2>3, <2>4, LenProperties
<1>6. Padding \in Seq(Byte) /\ Len(Padding) = sizes[2] - pos
    <2>1. sizes[2] - pos \in Nat /\ Padding = [i \in 1..(sizes[2] - pos) |-> Zero]
        BY <1>1 DEF Padding
    <2> QED BY <2>1, StreamAssumption, ZerosAreBytes
<1>7. /\ m \in Seq(Byte) /\ Len(m) \in Nat /\ Len(m) <= sizes[2] - pos
      /\ pos' = pos + Len(m) /\ buf' = buf \o m /\ sent' = sent
      /\ UNCHANGED <<file, parts, sizes, want>>
    <2>1. CASE Got = <<>>
        <3>1. m = Padding /\ sizes[2] = pos + Len(Padding)
            BY <1>1, <1>6, <2>1
        <3>2. pos' = sizes[2] /\ buf' = buf \o Padding /\ sent' = sent
              /\ UNCHANGED <<file, parts, sizes, want>>
            BY <1>1, <2>1 DEF ReadPart
        <3>3. Len(Padding) \in Nat
            BY <1>1, <1>6
        <3> HIDE DEF m
        <3>4. m \in Seq(Byte) /\ Len(m) = sizes[2] - pos
            BY <1>6, <3>1
        <3>5. sizes[2] - pos \in Nat /\ sizes[2] = pos + (sizes[2] - pos)
            BY <1>1
        <3>6. Len(m) \in Nat /\ Len(m) <= sizes[2] - pos /\ pos' = pos + Len(m)
            BY <3>2, <3>4, <3>5
        <3> QED BY <3>1, <3>2, <3>4, <3>6
    <2>2. CASE Got # <<>>
        BY <1>5, <2>2 DEF ReadPart
    <2> QED BY <2>1, <2>2
<1> HIDE DEF m
<1>8. \A k \in 1..Len(m) : Belongs(m[k], Total, pos + k)
    <2> SUFFICES ASSUME NEW k \in 1..Len(m) PROVE Belongs(m[k], Total, pos + k)
        OBVIOUS
    <2>1. k \in Nat /\ k > 0 /\ k <= sizes[2] - pos
        BY <1>1, <1>7, SMTT(30)
    <2>2. ~(pos + k <= Ahead) /\ ~(pos + k > Total - Behind)
        BY <1>1, <2>1, SMTT(30)
    <2> QED BY <2>2 DEF Belongs
<1>9. Framed' /\ Len(sent') + Len(buf') = pos' /\ buf' \in Seq(Byte)
    BY <1>1, <1>7, <1>8, ReadKeepsFrame
<1>10. Total' = Total /\ Shape' /\ ThreeParts'
    BY <1>1, <1>7 DEF Total, Shape, ThreeParts
<1> DEFINE read == [offset EXCEPT !["file"] = @ + Len(Got)]
<1>11. read \in [Part -> Nat] /\ pos' \in Nat /\ pos' <= sizes[2] /\ pos <= pos'
    <2>1. read \in [Part -> Nat]
        BY <1>3, <1>5 DEF Part
    <2>2. pos' \in Nat /\ pos' <= sizes[2] /\ pos <= pos'
        BY <1>1, <1>7, SMTT(30)
    <2> QED BY <2>1, <2>2
<1>12. CASE pos' >= sizes[2]
    <2>1. cur' = 3 /\ offset' = [read EXCEPT !["tail"] = 0]
        <3>1. ReadPart => cur' = (IF pos' >= sizes[cur] THEN cur + 1 ELSE cur)
                          /\ (pos' >= sizes[cur] => offset' = NextRewound(read))
            BY <1>1 DEF ReadPart
        <3> QED BY <1>1, <1>12, <3>1 DEF NextRewound, Start
    <2>2. offset' \in [Part -> Nat] /\ offset'["tail"] = 0
        BY <1>11, <2>1 DEF Part
    <2>3. InTail'
        BY <1>1, <1>7, <1>10, <1>11, <1>12, <2>1, <2>2, SMTT(30) DEF InTail, ThreeParts
    <2> QED BY <1>7, <1>9, <1>11, <2>1, <2>2, <2>3, Together
<1>13. CASE ~(pos' >= sizes[2])
    <2>1. cur' = 2 /\ offset' = read
        BY <1>1, <1>13 DEF ReadPart
    <2>2. InFile'
        BY <1>1, <1>7, <1>10, <1>11, <1>13, <2>1 DEF InFile
    <2> QED BY <1>7, <1>9, <1>11, <2>1, <2>2, Together
<1> QED BY <1>12, <1>13

\* Read in the last part: the text of the epilogue, and no padding.
LEMMA TailGives ==
    ASSUME StreamInv, ReadPart, InTail
    PROVE  /\ Got \in Seq(Byte) /\ Len(Got) \in Nat /\ Len(Got) <= Total - pos /\ Got # <<>>
           /\ \A k \in 1..Len(Got) : Got[k] = Epilogue[pos - (Total - Behind) + k]
           /\ buf' = buf \o Got /\ pos' = pos + Len(Got) /\ sent' = sent
           /\ UNCHANGED <<file, parts, sizes, want>>
<1> USE DEF StreamInv
<1> DEFINE n == Smaller(want - Len(buf), sizes[cur] - pos)
           o == pos - (Total - Behind)
<1>1. /\ cur = Len(parts) /\ Len(parts) \in Nat \ {0} /\ parts[cur] = "tail" /\ sizes[cur] = Total
      /\ offset["tail"] = o /\ Total - Behind <= pos /\ pos < Total /\ pos \in Nat
      /\ Total \in Nat /\ Ahead \in Nat /\ Ahead <= Total - Behind /\ Behind \in Nat
      /\ parts # <<>>
    BY TotalOfShape, Lengths DEF InTail, StreamTypes
<1>2. n \in Nat /\ n > 0 /\ n <= Total - pos
    <2>1. want \in Nat /\ Len(buf) \in Nat /\ want - Len(buf) > 0
        BY LenProperties DEF StreamTypes, ReadPart, Reading
    <2> QED BY <1>1, <2>1 DEF Smaller
<1>3. Got = SubSeq(Epilogue, o + 1, Smaller(o + n, Len(Epilogue)))
    BY <1>1 DEF Got, Read, ReadText, Text
<1>4. o \in Nat /\ o < Behind
    BY <1>1
<1> HIDE DEF n, o
<1>5. /\ Got \in Seq(Byte) /\ Len(Got) > 0 /\ Len(Got) <= n
      /\ \A k \in 1..Len(Got) : o + k <= Behind /\ Got[k] = Epilogue[o + k]
    <2>1. Epilogue \in Seq(Byte)
        BY StreamAssumption
    <2> QED BY <1>2, <1>3, <1>4, <2>1, Piece DEF Behind
<1>6. Got # <<>> /\ Len(Got) \in Nat /\ Len(Got) <= Total - pos
    BY <1>1, <1>2, <1>5, LenProperties
<1>7. /\ buf' = buf \o Got /\ pos' = pos + Len(Got) /\ sent' = sent
      /\ UNCHANGED <<file, parts, sizes, want>>
    BY <1>6 DEF ReadPart
<1> QED BY <1>5, <1>6, <1>7 DEF o

LEMMA ReadInTail ==
    ASSUME StreamInv, ReadPart, InTail
    PROVE  StreamInv'
<1> USE DEF StreamInv
<1> DEFINE o == pos - (Total - Behind)
<1>1. /\ cur = Len(parts) /\ Len(parts) \in Nat \ {0} /\ parts[cur] = "tail" /\ sizes[cur] = Total
      /\ offset["tail"] = o /\ Total - Behind <= pos /\ pos < Total /\ pos \in Nat
      /\ Total \in Nat /\ Ahead \in Nat /\ Ahead <= Total - Behind /\ Behind \in Nat
      /\ parts # <<>>
    BY TotalOfShape, Lengths DEF InTail, StreamTypes
<1>4. o \in Nat
    BY <1>1
<1>5. Got \in Seq(Byte) /\ \A k \in 1..Len(Got) : Got[k] = Epilogue[o + k]
    BY TailGives
<1>6. Got # <<>> /\ Len(Got) \in Nat /\ Len(Got) <= Total - pos
    BY TailGives
<1>7. /\ buf' = buf \o Got /\ pos' = pos + Len(Got) /\ sent' = sent
      /\ UNCHANGED <<file, parts, sizes, want>>
    BY TailGives
<1> HIDE DEF o
<1>8. ASSUME NEW k \in 1..Len(Got)
      PROVE  Belongs(Got[k], Total, pos + k)
    <2>1. k \in Nat /\ k > 0 /\ k <= Total - pos
        BY <1>1, <1>6
    <2> DEFINE i == pos + k
    <2>2. i \in Nat /\ i > Ahead /\ i <= Total
        BY <1>1, <2>1
    <2>3. i - (Total - Behind) = o + k
        BY <1>1, <2>1 DEF o
    <2>4. Got[k] = Epilogue[o + k]
        BY <1>5
    <2>5. Total \in Nat
        BY <1>1
    <2> HIDE DEF i
    <2>6. Got[k] = Epilogue[i - (Total - Behind)]
        BY <2>3, <2>4, Zenon
    <2>7. Belongs(Got[k], Total, i)
        BY <2>2, <2>5, <2>6, BelongsToTheEnd
    <2> QED BY <2>7 DEF i
<1>9. Framed' /\ Len(sent') + Len(buf') = pos' /\ buf' \in Seq(Byte)
    BY <1>1, <1>5, <1>7, <1>8, ReadKeepsFrame
<1>10. Total' = Total /\ pos' \in Nat /\ pos' <= Total /\ pos <= pos'
    BY <1>1, <1>6, <1>7, SMTT(30) DEF Total
<1> DEFINE read == [offset EXCEPT !["tail"] = @ + Len(Got)]
<1>11. read \in [Part -> Nat] /\ read["tail"] = o + Len(Got)
    BY <1>1, <1>6 DEF StreamTypes, Part
<1>12. ReadPart => /\ cur' = (IF pos' >= sizes[cur] THEN cur + 1 ELSE cur)
                   /\ offset' = (IF pos' >= sizes[cur] THEN NextRewound(read) ELSE read)
    BY <1>1, <1>6 DEF ReadPart
<1>13. CASE pos' >= Total
    <2>1. cur' = cur + 1 /\ offset' = read
        BY <1>1, <1>12, <1>13 DEF NextRewound, Start
    <2>2. AtEnd'
        BY <1>1, <1>7, <1>10, <1>13, <2>1 DEF AtEnd
    <2> QED BY <1>1, <1>7, <1>9, <1>10, <1>11, <2>1, <2>2, Together
<1>14. CASE ~(pos' >= Total)
    <2>1. cur' = cur /\ offset' = read
        BY <1>1, <1>12, <1>14
    <2>2. InTail'
        <3>1. o + Len(Got) = pos' - (Total - Behind)
            BY <1>1, <1>6, <1>7 DEF o
        <3> QED BY <1>1, <1>7, <1>10, <1>11, <1>14, <2>1, <3>1 DEF InTail, Behind
    <2> QED BY <1>1, <1>7, <1>9, <1>10, <1>11, <2>1, <2>2, Together
<1> QED BY <1>13, <1>14

LEMMA ReadPartKeeps ==
    ASSUME StreamInv, ReadPart
    PROVE  StreamInv'
<1>1. cur <= Len(parts)
    BY DEF ReadPart, Reading
<1>2. ~AtEnd
    BY <1>1, TotalOfShape DEF AtEnd, StreamInv, StreamTypes, Shape, NoParts
<1> QED BY <1>2, ReadInHead, ReadInFile, ReadInTail DEF StreamInv, Place

-------------------------------------------------------------------------------
(* The steps.                                                              *)

LEMMA NothingSent == Len(<<>> \o <<>>) = 0 /\ <<>> \in Seq(Byte) /\ Len(<<>>) = 0
BY ConcatEmptySeq, EmptySeq

\* Nothing has been sent, and the stream stands at its beginning.
LEMMA FreshStream ==
    ASSUME StreamTypes', Shape', pos' = 0, cur' = 1, offset'["head"] = 0,
           sent' = <<>>, buf' = <<>>
    PROVE  StreamInv'
<1>1. Framed'
    BY NothingSent DEF Framed
<1>2. Len(sent') + Len(buf') = pos'
    BY NothingSent
<1>3. CASE NoParts'
    <2>1. AtEnd'
        BY <1>3 DEF NoParts, AtEnd, Total
    <2> QED BY <1>1, <1>2, <2>1 DEF StreamInv, Place
<1>4. CASE TwoParts' \/ ThreeParts'
    <2>1. InHead'
        BY <1>4, Lengths, SMTT(30) DEF InHead, TwoParts, ThreeParts, Ahead
    <2> QED BY <1>1, <1>2, <2>1 DEF StreamInv, Place
<1> QED BY <1>3, <1>4 DEF Shape

LEMMA BuildKeeps ==
    ASSUME StreamInv, Build
    PROVE  StreamInv'
<1>1. StreamTypes'
    <2>1. /\ SizeOf("head") \in Nat /\ SizeOf("file") \in Nat /\ SizeOf("tail") \in Nat
        BY Lengths DEF StreamInv, StreamTypes, SizeOf, Text, Ahead, Behind
    <2> QED BY <2>1, NothingSent DEF StreamInv, StreamTypes, Build, Part
<1>2. CASE file = <<>>
    <2>1. TwoParts'
        <3>1. SizeOf("file") = 0 /\ SizeOf("head") = Len(Preamble) /\ SizeOf("tail") = Len(Epilogue)
            BY <1>2 DEF SizeOf, Text
        <3> QED BY <3>1 DEF Build, TwoParts, Ahead, Behind
    <2> QED BY <1>1, <2>1, FreshStream DEF Build, Shape, Part
<1>3. CASE file # <<>>
    <2>1. Len(file) \in Nat \ {0}
        BY <1>3, EmptySeq DEF StreamInv, StreamTypes
    <2> DEFINE m == Ahead + Len(file)
    <2>2. m \in Nat /\ m > Ahead
        BY <2>1, Lengths
    <2>3. parts' = <<"head", "file", "tail">> /\ sizes' = <<Ahead, m, m + Behind>>
        <3>1. SizeOf("file") = Len(file) /\ SizeOf("head") = Ahead /\ SizeOf("tail") = Behind
            BY DEF SizeOf, Text, Ahead, Behind
        <3>2. SizeOf("file") # 0
            BY <3>1, <2>1
        <3> QED BY <3>1, <3>2 DEF Build
    <2> HIDE DEF m
    <2>4. ThreeParts'
        BY <2>2, <2>3 DEF ThreeParts, Ahead, Behind
    <2> QED BY <1>1, <2>4, FreshStream DEF Build, Shape, Part
<1> QED BY <1>2, <1>3

LEMMA NoStreamKeeps ==
    ASSUME StreamInv, NoStream
    PROVE  StreamInv'
<1>1. StreamTypes'
    BY NothingSent DEF StreamInv, StreamTypes, NoStream, Part
<1>2. NoParts'
    BY DEF NoStream, NoParts
<1> QED BY <1>1, <1>2, FreshStream DEF NoStream, Shape, Part

LEMMA RewindKeeps ==
    ASSUME StreamInv, Rewind
    PROVE  StreamInv'
<1>1. StreamTypes'
    <2>1. offset \in [Part -> Nat] /\ offset' = [offset EXCEPT ![parts[1]] = 0]
        BY DEF StreamInv, StreamTypes, Rewind, Start
    <2>2. offset' \in [Part -> Nat]
        BY <2>1
    <2> QED BY <2>2, NothingSent DEF StreamInv, StreamTypes, Rewind, Start
<1>2. Shape'
    BY DEF StreamInv, Shape, NoParts, TwoParts, ThreeParts, Rewind, Start
<1>3. CASE NoParts
    <2>1. AtEnd' /\ Framed' /\ Len(sent') + Len(buf') = pos'
        BY <1>3, NothingSent DEF NoParts, AtEnd, Total, Rewind, Start, Framed
    <2> QED BY <1>1, <1>2, <2>1 DEF StreamInv, Place
<1>4. CASE TwoParts \/ ThreeParts
    <2>1. parts[1] = "head"
        BY <1>4 DEF TwoParts, ThreeParts
    <2>2. offset'["head"] = 0
        BY <2>1 DEF Rewind, Start, StreamInv, StreamTypes, Part
    <2> QED BY <1>1, <1>2, <2>2, FreshStream DEF Rewind, Start
<1> QED BY <1>3, <1>4 DEF StreamInv, Shape

\* The bytes read pass from the buffer to libcurl.
LEMMA GiveBytesKeeps ==
    ASSUME StreamInv, GiveBytes
    PROVE  StreamInv'
<1>1. /\ sent \in Seq(Byte) /\ buf \in Seq(Byte) /\ sent' = sent \o buf /\ buf' = <<>>
      /\ want' = 0 /\ UNCHANGED <<file, writes, parts, sizes, cur, pos, offset>>
    BY DEF StreamInv, StreamTypes, GiveBytes, stream
<1>2. sent' \in Seq(Byte) /\ sent' \o buf' = sent \o buf /\ Len(sent') = Len(sent) + Len(buf)
      /\ buf' \in Seq(Byte) /\ Len(buf') = 0
    BY <1>1, ConcatProperties, ConcatEmptySeq, NothingSent
<1>3. Len(sent') + Len(buf') = pos'
    BY <1>1, <1>2, LenProperties DEF StreamInv, Place, StreamTypes
<1>4. Total' = Total
    BY <1>1 DEF Total
<1>5. Framed'
    BY <1>2, <1>4 DEF StreamInv, Framed
<1>6. StreamTypes'
    BY <1>1, <1>2 DEF StreamInv, StreamTypes
<1>7. Shape' /\ (InHead' \/ InFile' \/ InTail' \/ AtEnd')
    <2>1. Shape'
        BY <1>1 DEF StreamInv, Shape, NoParts, TwoParts, ThreeParts
    <2>2. (InHead => InHead') /\ (InFile => InFile') /\ (InTail => InTail') /\ (AtEnd => AtEnd')
        BY <1>1, <1>4 DEF InHead, InFile, InTail, AtEnd, ThreeParts
    <2> QED BY <2>1, <2>2 DEF StreamInv, Place
<1> QED BY <1>3, <1>5, <1>6, <1>7 DEF StreamInv, Place

\* Steps that leave the stream and what was read alone.
LEMMA OthersKeep ==
    ASSUME StreamInv, file' \in Seq(Byte), want' \in Nat,
           UNCHANGED <<parts, sizes, cur, pos, offset, buf, sent>>
    PROVE  StreamInv'
<1>1. StreamTypes' /\ Shape' /\ Framed'
    BY DEF StreamInv, StreamTypes, Shape, NoParts, TwoParts, ThreeParts, Framed, Total
<1>2. (InHead => InHead') /\ (InFile => InFile') /\ (InTail => InTail') /\ (AtEnd => AtEnd')
    BY DEF InHead, InFile, InTail, AtEnd, ThreeParts, Total
<1> QED BY <1>1, <1>2 DEF StreamInv, Place

LEMMA SendKeeps ==
    ASSUME StreamInv, Send
    PROVE  StreamInv'
<1>1. CASE \E w \in Windows : Ask(w)
    BY <1>1, OthersKeep, StreamAssumption DEF Ask, StreamInv, StreamTypes, stream
<1> QED BY <1>1, ReadPartKeeps, GiveBytesKeeps DEF Send

LEMMA StreamStep ==
    ASSUME StreamInv, [Next]_xvars
    PROVE  StreamInv'
<1> USE DEF StreamInv
<1>1. CASE UNCHANGED svars
    BY <1>1, OthersKeep DEF svars, StreamTypes
<1>2. ASSUME NEW c \in Call, Begin(c)
      PROVE  StreamInv'
    BY <1>2, BuildKeeps, NoStreamKeeps DEF Begin
<1>3. CASE Attempt
    BY <1>1, <1>3, RewindKeeps DEF Attempt
<1>4. CASE Send
    BY <1>4, SendKeeps
<1>5. CASE Rewrite
    BY <1>5, OthersKeep, StreamAssumption
    DEF Rewrite, WriteFile, stream, StreamTypes
<1>6. CASE Overrun \/ Unauthorized \/ PreconditionFailed \/ CarryOut \/ Receive \/ Received
           \/ Check \/ Refresh \/ Troubles \/ OtherEdit
    BY <1>1, <1>6
    DEF Overrun, Unauthorized, PreconditionFailed, CarryOut, Answer, Receive, Received, Check,
        Refresh, Troubles, ConnectionLost, Refuse, Expire, RefreshFails, OtherEdit
<1>7. CASE UNCHANGED xvars
    BY <1>1, <1>7 DEF xvars
<1> QED BY <1>2, <1>3, <1>4, <1>5, <1>6, <1>7 DEF Next, Work

LEMMA StreamInit == Init => StreamInv
<1> SUFFICES ASSUME Init PROVE StreamInv
    OBVIOUS
<1>1. StreamTypes
    BY StreamAssumption, NothingSent DEF Init, SInit, StreamTypes, Part
<1>2. NoParts /\ AtEnd /\ Framed /\ Len(sent) + Len(buf) = pos
    BY NothingSent DEF Init, SInit, NoParts, AtEnd, Total, Framed
<1> QED BY <1>1, <1>2 DEF StreamInv, Shape, Place

\* What an attempt has sent stands in the frame of its message: the preamble and the
\* epilogue are where the announced size says, whatever becomes of the file meanwhile
\* and wherever the attempt before was cut off (ConcatStream::Read).
THEOREM UploadsAreFramed == Spec => []Framed
<1>1. Init => StreamInv
    BY StreamInit
<1>2. StreamInv /\ [Next]_xvars => StreamInv'
    BY StreamStep
<1>3. StreamInv => Framed
    BY DEF StreamInv
<1> QED BY <1>1, <1>2, <1>3, PTL DEF Spec

-------------------------------------------------------------------------------
(* A file that nobody writes.                                              *)

\* The size announced is that of the file, the file is read where the position says, and
\* the bytes that stand where the file belongs are its own.
FileBytes(body) ==
    \A i \in 1..Len(body) :
       i > Ahead /\ i <= Ahead + Len(file) => body[i] = file[i - Ahead]

Sized   == parts # <<>> => Total = Ahead + Len(file) + Behind
InOrder == InFile => offset["file"] = pos - Ahead

Whole    == Sized /\ InOrder /\ FileBytes(sent \o buf)
WholeInv == writes \in Nat /\ (writes = 0 => Whole)

\* Sizes are fixed as long as the file is.
LEMMA SizedStays ==
    ASSUME Sized, UNCHANGED <<file, parts, sizes>>
    PROVE  Sized'
BY DEF Sized, Total

\* Read adds bytes: those before stay, those of the file come in its order.
LEMMA FileGrows ==
    ASSUME NEW s \in Seq(Byte), NEW b \in Seq(Byte), NEW m \in Seq(Byte),
           file \in Seq(Byte), FileBytes(s \o b), NEW p \in Nat, p = Len(s) + Len(b),
           \A k \in 1..Len(m) :
              p + k > Ahead /\ p + k <= Ahead + Len(file) => m[k] = file[p + k - Ahead]
    PROVE  FileBytes(s \o (b \o m))
<1> DEFINE new == s \o (b \o m)
           old == s \o b
<1>1. /\ Len(new) = p + Len(m) /\ Len(old) = p
      /\ \A i \in 1..(p + Len(m)) : new[i] = IF i <= p THEN old[i] ELSE m[i - p]
    BY Grown
<1>2. Len(m) \in Nat /\ Ahead \in Nat /\ Len(file) \in Nat
    BY LenProperties, Lengths
<1> SUFFICES ASSUME NEW i \in 1..(p + Len(m)), i > Ahead, i <= Ahead + Len(file)
             PROVE  new[i] = file[i - Ahead]
    BY <1>1 DEF FileBytes
<1>3. CASE i <= p
    <2>1. i \in 1..Len(old) /\ new[i] = old[i]
        BY <1>1, <1>2, <1>3
    <2> QED BY <2>1 DEF FileBytes
<1>4. CASE i > p
    <2>1. i - p \in 1..Len(m) /\ p + (i - p) = i /\ new[i] = m[i - p]
        <3>1. i - p \in 1..Len(m) /\ p + (i - p) = i
            BY <1>2, <1>4
        <3>2. ~(i <= p)
            BY <1>2, <1>4
        <3>3. new[i] = IF i <= p THEN old[i] ELSE m[i - p]
            BY <1>1
        <3> QED BY <3>1, <3>2, <3>3
    <2>2. m[i - p] = file[i - Ahead]
        <3>1. \A k \in 1..Len(m) :
                 p + k > Ahead /\ p + k <= Ahead + Len(file) => m[k] = file[p + k - Ahead]
            OBVIOUS
        <3>2. p + (i - p) > Ahead /\ p + (i - p) <= Ahead + Len(file)
            BY <2>1
        <3> DEFINE k == i - p
        <3>3. k \in 1..Len(m) /\ p + k > Ahead /\ p + k <= Ahead + Len(file) /\ p + k = i
            BY <2>1, <3>2
        <3> HIDE DEF k
        <3>4. m[k] = file[p + k - Ahead]
            BY <3>1, <3>3
        <3>5. p + k - Ahead = i - Ahead
            BY <1>2, <3>3
        <3>6. m[k] = file[i - Ahead]
            BY <3>4, <3>5, Zenon
        <3> QED BY <3>6 DEF k
    <2> QED BY <2>1, <2>2
<1> QED BY <1>3, <1>4

\* A turn of Read that adds m.
LEMMA ReadKeepsWhole ==
    ASSUME StreamInv, Whole, NEW m \in Seq(Byte), buf' = buf \o m,
           UNCHANGED <<sent, file, parts, sizes>>, InOrder',
           \A k \in 1..Len(m) :
              pos + k > Ahead /\ pos + k <= Ahead + Len(file) => m[k] = file[pos + k - Ahead]
    PROVE  Whole'
<1>1. FileBytes(sent \o (buf \o m))
    BY FileGrows DEF StreamInv, StreamTypes, Place, Whole
<1>2. FileBytes(sent \o buf)' <=> FileBytes(sent \o (buf \o m))
    BY DEF FileBytes
<1> QED BY <1>1, <1>2, SizedStays DEF Whole

LEMMA HeadKeepsWhole ==
    ASSUME StreamInv, Whole, ReadPart, InHead
    PROVE  Whole'
<1>1. /\ cur = 1 /\ parts # <<>> /\ parts[cur] = "head" /\ sizes[cur] = Ahead /\ Len(parts) > 1
      /\ offset["head"] = pos /\ pos < Ahead /\ pos \in Nat /\ Ahead \in Nat
    BY TotalOfShape, Lengths DEF StreamInv, InHead, StreamTypes
<1>2. /\ Got \in Seq(Byte) /\ Len(Got) \in Nat /\ Len(Got) <= Ahead - pos /\ Got # <<>>
      /\ buf' = buf \o Got /\ pos' = pos + Len(Got) /\ UNCHANGED <<sent, file, parts, sizes>>
    BY HeadGives
<1>3. \A k \in 1..Len(Got) : ~(pos + k > Ahead)
    BY <1>1, <1>2
<1>4. InOrder'
    <2> SUFFICES ASSUME InFile' PROVE offset'["file"] = pos' - Ahead
        BY DEF InOrder, Ahead
    <2>1. cur' = 2 /\ pos' >= Ahead /\ parts[2] = "file"
        BY <1>2 DEF InFile, ThreeParts, Ahead
    <2>2. pos' = Ahead
        BY <1>1, <1>2, <2>1
    <2> DEFINE read == [offset EXCEPT !["head"] = @ + Len(Got)]
    <2>3. offset' = [read EXCEPT !["file"] = 0]
        BY <1>1, <1>2, <2>1, <2>2 DEF ReadPart, NextRewound, Start
    <2>4. read \in [Part -> Nat]
        BY <1>1, <1>2 DEF StreamInv, StreamTypes, Part
    <2> HIDE DEF read
    <2>5. offset'["file"] = 0
        BY <2>3, <2>4 DEF Part
    <2> QED BY <1>1, <2>2, <2>5
<1> QED BY <1>2, <1>3, <1>4, ReadKeepsWhole

LEMMA FileKeepsWhole ==
    ASSUME StreamInv, Whole, ReadPart, InFile
    PROVE  Whole'
<1> DEFINE o == offset["file"]
<1>1. /\ cur = 2 /\ parts # <<>> /\ parts[cur] = "file" /\ Len(parts) = 3
      /\ sizes[2] \in Nat /\ Total = sizes[2] + Behind /\ Behind \in Nat
      /\ pos \in Nat /\ Ahead \in Nat /\ Ahead <= pos /\ pos < sizes[2]
    BY TotalOfShape, Lengths DEF StreamInv, StreamTypes, InFile, ThreeParts
<1>2. file \in Seq(Byte) /\ Len(file) \in Nat /\ offset \in [Part -> Nat]
    BY LenProperties DEF StreamInv, StreamTypes
<1>3. o = pos - Ahead /\ o \in Nat /\ sizes[2] = Ahead + Len(file) /\ o < Len(file)
    <2>1. Total = Ahead + Len(file) + Behind
        BY <1>1 DEF Whole, Sized
    <2>2. o = pos - Ahead
        BY DEF Whole, InOrder
    <2> HIDE DEF o
    <2> QED BY <1>1, <1>2, <2>1, <2>2
<1> HIDE DEF o
<1>4. PICK n \in Nat :
         n > 0 /\ n <= sizes[2] - pos /\ Got = SubSeq(file, o + 1, Smaller(o + n, Len(file)))
    BY FileGives DEF o
<1>5. /\ Got \in Seq(Byte) /\ Len(Got) <= n /\ Len(Got) > 0
      /\ \A k \in 1..Len(Got) : o + k <= Len(file) /\ Got[k] = file[o + k]
    <2>1. Got = SubSeq(file, o + 1, Smaller(o + n, Len(file))) /\ n > 0
        BY <1>4
    <2> QED BY <1>2, <1>3, <2>1, Piece
<1>6. Len(Got) \in Nat /\ Got # <<>>
    BY <1>5, LenProperties
<1>7. /\ buf' = buf \o Got /\ pos' = pos + Len(Got) /\ UNCHANGED <<sent, file, parts, sizes>>
    BY <1>6 DEF ReadPart
<1>8. ASSUME NEW k \in 1..Len(Got) PROVE Got[k] = file[pos + k - Ahead]
    <2>1. o + k = pos + k - Ahead
        BY <1>1, <1>3, <1>6
    <2>2. Got[k] = file[o + k]
        BY <1>5
    <2> QED BY <2>1, <2>2
<1>9. InOrder'
    <2> SUFFICES ASSUME InFile' PROVE offset'["file"] = pos' - Ahead
        BY DEF InOrder, Ahead
    <2> DEFINE read == [offset EXCEPT !["file"] = @ + Len(Got)]
    <2>1. cur' = 2
        BY DEF InFile
    <2>2. offset' = read
        BY <1>1, <1>6, <2>1 DEF ReadPart
    <2>3. read["file"] = o + Len(Got)
        BY <1>2, <1>6 DEF Part, o
    <2> HIDE DEF read
    <2> QED BY <1>1, <1>3, <1>6, <1>7, <2>2, <2>3
<1> QED BY <1>5, <1>7, <1>8, <1>9, ReadKeepsWhole

LEMMA TailKeepsWhole ==
    ASSUME StreamInv, Whole, ReadPart, InTail
    PROVE  Whole'
<1>1. /\ parts # <<>> /\ cur = Len(parts) /\ Len(parts) > 1 /\ Len(parts) \in Nat
      /\ Total \in Nat /\ Behind \in Nat /\ Total - Behind <= pos /\ pos \in Nat /\ Ahead \in Nat
    BY TotalOfShape, Lengths DEF StreamInv, StreamTypes, InTail
<1>2. Got \in Seq(Byte) /\ Len(Got) \in Nat /\ buf' = buf \o Got
      /\ UNCHANGED <<sent, file, parts, sizes>>
    BY TailGives
<1>3. Total - Behind = Ahead + Len(file)
    <2>1. Len(file) \in Nat /\ Total = Ahead + Len(file) + Behind
        BY <1>1, LenProperties DEF StreamInv, StreamTypes, Whole, Sized
    <2> QED BY <1>1, <2>1
<1>4. \A k \in 1..Len(Got) : ~(pos + k <= Ahead + Len(file))
    BY <1>1, <1>2, <1>3
<1>5. InOrder'
    <2>1. cur' \in {cur, cur + 1}
        <3>1. \E next \in BOOLEAN : cur' = IF next THEN cur + 1 ELSE cur
            BY DEF ReadPart
        <3> QED BY <3>1
    <2>2. ~InFile'
        <3> SUFFICES ASSUME InFile' PROVE FALSE
            OBVIOUS
        <3>1. cur' = 2 /\ parts' = <<"head", "file", "tail">>
            BY DEF InFile, ThreeParts
        <3>2. Len(parts) = 3
            BY <1>2, <3>1
        <3> QED BY <1>1, <2>1, <3>1, <3>2
    <2> QED BY <2>2 DEF InOrder
<1> QED BY <1>2, <1>4, <1>5, ReadKeepsWhole

LEMMA ReadPartKeepsWhole ==
    ASSUME StreamInv, Whole, ReadPart
    PROVE  Whole'
<1>1. cur <= Len(parts)
    BY DEF ReadPart, Reading
<1>2. ~AtEnd
    BY <1>1, TotalOfShape DEF AtEnd, StreamInv, StreamTypes, Shape, NoParts
<1> QED BY <1>2, HeadKeepsWhole, FileKeepsWhole, TailKeepsWhole DEF StreamInv, Place

\* A stream at its beginning has sent nothing.
LEMMA FreshIsWhole ==
    ASSUME Sized', cur' = 1, sent' = <<>>, buf' = <<>>
    PROVE  Whole'
<1>1. InOrder'
    BY DEF InOrder, InFile
<1>2. FileBytes(sent \o buf)'
    BY NothingSent DEF FileBytes
<1> QED BY <1>1, <1>2 DEF Whole

LEMMA BuildKeepsWhole ==
    ASSUME StreamInv, Build
    PROVE  Whole'
<1>1. file \in Seq(Byte) /\ Len(file) \in Nat
    BY LenProperties DEF StreamInv, StreamTypes
<1>2. SizeOf("file") = Len(file) /\ SizeOf("head") = Ahead /\ SizeOf("tail") = Behind
    BY DEF SizeOf, Text, Ahead, Behind
<1>3. Total' = Ahead + Len(file) + Behind
    BY <1>1, <1>2, Lengths DEF Build, Total
<1>4. file' = file /\ cur' = 1 /\ sent' = <<>> /\ buf' = <<>>
    BY DEF Build
<1>5. Sized'
    BY <1>3, <1>4 DEF Sized, Ahead, Behind
<1> QED BY <1>4, <1>5, FreshIsWhole

LEMMA WholeStep ==
    ASSUME StreamInv, WholeInv, [Next]_xvars
    PROVE  WholeInv'
<1>1. CASE UNCHANGED <<file, writes, parts, sizes, cur, pos, offset>>
           /\ sent' \o buf' = sent \o buf
    <2>1. Whole => Whole'
        <3> SUFFICES ASSUME Whole PROVE Whole'
            OBVIOUS
        <3>1. Sized'
            BY <1>1, SizedStays DEF Whole
        <3>2. InOrder'
            BY <1>1 DEF Whole, InOrder, InFile, ThreeParts
        <3>3. FileBytes(sent \o buf)'
            BY <1>1 DEF Whole, FileBytes
        <3> QED BY <3>1, <3>2, <3>3 DEF Whole
    <2> QED BY <1>1, <2>1 DEF WholeInv
<1>2. ASSUME NEW c \in Call, Begin(c)
      PROVE  WholeInv'
    <2>1. CASE Build
        BY <2>1, BuildKeepsWhole DEF Build, WholeInv
    <2>2. CASE NoStream
        <3>1. Sized'
            BY <2>2 DEF NoStream, Sized
        <3> QED BY <2>2, <3>1, FreshIsWhole DEF NoStream, WholeInv
    <2> QED BY <1>2, <2>1, <2>2 DEF Begin
<1>3. CASE Rewind
    <2>1. Sized => Sized'
        BY <1>3, SizedStays DEF Rewind
    <2> QED BY <1>3, <2>1, FreshIsWhole DEF Rewind, WholeInv, Whole
<1>4. CASE ReadPart
    BY <1>4, ReadPartKeepsWhole DEF ReadPart, WholeInv
<1>5. CASE GiveBytes
    <2>1. sent' \o buf' = sent \o buf
        <3>1. sent \o buf \in Seq(Byte)
            BY ConcatProperties DEF StreamInv, StreamTypes
        <3> QED BY <1>5, <3>1, ConcatEmptySeq DEF GiveBytes
    <2> QED BY <1>1, <1>5, <2>1 DEF GiveBytes, stream
<1>6. CASE Rewrite
    BY <1>6 DEF Rewrite, WriteFile, WholeInv
<1>7. CASE UNCHANGED svars \/ \E w \in Windows : Ask(w)
    BY <1>1, <1>7 DEF svars, Ask, stream
<1>8. CASE Attempt \/ Send
    BY <1>3, <1>4, <1>5, <1>7, <1>8 DEF Attempt, Send
<1>9. CASE Overrun \/ Unauthorized \/ PreconditionFailed \/ CarryOut \/ Receive \/ Received
           \/ Check \/ Refresh \/ Troubles \/ OtherEdit
    BY <1>7, <1>9
    DEF Overrun, Unauthorized, PreconditionFailed, CarryOut, Answer, Receive, Received, Check,
        Refresh, Troubles, ConnectionLost, Refuse, Expire, RefreshFails, OtherEdit
<1>10. CASE UNCHANGED xvars
    BY <1>7, <1>10 DEF xvars
<1> QED BY <1>2, <1>6, <1>8, <1>9, <1>10 DEF Next, Work

\* Head, file and tail where they belong: that is the message.
LEMMA WholeIsAll ==
    ASSUME StreamInv, Whole
    PROVE  LET body == sent \o buf
           IN body = SubSeq(Preamble \o file \o Epilogue, 1, Len(body))
<1> DEFINE body == sent \o buf
           all  == Preamble \o file \o Epilogue
           b    == Len(body)
<1>1. body \in Seq(Byte) /\ b = pos /\ b \in Nat
    BY ConcatProperties, LenProperties DEF StreamInv, StreamTypes, Place
<1>2. /\ Preamble \in Seq(Byte) /\ file \in Seq(Byte) /\ Epilogue \in Seq(Byte)
      /\ Ahead \in Nat /\ Len(file) \in Nat /\ Behind \in Nat
    BY StreamAssumption, Lengths, LenProperties DEF StreamInv, StreamTypes
<1>3. /\ all \in Seq(Byte) /\ Len(all) = Ahead + Len(file) + Behind
      /\ \A i \in 1..Ahead : all[i] = Preamble[i]
      /\ \A i \in (Ahead + 1)..(Ahead + Len(file)) : all[i] = file[i - Ahead]
      /\ \A i \in (Ahead + Len(file) + 1)..(Ahead + Len(file) + Behind) :
            all[i] = Epilogue[i - (Ahead + Len(file))]
    <2> DEFINE front == Preamble \o file
    <2>1. front \in Seq(Byte) /\ Len(front) = Ahead + Len(file)
          /\ \A i \in 1..(Ahead + Len(file)) : front[i] = IF i <= Ahead THEN Preamble[i] ELSE file[i - Ahead]
        BY <1>2, ConcatProperties DEF Ahead
    <2>2. all \in Seq(Byte) /\ Len(all) = Len(front) + Behind
          /\ \A i \in 1..(Len(front) + Behind) : all[i] = IF i <= Len(front) THEN front[i] ELSE Epilogue[i - Len(front)]
        BY <1>2, <2>1, ConcatProperties DEF Behind
    <2> HIDE DEF front, all
    <2>3. Len(all) = Ahead + Len(file) + Behind
        BY <1>2, <2>1, <2>2
    <2>4. ASSUME NEW i \in 1..Ahead PROVE all[i] = Preamble[i]
        BY <1>2, <2>1, <2>2
    <2>5. ASSUME NEW i \in (Ahead + 1)..(Ahead + Len(file)) PROVE all[i] = file[i - Ahead]
        BY <1>2, <2>1, <2>2
    <2>6. ASSUME NEW i \in (Ahead + Len(file) + 1)..(Ahead + Len(file) + Behind)
          PROVE  all[i] = Epilogue[i - (Ahead + Len(file))]
        BY <1>2, <2>1, <2>2
    <2> QED BY <2>2, <2>3, <2>4, <2>5, <2>6
<1>4. b <= Len(all)
    <2>1. CASE parts = <<>>
        BY <1>1, <1>2, <1>3, <2>1, TotalOfShape DEF StreamInv, Place, InHead, InTail, InFile, ThreeParts, AtEnd, Shape, NoParts, TwoParts
    <2>2. CASE parts # <<>>
        <3>1. Total = Len(all)
            BY <1>3, <2>2 DEF Whole, Sized
        <3>2. pos <= Total
            <4>1. /\ Ahead \in Nat /\ Behind \in Nat /\ Total \in Nat /\ pos \in Nat
                  /\ Total - Behind \in Nat /\ Ahead <= Total - Behind
                BY <2>2, TotalOfShape, Lengths DEF StreamInv, StreamTypes
            <4>2. ThreeParts => sizes[2] \in Nat /\ Total = sizes[2] + Behind
                BY TotalOfShape DEF StreamInv
            <4>3. pos < Ahead \/ (ThreeParts /\ pos < sizes[2]) \/ pos < Total \/ pos = Total
                BY DEF StreamInv, Place, InHead, InFile, InTail, AtEnd
            <4> QED BY <4>1, <4>2, <4>3
        <3> QED BY <1>1, <3>1, <3>2
    <2> QED BY <2>1, <2>2
<1>5. ASSUME NEW i \in 1..b PROVE body[i] = all[i]
    <2>1. parts # <<>> /\ Total = Ahead + Len(file) + Behind
        <3>1. CASE parts = <<>>
            BY <1>1, <3>1, TotalOfShape DEF StreamInv, Place, InHead, InTail, InFile, ThreeParts, AtEnd, Shape, NoParts, TwoParts
        <3> QED BY <3>1 DEF Whole, Sized
    <2>2. /\ i <= Ahead => body[i] = Preamble[i]
          /\ i > Total - Behind => body[i] = Epilogue[i - (Total - Behind)]
        BY DEF StreamInv, Framed, Ahead, Behind
    <2>3. i > Ahead /\ i <= Ahead + Len(file) => body[i] = file[i - Ahead]
        BY DEF Whole, FileBytes
    <2>4. Total - Behind = Ahead + Len(file) /\ i \in Nat /\ i > 0 /\ i <= Ahead + Len(file) + Behind
        BY <1>1, <1>2, <1>3, <1>4, <2>1
    <2> HIDE DEF body, all
    <2>5. CASE i <= Ahead
        BY <1>2, <1>3, <2>2, <2>4, <2>5
    <2>6. CASE i > Ahead /\ i <= Ahead + Len(file)
        BY <1>2, <1>3, <2>3, <2>4, <2>6
    <2>7. CASE i > Ahead + Len(file)
        <3>1. i \in (Ahead + Len(file) + 1)..(Ahead + Len(file) + Behind)
            BY <1>2, <2>4, <2>7
        <3>2. all[i] = Epilogue[i - (Ahead + Len(file))]
            BY <1>3, <3>1
        <3> QED BY <2>2, <2>4, <2>7, <3>2
    <2> QED BY <1>2, <2>4, <2>5, <2>6, <2>7
<1> HIDE DEF body, all
<1>6. SubSeq(all, 1, b) \in Seq(Byte) /\ Len(SubSeq(all, 1, b)) = b
      /\ \A i \in 1..b : SubSeq(all, 1, b)[i] = all[i]
    <2>1. \A i \in 1..b : all[i] \in Byte
        BY <1>1, <1>3, <1>4, ElementOfSeq
    <2>2. b \in Int
        BY <1>1
    <2> HIDE DEF b
    <2> QED BY <1>1, <2>1, <2>2, SubSeqProperties
<1>7. body = SubSeq(all, 1, b)
    BY <1>1, <1>5, <1>6, SeqEqual
<1> QED BY <1>7 DEF body, all

\* If nobody writes the file, every attempt sends the message whole and in order,
\* wherever the attempts before were cut off (ConcatStream::Seek and Read).
THEOREM UploadsAreWhole == Spec => []WholeFile
<1>1. Init => StreamInv /\ WholeInv
    <2> SUFFICES ASSUME Init PROVE WholeInv
        BY StreamInit
    <2>1. Sized /\ InOrder
        BY DEF Init, SInit, Sized, InOrder, InFile
    <2>2. FileBytes(sent \o buf)
        BY NothingSent DEF Init, SInit, FileBytes
    <2> QED BY <2>1, <2>2 DEF WholeInv, Whole, Init, SInit
<1>2. StreamInv /\ WholeInv /\ [Next]_xvars => StreamInv' /\ WholeInv'
    BY StreamStep, WholeStep
<1>3. StreamInv /\ WholeInv => WholeFile
    BY WholeIsAll DEF WholeInv, WholeFile
<1> QED BY <1>1, <1>2, <1>3, PTL DEF Spec

-------------------------------------------------------------------------------
(* The loop of AuthAgent.                                                  *)

Step == {"idle", "top", "send", "reply", "check", "refresh"}

CallTypes ==
    /\ call \in Call \union {"none"} /\ step \in Step
    /\ token \in Nat /\ bearer \in Nat /\ issued \in Nat
    /\ code \in Nat /\ carried \in Nat
    /\ current \in BOOLEAN
    /\ result \in {"none", "returned", "error", "died"}

-------------------------------------------------------------------------------
(* Tokens.                                                                 *)

\* A token that was refused is older than the one that is valid, and, once it has been
\* renewed, than the one that is sent next.
TokenInv ==
    /\ bearer <= issued /\ token <= issued /\ bearer <= token
    /\ code = 401 /\ step \in {"reply", "check", "refresh"} => bearer < issued
    /\ code = 401 /\ step = "top" => bearer < token

LEMMA TypesStep ==
    ASSUME CallTypes, [Next]_xvars
    PROVE  CallTypes'
<1> USE DEF CallTypes, Step
<1>1. CASE UNCHANGED xvars
    BY <1>1 DEF xvars, agent, server
<1>2. ASSUME NEW c \in Call, Begin(c) PROVE CallTypes'
    BY <1>2 DEF Begin
<1>3. CASE Attempt
    BY <1>3 DEF Attempt, Reset, AuthHeader, server
<1>4. CASE Send \/ Rewrite
    BY <1>4 DEF Send, Rewrite, agent, server
<1>5. CASE Overrun
    BY <1>5 DEF Overrun, Throw, server
<1>6. CASE Unauthorized \/ PreconditionFailed \/ Refuse
    BY <1>6 DEF Unauthorized, PreconditionFailed, Refuse, Answer
<1>7. CASE CarryOut
    BY <1>7 DEF CarryOut, Answer
<1>8. CASE Receive
    BY <1>8 DEF Receive, Parse, server
<1>9. CASE Received \/ Check
    BY <1>9 DEF Received, Check, server
<1>10. CASE Refresh
    BY <1>10 DEF Refresh, NewToken, server
<1>11. CASE ConnectionLost \/ RefreshFails
    BY <1>11 DEF ConnectionLost, RefreshFails, Throw, server
<1>12. CASE Expire \/ OtherEdit
    <2>1. CASE Expire
        BY <2>1 DEF Expire, agent
    <2>2. CASE OtherEdit
        BY <2>2 DEF OtherEdit, agent
    <2> QED BY <1>12, <2>1, <2>2
<1> QED BY <1>1, <1>2, <1>3, <1>4, <1>5, <1>6, <1>7, <1>8, <1>9, <1>10, <1>11, <1>12
        DEF Next, Work, Troubles

LEMMA TokenStep ==
    ASSUME CallTypes, TokenInv, [Next]_xvars
    PROVE  TokenInv'
<1> USE DEF CallTypes, TokenInv
<1>1. CASE UNCHANGED xvars
    BY <1>1 DEF xvars, agent, server
<1>2. ASSUME NEW c \in Call, Begin(c) PROVE TokenInv'
    BY <1>2 DEF Begin
<1>3. CASE Attempt
    BY <1>3 DEF Attempt, Reset, AuthHeader, server
<1>4. CASE Send \/ Rewrite
    BY <1>4 DEF Send, Rewrite, agent, server
<1>5. CASE Overrun
    BY <1>5 DEF Overrun, Throw, server
<1>6. CASE Unauthorized \/ PreconditionFailed \/ Refuse
    BY <1>6 DEF Unauthorized, PreconditionFailed, Refuse, Answer
<1>7. CASE CarryOut
    BY <1>7 DEF CarryOut, Answer
<1>8. CASE Receive
    BY <1>8 DEF Receive, server
<1>9. CASE Received \/ Check
    BY <1>9 DEF Received, Check, server
<1>10. CASE Refresh
    BY <1>10 DEF Refresh, NewToken, server
<1>11. CASE ConnectionLost \/ RefreshFails
    BY <1>11 DEF ConnectionLost, RefreshFails, Throw, server
<1>12. CASE Expire \/ OtherEdit
    BY <1>12 DEF Expire, OtherEdit, agent
<1> QED BY <1>1, <1>2, <1>3, <1>4, <1>5, <1>6, <1>7, <1>8, <1>9, <1>10, <1>11, <1>12
        DEF Next, Work, Troubles

LEMMA TypesInit == Init => CallTypes /\ TokenInv
<1> SUFFICES ASSUME Init PROVE CallTypes /\ TokenInv
    OBVIOUS
<1>1. CallTypes
    BY DEF Init, CallTypes, Step
<1>2. TokenInv
    BY DEF Init, TokenInv
<1> QED BY <1>1, <1>2

\* After a 401 no attempt of the call is made with a token that is as old: the loop of
\* AuthAgent::Request makes the header anew, and OAuth2::Refresh changes what it is made of.
THEOREM RefusedTokensAreRenewed == Spec => TokenRenewed
<1>1. Init => CallTypes /\ TokenInv
    BY TypesInit
<1>2. CallTypes /\ TokenInv /\ [Next]_xvars => CallTypes' /\ TokenInv'
    BY TypesStep, TokenStep
<1>3. CallTypes /\ TokenInv /\ [Next]_xvars
      => [step = "top" /\ step' = "send" /\ code = 401 => bearer' > bearer]_xvars
    <2> SUFFICES ASSUME CallTypes, TokenInv, Next, step = "top", step' = "send", code = 401
                 PROVE  bearer' > bearer
        BY DEF xvars
    <2>1. CASE Attempt
        BY <2>1 DEF Attempt, Reset, AuthHeader, CallTypes, TokenInv
    <2>2. CASE Send \/ Rewrite \/ Expire \/ OtherEdit
        BY <2>2 DEF Send, Rewrite, Expire, OtherEdit, agent
    <2>3. CASE Overrun \/ ConnectionLost \/ RefreshFails
        BY <2>3 DEF Overrun, ConnectionLost, RefreshFails, Throw
    <2>4. CASE Unauthorized \/ PreconditionFailed \/ CarryOut \/ Refuse
        BY <2>4 DEF Unauthorized, PreconditionFailed, CarryOut, Refuse, Answer
    <2>5. CASE Receive \/ Received \/ Check \/ Refresh
        BY <2>5 DEF Receive, Received, Check, Refresh
    <2>6. ASSUME NEW c \in Call, Begin(c) PROVE FALSE
        BY <2>6 DEF Begin
    <2> QED BY <2>1, <2>2, <2>3, <2>4, <2>5, <2>6 DEF Next, Work, Troubles
<1> QED BY <1>1, <1>2, <1>3, PTL DEF Spec, TokenRenewed

-------------------------------------------------------------------------------
(* What a call is.                                                         *)

\* A call is under way as long as it has no result; it returns nothing that was not
\* carried out; and what was carried out once and names a revision meets another one.
CallInv ==
    /\ result = "none" <=> step # "idle"
    /\ result = "none" => call \in Call
    /\ step \in {"reply", "check"} /\ code < 400 => carried > 0
    /\ carried > 0 /\ Guarded(call) => ~current
    /\ call = "fetch" => carried <= 1

LEMMA CallInvStep ==
    ASSUME CallTypes, CallInv, [Next]_xvars
    PROVE  CallInv'
<1> USE DEF CallTypes, CallInv, Step
<1>1. CASE UNCHANGED xvars
    BY <1>1 DEF xvars, agent, server, Guarded
<1>2. ASSUME NEW c \in Call, Begin(c) PROVE CallInv'
    BY <1>2 DEF Begin
<1>3. CASE Attempt
    BY <1>3 DEF Attempt, Reset, server, Guarded
<1>4. CASE Send \/ Rewrite
    BY <1>4 DEF Send, Rewrite, agent, server, Guarded
<1>5. CASE Overrun
    BY <1>5 DEF Overrun, Throw, server, Guarded
<1>6. CASE Unauthorized \/ PreconditionFailed \/ Refuse
    BY <1>6 DEF Unauthorized, PreconditionFailed, Refuse, Answer, Guarded
<1>7. CASE CarryOut
    <2>1. /\ step = "send" /\ step' = "reply" /\ result' = result /\ call' = call
          /\ carried' = (IF call = "fetch" THEN 1 ELSE carried + 1)
          /\ current' = (current /\ call = "fetch")
        BY <1>7 DEF CarryOut, Answer
    <2>2. carried' > 0
        BY <2>1
    <2>3. Guarded(call') => ~current'
        BY <2>1, Zenon DEF Guarded
    <2>4. call' = "fetch" => carried' <= 1
        BY <2>1
    <2> QED BY <2>1, <2>2, <2>3, <2>4
<1>8. CASE Receive
    BY <1>8 DEF Receive, Parse, server, Guarded
<1>9. CASE Received \/ Check
    <2>1. CASE Received
        BY <2>1 DEF Received, server, Guarded
    <2>2. CASE Check
        <3>1. /\ step = "check" /\ code' = code /\ call' = call
              /\ UNCHANGED <<current, carried>>
            BY <2>2 DEF Check, server
        <3>2. /\ step' \in {"top", "refresh", "idle"}
              /\ result' = "none" <=> step' # "idle"
            BY <2>2 DEF Check
        <3> QED BY <3>1, <3>2 DEF Guarded
    <2> QED BY <1>9, <2>1, <2>2
<1>10. CASE Refresh
    BY <1>10 DEF Refresh, server, Guarded
<1>11. CASE ConnectionLost \/ RefreshFails
    BY <1>11 DEF ConnectionLost, RefreshFails, Throw, server, Guarded
<1>12. CASE Expire \/ OtherEdit
    BY <1>12 DEF Expire, OtherEdit, agent, Guarded
<1> QED BY <1>1, <1>2, <1>3, <1>4, <1>5, <1>6, <1>7, <1>8, <1>9, <1>10, <1>11, <1>12
        DEF Next, Work, Troubles

LEMMA CallStep ==
    ASSUME CallTypes, CallInv, [Next]_xvars
    PROVE  [Abstract!Next]_(Abstract!vars)
<1> USE DEF CallTypes, CallInv, Step
<1>1. CASE UNCHANGED <<call, carried, result>>
    BY <1>1 DEF Abstract!vars
<1>2. ASSUME NEW c \in Call, Begin(c) PROVE Abstract!Begin
    BY <1>2 DEF Begin, Abstract!Begin
<1>3. CASE Attempt \/ Send \/ Rewrite \/ Unauthorized \/ PreconditionFailed \/ Refuse
           \/ Received \/ Refresh \/ Expire \/ OtherEdit
    BY <1>1, <1>3 DEF Attempt, Reset, Send, Rewrite, Unauthorized, PreconditionFailed, Refuse, Answer,
       Received, Refresh, Expire, OtherEdit, agent, server
<1>4. CASE Overrun \/ ConnectionLost \/ RefreshFails
    <2>1. Abstract!Fail
        BY <1>4 DEF Overrun, ConnectionLost, RefreshFails, Throw, server, Abstract!Fail
    <2> QED BY <2>1 DEF Abstract!Next
<1>5. CASE CarryOut
    <2>1. step = "send" /\ call' = call /\ result' = result
          /\ carried' = (IF call = "fetch" THEN 1 ELSE carried + 1) /\ (Guarded(call) => current)
        BY <1>5 DEF CarryOut, Answer
    <2>2. CASE call = "fetch" /\ carried = 1
        BY <1>1, <2>1, <2>2
    <2>3. CASE ~(call = "fetch" /\ carried = 1)
        <3>1. carried = 0 \/ call \in {"create", "move"}
            BY <2>1, <2>3 DEF Call, Guarded
        <3>2. carried' = carried + 1
            BY <2>1, <2>3, <3>1
        <3>3. Abstract!CarryOut
            BY <2>1, <3>1, <3>2 DEF Abstract!CarryOut
        <3> QED BY <3>3 DEF Abstract!Next
    <2> QED BY <2>2, <2>3
<1>6. CASE Receive
    <2>1. Abstract!Fail \/ UNCHANGED <<call, carried, result>>
        BY <1>6 DEF Receive, Parse, server, Abstract!Fail
    <2> QED BY <1>1, <2>1 DEF Abstract!Next
<1>7. CASE Check
    <2>1. Abstract!Return \/ Abstract!Fail \/ UNCHANGED <<call, carried, result>>
        BY <1>7 DEF Check, Throws, server, Abstract!Return, Abstract!Fail
    <2> QED BY <1>1, <2>1 DEF Abstract!Next
<1>8. CASE UNCHANGED xvars
    BY <1>1, <1>8 DEF xvars, agent, server
<1> QED BY <1>2, <1>3, <1>4, <1>5, <1>6, <1>7, <1>8 DEF Next, Work, Troubles, Abstract!Next

\* A request is carried out once at most, unless it names no revision, and it was if it
\* returns: what Grive.tla takes for granted of AuthAgent and CurlAgent.
THEOREM CallsAreAtomic == Spec => CallSpec
<1>1. Init => CallTypes /\ CallInv /\ Abstract!Init
    BY TypesInit DEF Init, CallInv, Abstract!Init
<1>2. CallTypes /\ CallInv /\ [Next]_xvars => CallTypes' /\ CallInv'
    BY TypesStep, CallInvStep
<1>3. CallTypes /\ CallInv /\ [Next]_xvars => [Abstract!Next]_(Abstract!vars)
    BY CallStep
<1> QED BY <1>1, <1>2, <1>3, PTL DEF Spec, CallSpec, Abstract!Spec

-------------------------------------------------------------------------------
(* What goes to the destination.                                           *)

\* An answer is an error exactly if its code is one, while the answer is received; the
\* text of an error stays below the limit; and nothing but what an answer that is none has
\* brought is at the destination.
FeedTypes ==
    /\ code \in {0, 200, 401, 403, 412, 500, 503}
    /\ received \in 0..MaxBody
    /\ error \in BOOLEAN

FeedInv ==
    /\ step = "send" => error = FALSE /\ received = 0
    /\ step = "reply" => code # 0 /\ (error = TRUE <=> code # 200)
    /\ step = "check" => code # 0
    /\ step \in {"top", "send", "refresh"} => fed = {}
    /\ step \in {"reply", "check"} => fed = IF code = 200 /\ received > 0 THEN Good ELSE {}

FeedAll == FeedTypes /\ FeedInv /\ NoErrorFed

\* Answer: the tenth character of a status line of HTTP/1.1 tells errors.
LEMMA AnswerFeeds ==
    ASSUME CallTypes, CallInv, FeedAll, ~Http2,
           NEW c \in {200, 401, 403, 412, 500, 503}, Answer(c)
    PROVE  FeedAll'
<1>1. IsError(c) <=> c # 200
    BY DEF IsError
<1>2. step = "send" /\ error = FALSE /\ received = 0 /\ fed = {}
    BY DEF Answer, FeedAll, FeedInv
<1>3. error' = (error \/ IsError(c))
    BY DEF Answer
<1>4. error' = TRUE <=> c # 200
    BY <1>1, <1>2, <1>3, Zenon
<1>9. error' \in BOOLEAN
    BY <1>3, Zenon
<1>5. code' = c /\ received' = 0 /\ fed' = fed /\ step' = "reply" /\ result' = "none"
    BY <1>2 DEF Answer, CallInv
<1>6. FeedTypes'
    BY <1>5, <1>9, ExchangeAssumption DEF FeedTypes
<1>7. FeedInv'
    BY <1>2, <1>4, <1>5 DEF FeedInv
<1>8. NoErrorFed'
    BY <1>5 DEF FeedAll, NoErrorFed
<1> QED BY <1>6, <1>7, <1>8 DEF FeedAll

\* Receive: of an error nothing is fed, for all of it is kept.
LEMMA ReceiveFeeds ==
    ASSUME CallTypes, CallInv, FeedAll, MaxBody <= ErrorLimit, Receive
    PROVE  FeedAll'
<1>1. step = "reply" /\ code' = code /\ error' = error /\ step' \in {"reply", "idle"}
    BY DEF Receive
<1>2. received' = received + 1 /\ received' \in 0..MaxBody /\ received < ErrorLimit
    BY ExchangeAssumption DEF Receive, FeedAll, FeedTypes
<1>3. code # 0 /\ (error = TRUE <=> code # 200)
    BY <1>1 DEF FeedAll, FeedInv
<1>4. Kept <=> error = TRUE
    BY <1>2 DEF Kept, FeedAll, FeedTypes
<1>5. fed' = IF code = 200 THEN fed \union {200} ELSE fed
    BY <1>3, <1>4 DEF Receive
<1>6. fed' \subseteq Good /\ fed' = IF code = 200 THEN Good ELSE {}
    BY <1>1, <1>5 DEF FeedAll, FeedInv, Good
<1>7. result' # "returned"
    BY DEF Receive, Parse
<1>8. FeedTypes'
    BY <1>1, <1>2 DEF FeedAll, FeedTypes
<1>9. FeedInv'
    BY <1>1, <1>2, <1>3, <1>6 DEF FeedInv, FeedAll, FeedTypes
<1>10. NoErrorFed'
    BY <1>6, <1>7 DEF NoErrorFed
<1> QED BY <1>8, <1>9, <1>10 DEF FeedAll

LEMMA FeedStep ==
    ASSUME CallTypes, CallInv, FeedAll, ~Http2, MaxBody <= ErrorLimit, [Next]_xvars
    PROVE  FeedAll'
<1> USE DEF CallTypes, CallInv, Step
<1>1. CASE UNCHANGED <<call, step, code, error, received, fed, result>>
    BY <1>1 DEF FeedAll, FeedTypes, FeedInv, NoErrorFed
<1>2. ASSUME NEW c \in Call, Begin(c) PROVE FeedAll'
    <2>1. /\ step' = "top" /\ code' = 0 /\ received' = 0 /\ fed' = {} /\ error' \in BOOLEAN
          /\ result' = "none"
        BY <1>2 DEF Begin
    <2>2. FeedTypes'
        BY <2>1, ExchangeAssumption DEF FeedTypes
    <2>3. FeedInv'
        BY <2>1 DEF FeedInv
    <2>4. NoErrorFed'
        BY <2>1 DEF NoErrorFed
    <2> QED BY <2>2, <2>3, <2>4 DEF FeedAll
<1>3. CASE Attempt \/ Refresh
    <2>1. /\ step' \in {"send", "top"} /\ (step' = "send" => error' = FALSE) /\ error' \in BOOLEAN /\ received' = 0
          /\ UNCHANGED <<call, code, fed, result>>
        BY <1>3 DEF Attempt, Reset, Refresh
    <2>2. FeedTypes'
        BY <2>1, ExchangeAssumption DEF FeedAll, FeedTypes
    <2>3. FeedInv'
        BY <1>3, <2>1 DEF FeedAll, FeedInv, Attempt, Refresh
    <2>4. NoErrorFed'
        <3>1. result' = "none"
            BY <1>3, <2>1 DEF Attempt, Refresh
        <3> QED BY <2>1, <3>1 DEF FeedAll, NoErrorFed
    <2> QED BY <2>2, <2>3, <2>4 DEF FeedAll
<1>4. CASE Send \/ Rewrite \/ Expire \/ OtherEdit
    BY <1>1, <1>4 DEF Send, Rewrite, Expire, OtherEdit, agent
<1>5. CASE Overrun \/ ConnectionLost \/ RefreshFails
    <2>1. /\ step' = "idle" /\ result' \in {"error", "died"}
          /\ UNCHANGED <<call, code, error, received, fed>>
        BY <1>5 DEF Overrun, ConnectionLost, RefreshFails, Throw
    <2> QED BY <2>1 DEF FeedAll, FeedTypes, FeedInv, NoErrorFed
<1>6. CASE Unauthorized \/ PreconditionFailed \/ Refuse \/ CarryOut
    BY <1>6, AnswerFeeds DEF Unauthorized, PreconditionFailed, Refuse, CarryOut
<1>7. CASE Receive
    BY <1>7, ReceiveFeeds
<1>8. CASE Received
    <2>1. /\ step = "reply" /\ step' = "check"
          /\ UNCHANGED <<call, code, error, received, fed, result>>
        BY <1>8 DEF Received
    <2> QED BY <2>1 DEF FeedAll, FeedTypes, FeedInv, NoErrorFed, Good
<1>9. CASE Check
    <2>1. /\ step = "check" /\ step' \in {"top", "refresh", "idle"}
          /\ UNCHANGED <<call, code, error, received, fed>>
        BY <1>9 DEF Check
    <2>2. result' = "returned" => code \notin {500, 503, 401} /\ code < 400
        BY <1>9, <2>1 DEF Check, Throws
    <2>3. result' = "returned" => fed = IF received = 0 THEN {} ELSE Good
        BY <2>1, <2>2 DEF FeedAll, FeedTypes, FeedInv
    <2>4. step' # "idle" => code # 200
        BY <1>9, <2>1 DEF Check
    <2>5. NoErrorFed'
        BY <2>1, <2>3, <1>9 DEF FeedAll, NoErrorFed, Check
    <2>6. FeedInv'
        BY <2>1, <2>4 DEF FeedAll, FeedInv
    <2> QED BY <2>1, <2>5, <2>6 DEF FeedAll, FeedTypes
<1> QED BY <1>1, <1>2, <1>3, <1>4, <1>5, <1>6, <1>7, <1>8, <1>9
        DEF Next, Work, Troubles, xvars, agent

\* Over HTTP/1.1, and as long as no error is longer than what is kept of one, no part of
\* an error goes to the destination, and a call that returns has brought its answer there,
\* all of which may be nothing (CurlAgent::HeaderCallback and Receive, AuthAgent::CheckHttpResponse).  Without
\* either hypothesis it is not so.
THEOREM NoErrorIsFed ==
    ASSUME ~Http2, MaxBody <= ErrorLimit
    PROVE  Spec => []NoErrorFed
<1>1. Init => CallTypes /\ CallInv /\ FeedAll
    <2>1. Init => CallTypes /\ CallInv
        BY TypesInit DEF Init, CallInv
    <2>2. Init => FeedTypes
        <3>1. Init => error \in BOOLEAN /\ code = 0 /\ received = 0
            BY DEF Init
        <3> QED BY <3>1, ExchangeAssumption DEF FeedTypes
    <2>3. Init => FeedInv
        BY DEF Init, FeedInv
    <2>4. Init => NoErrorFed
        BY DEF Init, NoErrorFed
    <2> QED BY <2>1, <2>2, <2>3, <2>4 DEF FeedAll
<1>2. CallTypes /\ CallInv /\ FeedAll /\ [Next]_xvars => CallTypes' /\ CallInv' /\ FeedAll'
    BY TypesStep, CallInvStep, FeedStep
<1>3. FeedAll => NoErrorFed
    BY DEF FeedAll
<1> QED BY <1>1, <1>2, <1>3, PTL DEF Spec

===============================================================================
