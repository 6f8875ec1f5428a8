--------------------------- MODULE BleLinkProofs ---------------------------
(***************************************************************************)
(* What the prover checks of BleLink for every set of reports, every       *)
(* capacity and without any bound on events: the hub's view of the link    *)
(* agrees with the dongle's once all is said, released keys come up, and   *)
(* link_ready is what it is computed from.                                 *)
(***************************************************************************)
EXTENDS BleLink, SequenceTheorems, FiniteSetTheorems, TLAPS

Texts == Said \cup {NewLine}
Items == Frames \cup Requests
Landing == Frames \cup Requests \cup {Scrap}

(***************************************************************************)
(* Queues and what is in them.                                             *)
(***************************************************************************)
LEMMA ItemsAre ==
  /\ \A r \in Reports, e \in Edges : <<r, e>> \in Frames /\ IsFrame(<<r, e>>) /\ <<r, e>>[1] = r /\ <<r, e>>[2] = e
  /\ \A x \in Frames : IsFrame(x) /\ x[1] \in Reports /\ x[2] \in Edges /\ x = <<x[1], x[2]>>
  /\ \A x \in Requests : ~IsFrame(x)
  /\ <<"PING">> \in Requests /\ <<"STATUS">> \in Requests /\ <<"PING">> # <<"STATUS">>
  /\ \A x \in Items : ~IsFrame(x) => x = <<"PING">> \/ x = <<"STATUS">>
  BY DEF Frames, Requests, IsFrame, Items

LEMMA TextsAre ==
  /\ NewLine \notin Said /\ NewLine.line = "newline"
  /\ \A x \in Said : x.line \in {"PONG", "STATUS", "CONN", "READY"} /\ x.connected \in BOOLEAN /\ x.ready \in BOOLEAN
  /\ \A x \in Texts : x # NewLine => x \in Said
  /\ \A on \in BOOLEAN : /\ Conn(on) \in Said /\ Conn(on).line = "CONN" /\ Conn(on).connected = on
                         /\ Ready(on) \in Said /\ Ready(on).line = "READY" /\ Ready(on).ready = on
  BY DEF Said, NewLine, Texts, Conn, Ready

LEMMA LandingIs ==
  /\ Scrap \in Landing /\ ~IsFrame(Scrap) /\ Scrap # <<"STATUS">> /\ Scrap # <<"PING">>
  /\ \A x \in Items : x \in Landing
  /\ \A x \in Landing : x # Scrap => x \in Items
  /\ \A r \in Reports : Scrap # Up(r) /\ Scrap # Down(r)
<1>1. Len(Scrap) = 1 /\ Scrap[1] = "scrap" /\ <<"STATUS">>[1] = "STATUS" /\ <<"PING">>[1] = "PING"
  BY DEF Scrap
<1>2. Scrap # <<"STATUS">> /\ Scrap # <<"PING">>
  BY <1>1
<1>3. \A r \in Reports : Len(Up(r)) = 2 /\ Len(Down(r)) = 2
  BY DEF Up, Down
<1>4. \A r \in Reports : Scrap # Up(r) /\ Scrap # Down(r)
  BY <1>1, <1>3
<1>5. QED
  BY <1>1, <1>2, <1>4 DEF Landing, Items, IsFrame

\* What is cut out of a queue.
LEMMA PieceIs ==
  ASSUME NEW S, NEW s \in Seq(S), NEW m \in Nat, NEW n \in Nat, m >= 1, n <= Len(s), m <= n + 1
  PROVE  /\ SubSeq(s, m, n) \in Seq(S) /\ Len(SubSeq(s, m, n)) = n - m + 1
         /\ DOMAIN SubSeq(s, m, n) = 1..(n - m + 1)
         /\ \A i \in 1..(n - m + 1) : SubSeq(s, m, n)[i] = s[m + i - 1]
<1>1. Len(s) \in Nat /\ \A i \in 1..Len(s) : s[i] \in S
  BY LenProperties
<1>2. \A i \in m..n : s[i] \in S
  BY <1>1
<1>3. /\ SubSeq(s, m, n) \in Seq(S)
      /\ Len(SubSeq(s, m, n)) = IF m <= n THEN n - m + 1 ELSE 0
      /\ \A i \in 1..(n - m + 1) : SubSeq(s, m, n)[i] = s[m + i - 1]
  BY <1>2, SubSeqProperties
<1>4. Len(SubSeq(s, m, n)) = n - m + 1
  BY <1>3
<1>5. QED
  BY <1>3, <1>4, LenProperties

\* Whoever takes the head leaves the others where they were.
LEMMA TailIs ==
  ASSUME NEW S, NEW s \in Seq(S), s # << >>
  PROVE  /\ Tail(s) \in Seq(S) /\ Head(s) \in S /\ Head(s) = s[1]
         /\ Len(s) \in Nat /\ Len(s) > 0 /\ Len(Tail(s)) = Len(s) - 1
         /\ DOMAIN s = 1..Len(s) /\ DOMAIN Tail(s) = 1..(Len(s) - 1)
         /\ \A i \in 1..(Len(s) - 1) : Tail(s)[i] = s[i + 1]
  BY HeadTailProperties, LenProperties, EmptySeq

LEMMA AppendIs ==
  ASSUME NEW S, NEW s \in Seq(S), NEW x \in S
  PROVE  /\ Append(s, x) \in Seq(S) /\ Append(s, x) # << >>
         /\ Len(s) \in Nat /\ Len(Append(s, x)) = Len(s) + 1
         /\ DOMAIN s = 1..Len(s) /\ DOMAIN Append(s, x) = 1..(Len(s) + 1)
         /\ \A i \in 1..Len(s) : Append(s, x)[i] = s[i]
         /\ Append(s, x)[Len(s) + 1] = x
<1>1. /\ Append(s, x) \in Seq(S) /\ Append(s, x) # << >>
      /\ Len(Append(s, x)) = Len(s) + 1
      /\ \A i \in 1..Len(s) : Append(s, x)[i] = s[i]
      /\ Append(s, x)[Len(s) + 1] = x
  BY AppendProperties
<1>2. QED
  BY <1>1, LenProperties

LEMMA ConcatIs ==
  ASSUME NEW S, NEW s \in Seq(S), NEW t \in Seq(S)
  PROVE  /\ s \o t \in Seq(S) /\ Len(s) \in Nat /\ Len(t) \in Nat /\ Len(s \o t) = Len(s) + Len(t)
         /\ DOMAIN s = 1..Len(s) /\ DOMAIN t = 1..Len(t) /\ DOMAIN (s \o t) = 1..(Len(s) + Len(t))
         /\ \A i \in 1..Len(s) : (s \o t)[i] = s[i]
         /\ \A i \in 1..Len(t) : (s \o t)[Len(s) + i] = t[i]
<1>1. /\ s \o t \in Seq(S) /\ Len(s \o t) = Len(s) + Len(t)
      /\ \A i \in 1..Len(s) + Len(t) : (s \o t)[i] = IF i <= Len(s) THEN s[i] ELSE t[i - Len(s)]
  BY ConcatProperties
<1>2. Len(s) \in Nat /\ Len(t) \in Nat /\ DOMAIN s = 1..Len(s) /\ DOMAIN t = 1..Len(t)
      /\ DOMAIN (s \o t) = 1..Len(s \o t)
  BY <1>1, LenProperties
<1>3. QED
  BY <1>1, <1>2

\* One more item in front of a sequence.
LEMMA OneInFront ==
  ASSUME NEW S, NEW s \in Seq(S), NEW t \in Seq(S), Len(s) = 1
  PROVE  /\ s \o t \in Seq(S) /\ Len(s \o t) = 1 + Len(t)
         /\ DOMAIN (s \o t) = 1..(1 + Len(t)) /\ (s \o t)[1] = s[1]
         /\ \A i \in 1..Len(t) : (s \o t)[1 + i] = t[i]
<1>1. /\ s \o t \in Seq(S) /\ Len(s \o t) = Len(s) + Len(t)
      /\ \A i \in 1..Len(s) + Len(t) : (s \o t)[i] = IF i <= Len(s) THEN s[i] ELSE t[i - Len(s)]
  BY ConcatProperties
<1>2. Len(t) \in Nat /\ DOMAIN (s \o t) = 1..Len(s \o t)
  BY <1>1, LenProperties
<1>3. QED
  BY <1>1, <1>2

LEMMA InFront ==
  ASSUME NEW S, NEW x \in S, NEW t \in Seq(S)
  PROVE  /\ <<x>> \o t \in Seq(S) /\ Len(<<x>> \o t) = 1 + Len(t)
         /\ DOMAIN (<<x>> \o t) = 1..(1 + Len(t)) /\ (<<x>> \o t)[1] = x
         /\ \A i \in 1..Len(t) : (<<x>> \o t)[1 + i] = t[i]
<1>1. <<x>> \in Seq(S) /\ Len(<<x>>) = 1 /\ <<x>>[1] = x
  OBVIOUS
<1>2. /\ <<x>> \o t \in Seq(S) /\ Len(<<x>> \o t) = 1 + Len(t)
      /\ DOMAIN (<<x>> \o t) = 1..(1 + Len(t)) /\ (<<x>> \o t)[1] = <<x>>[1]
      /\ \A i \in 1..Len(t) : (<<x>> \o t)[1 + i] = t[i]
  BY <1>1, OneInFront
<1>3. QED
  BY <1>1, <1>2, Zenon

\* The ring keeps the newest.
LEMMA FittingIs ==
  ASSUME NEW S, NEW s \in Seq(S), RingMax \in Nat, RingMax >= 2
  PROVE  /\ Fitting(s) \in Seq(S) /\ Len(Fitting(s)) <= RingMax
         /\ Len(s) <= RingMax => Fitting(s) = s
         /\ s # << >> => Fitting(s) # << >> /\ Fitting(s)[Len(Fitting(s))] = s[Len(s)]
         /\ Len(s) >= 2 => /\ Len(Fitting(s)) >= 2
                           /\ Fitting(s)[Len(Fitting(s)) - 1] = s[Len(s) - 1]
<1> DEFINE d == IF Len(s) > RingMax THEN Len(s) - RingMax ELSE 0
<1>1. Len(s) \in Nat /\ d \in Nat /\ d <= Len(s) /\ \A i \in 1..Len(s) : s[i] \in S
  BY LenProperties
<1>2. Fitting(s) = SubSeq(s, 1 + d, Len(s))
  BY DEF Fitting
<1> HIDE DEF d
<1>3. /\ Fitting(s) \in Seq(S) /\ Len(Fitting(s)) = Len(s) - d
      /\ \A i \in 1..(Len(s) - d) : Fitting(s)[i] = s[d + i]
  <2>1. \A i \in (1 + d)..Len(s) : s[i] \in S
    BY <1>1
  <2>2. /\ SubSeq(s, 1 + d, Len(s)) \in Seq(S)
        /\ Len(SubSeq(s, 1 + d, Len(s))) = IF 1 + d <= Len(s) THEN Len(s) - (1 + d) + 1 ELSE 0
        /\ \A i \in 1..(Len(s) - (1 + d) + 1) : SubSeq(s, 1 + d, Len(s))[i] = s[1 + d + i - 1]
    BY <1>1, <2>1, SubSeqProperties
  <2>3. QED
    BY <1>1, <1>2, <2>2
<1>4. Len(Fitting(s)) <= RingMax
  BY <1>1, <1>3 DEF d
<1>5. ASSUME Len(s) <= RingMax PROVE Fitting(s) = s
  <2>1. 1 + d = 1
    BY <1>5 DEF d
  <2>2. QED
    BY <1>2, <2>1, SubSeqFull
<1>6. ASSUME s # << >> PROVE Fitting(s) # << >> /\ Fitting(s)[Len(Fitting(s))] = s[Len(s)]
  <2>1. Len(s) > 0 /\ Len(s) - d > 0
    BY <1>1, <1>6, EmptySeq DEF d
  <2>2. QED
    BY <1>1, <1>3, <2>1
<1>7. ASSUME Len(s) >= 2
      PROVE  Len(Fitting(s)) >= 2 /\ Fitting(s)[Len(Fitting(s)) - 1] = s[Len(s) - 1]
  <2>1. Len(s) - d >= 2
    BY <1>1, <1>7 DEF d
  <2>2. QED
    BY <1>1, <1>3, <2>1
<1>8. QED
  BY <1>3, <1>4, <1>5, <1>6, <1>7

LEMMA LinesAre ==
  /\ Lines(<< >>) = << >>
  /\ \A x \in Said : Lines(<<x>>) = <<x, NewLine>>
  /\ \A x, y \in Said : Lines(<<x, y>>) = <<x, NewLine, y, NewLine>>
<1>1. Lines(<< >>) = << >>
  BY DEF Lines
<1>2. ASSUME NEW x \in Said PROVE Lines(<<x>>) = <<x, NewLine>>
  <2>1. Len(<<x>>) = 1 /\ <<x>>[1] = x
    OBVIOUS
  <2>2. Lines(<<x>>) = [i \in 1..2 |-> IF i % 2 = 1 THEN <<x>>[(i + 1) \div 2] ELSE NewLine]
    BY <2>1 DEF Lines
  <2>3. 1 % 2 = 1 /\ 2 % 2 = 0 /\ (1 + 1) \div 2 = 1
    OBVIOUS
  <2>4. QED
    BY <2>1, <2>2, <2>3
<1>3. ASSUME NEW x \in Said, NEW y \in Said PROVE Lines(<<x, y>>) = <<x, NewLine, y, NewLine>>
  <2>1. Len(<<x, y>>) = 2 /\ <<x, y>>[1] = x /\ <<x, y>>[2] = y
    OBVIOUS
  <2>2. Lines(<<x, y>>) = [i \in 1..4 |-> IF i % 2 = 1 THEN <<x, y>>[(i + 1) \div 2] ELSE NewLine]
    BY <2>1 DEF Lines
  <2>3. 1 % 2 = 1 /\ 2 % 2 = 0 /\ 3 % 2 = 1 /\ 4 % 2 = 0 /\ (1 + 1) \div 2 = 1 /\ (3 + 1) \div 2 = 2
    OBVIOUS
  <2>4. QED
    BY <2>1, <2>2, <2>3
<1>4. QED
  BY <1>1, <1>2, <1>3

\* release_all has room for its frames once only requests are left.
LEMMA ZerosAre ==
  /\ Zeros \in Seq(Frames) /\ Len(Zeros) = Cardinality(Reports)
  /\ \A i \in 1..Len(Zeros) : \E r \in Reports : Zeros[i] = Up(r)
  /\ \A r \in Reports : \E i \in 1..Len(Zeros) : Zeros[i] = Up(r)
  /\ Cardinality(Reports) \in Nat /\ TxMax \in Nat /\ TxMax >= 2 + Cardinality(Reports)
<1>1. TxMax \in Nat /\ TxMax >= 2 + Cardinality(Reports) /\ Reports \subseteq {"kb", "cc"}
  BY LinkBounds, ReportsAssumption
<1>2. \A r \in Reports : Up(r) \in Frames
  BY ItemsAre DEF Up, Edges
<1>3. CASE Reports = {}
  <2>1. Zeros = << >> /\ Cardinality(Reports) = 0
    BY <1>3, FS_EmptySet DEF Zeros
  <2>2. QED
    BY <1>1, <1>3, <2>1, EmptySeq
<1>4. CASE Reports = {"kb"}
  <2>1. Zeros = <<Up("kb")>> /\ Cardinality(Reports) = 1
    BY <1>4, FS_Singleton DEF Zeros
  <2>2. QED
    BY <1>1, <1>2, <1>4, <2>1
<1>5. CASE Reports = {"cc"}
  <2>1. Zeros = <<Up("cc")>> /\ Cardinality(Reports) = 1
    BY <1>5, FS_Singleton DEF Zeros
  <2>2. QED
    BY <1>1, <1>2, <1>5, <2>1
<1>6. CASE Reports = {"kb", "cc"}
  <2>1. /\ Zeros = <<Up("kb")>> \o <<Up("cc")>> /\ Up("kb") \in Frames /\ Up("cc") \in Frames
        /\ <<Up("kb")>> \in Seq(Frames) /\ Len(<<Up("kb")>>) = 1 /\ <<Up("kb")>>[1] = Up("kb")
        /\ <<Up("cc")>> \in Seq(Frames) /\ Len(<<Up("cc")>>) = 1 /\ <<Up("cc")>>[1] = Up("cc")
    BY <1>2, <1>6 DEF Zeros
  <2>2. Cardinality(Reports) = 2
    <3>1. IsFiniteSet({"kb"}) /\ Cardinality({"kb"}) = 1
      BY FS_Singleton
    <3>2. Cardinality({"kb"} \cup {"cc"}) = 2
      BY <3>1, FS_AddElement
    <3>3. {"kb"} \cup {"cc"} = Reports
      BY <1>6
    <3>4. QED
      BY <3>2, <3>3
  <2>3. Zeros \in Seq(Frames) /\ Len(Zeros) = 2 /\ Zeros[1] = Up("kb") /\ Zeros[2] = Up("cc")
    BY <2>1, ConcatProperties
  <2>4. QED
    BY <1>1, <1>6, <2>2, <2>3
<1>7. QED
  BY <1>1, <1>3, <1>4, <1>5, <1>6

(***************************************************************************)
(* What the dongle says.                                                   *)
(***************************************************************************)
LEMMA PairIs ==
  ASSUME NEW S, NEW a \in S, NEW b \in S
  PROVE  <<a>> \o <<b>> = <<a, b>>
<1>1. /\ <<a>> \in Seq(S) /\ <<b>> \in Seq(S) /\ <<a, b>> \in Seq(S)
      /\ Len(<<a>>) = 1 /\ Len(<<b>>) = 1 /\ Len(<<a, b>>) = 2
      /\ <<a>>[1] = a /\ <<b>>[1] = b /\ <<a, b>>[1] = a /\ <<a, b>>[2] = b
  OBVIOUS
<1>2. <<a>> \o <<b>> \in Seq(S) /\ Len(<<a>> \o <<b>>) = 2 /\ (<<a>> \o <<b>>)[1] = a /\ (<<a>> \o <<b>>)[2] = b
  BY <1>1, ConcatProperties
<1>3. \A i \in 1..2 : (<<a>> \o <<b>>)[i] = <<a, b>>[i]
  BY <1>1, <1>2
<1>4. QED
  BY <1>1, <1>2, <1>3, SeqEqual

\* A callback says at most two lines.
Sayable == {<< >>} \cup {<<x>> : x \in Said} \cup {<<x, y>> : x \in Said, y \in Said}

\* Lines are texts with a newline each.
Whole(t) ==
  /\ t \in Seq(Texts)
  /\ \A i \in 1..Len(t) : t[i] # NewLine =>
       /\ i > 1 => t[i - 1] = NewLine
       /\ i # Len(t) /\ t[i + 1] = NewLine

LEMMA LinesOf ==
  ASSUME NEW said \in Sayable
  PROVE  /\ Whole(Lines(said)) /\ (Lines(said) = << >> <=> said = << >>)
         /\ said # << >> => Lines(said)[Len(Lines(said))] = NewLine /\ Len(Lines(said)) > 0
<1>1. CASE said = << >>
  <2>1. Lines(said) = << >>
    BY <1>1, LinesAre
  <2>2. << >> \in Seq(Texts) /\ 1..Len(<< >>) = {}
    BY EmptySeq
  <2>3. Whole(<< >>)
    BY <2>2 DEF Whole
  <2>4. QED
    BY <1>1, <2>1, <2>3
<1>2. CASE \E x \in Said : said = <<x>>
  <2>1. PICK x \in Said : said = <<x>>
    BY <1>2
  <2>2. Lines(said) = <<x, NewLine>> /\ x # NewLine /\ x \in Texts /\ NewLine \in Texts /\ said # << >>
    BY <2>1, LinesAre, TextsAre DEF Texts
  <2>3. QED
    BY <2>2 DEF Whole
<1>3. CASE \E x, y \in Said : said = <<x, y>>
  <2>1. PICK x \in Said, y \in Said : said = <<x, y>>
    BY <1>3
  <2>2. /\ Lines(said) = <<x, NewLine, y, NewLine>> /\ said # << >>
        /\ x # NewLine /\ y # NewLine /\ x \in Texts /\ y \in Texts /\ NewLine \in Texts
    BY <2>1, LinesAre, TextsAre DEF Texts
  <2>3. QED
    BY <2>2 DEF Whole
<1>4. QED
  BY <1>1, <1>2, <1>3 DEF Sayable

LEMMA Announced ==
  ASSUME DongleTypeOK, NEW said \in Sayable, Announce(said)
  PROVE  /\ ring' \in Seq(Texts) /\ Len(ring') <= RingMax /\ missed' \in BOOLEAN
         /\ ~talks \/ said = << >> => UNCHANGED <<ring, missed>>
         /\ talks /\ said # << >> =>
              /\ ring' # << >> /\ ring'[Len(ring')] = NewLine
              /\ ~missed' => ~missed /\ cmd # <<NewLine>> /\ ring' = ring \o Lines(said)
<1> DEFINE new == Lines(said)
<1>1. /\ ring \in Seq(Texts) /\ Len(ring) <= RingMax /\ missed \in BOOLEAN /\ Len(ring) \in Nat
      /\ RingMax \in Nat /\ RingMax >= 2
  BY DongleBounds DEF DongleTypeOK, Texts
<1>2. /\ new \in Seq(Texts) /\ (new = << >> <=> said = << >>)
      /\ said # << >> => new[Len(new)] = NewLine /\ Len(new) > 0
  BY LinesOf DEF Whole
<1>3. talks => ring' = Fitting(ring \o new) /\ (missed' = (missed \/ Len(ring \o new) > RingMax \/ (said # << >> /\ cmd = <<NewLine>>)))
  BY DEF Announce
<1>4. ~talks => UNCHANGED <<ring, missed>>
  BY DEF Announce
<1> HIDE DEF new
<1>5. ring \o new \in Seq(Texts) /\ Len(ring \o new) = Len(ring) + Len(new) /\ Len(new) \in Nat
      /\ \A i \in 1..Len(new) : (ring \o new)[Len(ring) + i] = new[i]
  BY <1>1, <1>2, ConcatIs
<1>6. /\ Fitting(ring \o new) \in Seq(Texts) /\ Len(Fitting(ring \o new)) <= RingMax
      /\ Len(ring \o new) <= RingMax => Fitting(ring \o new) = ring \o new
      /\ ring \o new # << >> => /\ Fitting(ring \o new) # << >>
                                /\ Fitting(ring \o new)[Len(Fitting(ring \o new))] = (ring \o new)[Len(ring \o new)]
  BY <1>1, <1>5, FittingIs
<1>7. CASE ~talks
  BY <1>1, <1>4, <1>7
<1>8. CASE talks /\ said = << >>
  <2>1. ring \o new = ring
    BY <1>1, <1>2, <1>8, ConcatEmptySeq
  <2>2. QED
    BY <1>1, <1>3, <1>6, <1>8, <2>1
<1>9. CASE talks /\ said # << >>
  <2>1. ring \o new # << >>
    BY <1>1, <1>2, <1>5, <1>9, EmptySeq
  <2>2. (ring \o new)[Len(ring \o new)] = NewLine
    BY <1>1, <1>2, <1>5, <1>9
  <2>3. Len(ring \o new) \in Nat
    BY <1>1, <1>5
  <2>4. ASSUME ~missed' PROVE ~missed /\ cmd # <<NewLine>> /\ ring' = ring \o new
    <3>1. ~missed /\ ~(Len(ring \o new) > RingMax) /\ cmd # <<NewLine>>
      BY <1>3, <1>9, <2>4
    <3>2. Len(ring \o new) <= RingMax
      BY <1>1, <2>3, <3>1
    <3>3. QED
      BY <1>3, <1>6, <1>9, <3>1, <3>2
  <2>5. ring' # << >> /\ ring'[Len(ring')] = NewLine /\ ring' \in Seq(Texts) /\ Len(ring') <= RingMax /\ missed' \in BOOLEAN
    BY <1>1, <1>3, <1>6, <1>9, <2>1, <2>2
  <2>6. QED
    BY <1>9, <2>4, <2>5 DEF new
<1>10. QED
  BY <1>7, <1>8, <1>9

\* What a callback says, when it may have changed readiness.
News(before) == before \o IF linkReady' # linkReady THEN <<Ready(linkReady')>> ELSE << >>

LEMMA NewsIs ==
  ASSUME linkReady' \in BOOLEAN
  PROVE  /\ News(<< >>) = IF linkReady' # linkReady THEN <<Ready(linkReady')>> ELSE << >>
         /\ \A on \in BOOLEAN : News(<<Conn(on)>>) =
              IF linkReady' # linkReady THEN <<Conn(on), Ready(linkReady')>> ELSE <<Conn(on)>>
         /\ News(<< >>) \in Sayable
         /\ \A on \in BOOLEAN : News(<<Conn(on)>>) \in Sayable /\ News(<<Conn(on)>>) # << >>
<1>1. Ready(linkReady') \in Said /\ \A on \in BOOLEAN : Conn(on) \in Said
  BY TextsAre
<1>2. /\ << >> \in Seq(Said) /\ <<Ready(linkReady')>> \in Seq(Said)
      /\ << >> \o << >> = << >> /\ << >> \o <<Ready(linkReady')>> = <<Ready(linkReady')>>
  BY <1>1, ConcatEmptySeq, EmptySeq
<1>3. ASSUME NEW on \in BOOLEAN
      PROVE  /\ <<Conn(on)>> \o << >> = <<Conn(on)>>
             /\ <<Conn(on)>> \o <<Ready(linkReady')>> = <<Conn(on), Ready(linkReady')>>
  <2>1. <<Conn(on)>> \in Seq(Said)
    BY <1>1
  <2>2. QED
    BY <1>1, <2>1, ConcatEmptySeq, PairIs
<1>4. News(<< >>) = IF linkReady' # linkReady THEN <<Ready(linkReady')>> ELSE << >>
  BY <1>2 DEF News
<1>5. ASSUME NEW on \in BOOLEAN
      PROVE  News(<<Conn(on)>>) = IF linkReady' # linkReady THEN <<Conn(on), Ready(linkReady')>> ELSE <<Conn(on)>>
  BY <1>3 DEF News
<1>6. News(<< >>) \in Sayable
  BY <1>1, <1>4 DEF Sayable
<1>7. ASSUME NEW on \in BOOLEAN PROVE News(<<Conn(on)>>) \in Sayable /\ News(<<Conn(on)>>) # << >>
  <2>1. CASE linkReady' # linkReady
    <3>1. News(<<Conn(on)>>) = <<Conn(on), Ready(linkReady')>>
      BY <1>5, <2>1
    <3>2. <<Conn(on), Ready(linkReady')>> \in Sayable
      BY <1>1 DEF Sayable
    <3>3. <<Conn(on), Ready(linkReady')>> # << >>
      OBVIOUS
    <3>4. QED
      BY <3>1, <3>2, <3>3
  <2>2. CASE linkReady' = linkReady
    BY <1>1, <1>5, <2>2 DEF Sayable
  <2>3. QED
    BY <2>1, <2>2
<1>8. QED
  BY <1>4, <1>5, <1>6, <1>7

\* The last that is told is so after the step, and whatever changed is told.
Truthful(t) ==
  /\ \A i \in 1..Len(t) : TellsConn(t[i]) /\ (\A j \in 1..Len(t) : j > i => ~TellsConn(t[j])) => ConnTold(t[i]) = conn'
  /\ (\A i \in 1..Len(t) : ~TellsConn(t[i])) => conn' = conn
  /\ \A i \in 1..Len(t) : TellsReady(t[i]) /\ (\A j \in 1..Len(t) : j > i => ~TellsReady(t[j])) => ReadyTold(t[i]) = linkReady'
  /\ (\A i \in 1..Len(t) : ~TellsReady(t[i])) => linkReady' = linkReady

LEMMA TellsWhat ==
  /\ ~TellsConn(NewLine) /\ ~TellsReady(NewLine)
  /\ \A on \in BOOLEAN :
       /\ TellsConn(Conn(on)) /\ (ConnTold(Conn(on)) <=> on)
       /\ (TellsReady(Conn(on)) <=> ~on) /\ ~ReadyTold(Conn(on))
       /\ (TellsConn(Ready(on)) <=> on) /\ ConnTold(Ready(on))
       /\ TellsReady(Ready(on)) /\ (ReadyTold(Ready(on)) <=> on)
  /\ \A x \in Texts : /\ TellsConn(x) \in BOOLEAN /\ TellsReady(x) \in BOOLEAN
                      /\ ConnTold(x) \in BOOLEAN /\ ReadyTold(x) \in BOOLEAN
  BY DEF NewLine, Conn, Ready, TellsConn, TellsReady, ConnTold, ReadyTold, Texts, Said

LEMMA SaysTruth ==
  ASSUME conn \in BOOLEAN, conn' \in BOOLEAN, linkReady \in BOOLEAN, linkReady' \in BOOLEAN, linkReady' => conn',
         NEW before, (before = << >> /\ conn' = conn) \/ before = <<Conn(conn')>>
  PROVE  Truthful(Lines(News(before)))
<1> DEFINE c == Conn(conn')
           r == Ready(linkReady')
<1>1. c \in Said /\ r \in Said
  BY TextsAre
<1>2. /\ TellsConn(c) /\ (ConnTold(c) <=> conn') /\ (TellsReady(c) <=> ~conn') /\ ~ReadyTold(c)
      /\ (TellsConn(r) <=> linkReady') /\ ConnTold(r) /\ TellsReady(r) /\ (ReadyTold(r) <=> linkReady')
      /\ ~TellsConn(NewLine) /\ ~TellsReady(NewLine)
  BY TellsWhat
<1>3. /\ ConnTold(c) = conn' /\ (linkReady' => ConnTold(r) = conn') /\ ReadyTold(r) = linkReady'
      /\ (~conn' => ReadyTold(c) = linkReady')
  <2>1. ConnTold(c) \in BOOLEAN /\ ConnTold(r) \in BOOLEAN /\ ReadyTold(c) \in BOOLEAN /\ ReadyTold(r) \in BOOLEAN
    BY <1>1, TellsWhat DEF Texts
  <2>2. QED
    BY <1>2, <2>1
<1>4. CASE before = << >> /\ conn' = conn /\ linkReady' = linkReady
  <2>1. Lines(News(before)) = << >>
    BY <1>4, NewsIs, LinesAre
  <2>2. 1..Len(<< >>) = {}
    BY EmptySeq
  <2>3. Truthful(<< >>)
    BY <1>4, <2>2 DEF Truthful
  <2>4. QED
    BY <2>1, <2>3
<1>5. CASE before = << >> /\ conn' = conn /\ linkReady' # linkReady
  <2>1. News(before) = <<r>>
    BY <1>5, NewsIs
  <2>2. Lines(News(before)) = <<r, NewLine>>
    BY <1>1, <2>1, LinesAre
  <2> HIDE DEF r
  <2>3. Len(<<r, NewLine>>) = 2 /\ <<r, NewLine>>[1] = r /\ <<r, NewLine>>[2] = NewLine
    OBVIOUS
  <2>4. 1..2 = {1, 2}
    OBVIOUS
  <2>5. Truthful(<<r, NewLine>>)
    BY <1>2, <1>3, <1>5, <2>3, <2>4 DEF Truthful
  <2>6. QED
    BY <2>2, <2>5
<1>6. CASE before = <<Conn(conn')>> /\ linkReady' = linkReady
  <2>1. News(before) = <<c>>
    BY <1>6, NewsIs
  <2>2. Lines(News(before)) = <<c, NewLine>>
    BY <1>1, <2>1, LinesAre
  <2> HIDE DEF c
  <2>3. Len(<<c, NewLine>>) = 2 /\ <<c, NewLine>>[1] = c /\ <<c, NewLine>>[2] = NewLine
    OBVIOUS
  <2>4. 1..2 = {1, 2}
    OBVIOUS
  <2>5. Truthful(<<c, NewLine>>)
    BY <1>2, <1>3, <1>6, <2>3, <2>4 DEF Truthful
  <2>6. QED
    BY <2>2, <2>5
<1>7. CASE before = <<Conn(conn')>> /\ linkReady' # linkReady
  <2>1. News(before) = <<c, r>>
    BY <1>7, NewsIs
  <2>2. Lines(News(before)) = <<c, NewLine, r, NewLine>>
    BY <1>1, <2>1, LinesAre
  <2> HIDE DEF c, r
  <2> DEFINE t == <<c, NewLine, r, NewLine>>
  <2>3. Len(t) = 4 /\ t[1] = c /\ t[2] = NewLine /\ t[3] = r /\ t[4] = NewLine
    OBVIOUS
  <2> HIDE DEF t
  <2>4. 1..4 = {1, 2, 3, 4}
    OBVIOUS
  <2>5. Truthful(t)
    BY <1>2, <1>3, <1>7, <2>3, <2>4 DEF Truthful
  <2>6. QED
    BY <2>2, <2>5 DEF t
<1>8. QED
  BY <1>4, <1>5, <1>6, <1>7

(***************************************************************************)
(* The dongle's types.                                                     *)
(***************************************************************************)
\* A callback: it says what has changed, and readiness is computed.
RadioSays ==
  /\ present /\ UNCHANGED <<present, talks, rx, cmd, refused, troubles>>
  /\ linkReady' = CanCarryKeys'
  /\ \E said \in Sayable : Announce(said) /\ Truthful(Lines(said))
  /\ atv' = atv \/ atv' = [r \in Reports |-> "up"]

LEMMA RadioIs ==
  ASSUME DongleTypeOK, RadioStep
  PROVE  RadioSays /\ DongleTypeOK'
<1> DEFINE Event(before) ==
      /\ BtEvent /\ UpdateLinkReady(before)
      /\ conn' \in BOOLEAN /\ secure' \in BOOLEAN /\ suspended' \in BOOLEAN /\ notify' \subseteq Reports
      /\ (before = << >> /\ conn' = conn) \/ before = <<Conn(conn')>>
      /\ atv' = atv \/ atv' = [r \in Reports |-> "up"]
<1>1. ASSUME NEW before, Event(before) PROVE RadioSays /\ DongleTypeOK'
  <2>1. /\ linkReady' = CanCarryKeys' /\ linkReady' \in BOOLEAN /\ (linkReady' => conn')
        /\ Announce(News(before))
    BY <1>1 DEF UpdateLinkReady, CanCarryKeys, News
  <2>2. News(before) \in Sayable
    BY <1>1, <2>1, NewsIs
  <2>3. Truthful(Lines(News(before)))
    BY <1>1, <2>1, SaysTruth DEF DongleTypeOK
  <2>4. present /\ UNCHANGED <<present, talks, rx, cmd, refused, troubles>>
    BY <1>1 DEF BtEvent
  <2>5. RadioSays
    BY <1>1, <2>1, <2>2, <2>3, <2>4 DEF RadioSays
  <2>6. ring' \in Seq(Texts) /\ Len(ring') <= RingMax /\ missed' \in BOOLEAN
    <3>1. ring \in Seq(Texts) /\ Len(ring) <= RingMax /\ missed \in BOOLEAN
      BY DEF DongleTypeOK, Texts
    <3>2. QED
      BY <2>1, <2>2, <3>1, Announced
  <2>7. atv' \in [Reports -> Edges]
    BY <1>1 DEF DongleTypeOK, Edges
  <2>8. QED
    BY <1>1, <2>1, <2>4, <2>5, <2>6, <2>7 DEF DongleTypeOK, Texts
<1>2. CASE Connected
  <2>1. Event(<<Conn(TRUE)>>)
    BY <1>2 DEF Connected
  <2>2. QED
    BY <1>1, <2>1
<1>3. CASE Disconnected
  <2>1. Event(<<Conn(FALSE)>>)
    BY <1>3 DEF Disconnected
  <2>2. QED
    BY <1>1, <2>1
<1>4. CASE SecurityChanged
  <2>1. Event(<< >>)
    BY <1>4 DEF SecurityChanged, DongleTypeOK
  <2>2. QED
    BY <1>1, <2>1
<1>5. CASE CtrlPoint
  <2>1. Event(<< >>)
    BY <1>5 DEF CtrlPoint, DongleTypeOK
  <2>2. QED
    BY <1>1, <2>1
<1>6. ASSUME NEW r \in Reports, CccChanged(r) PROVE RadioSays /\ DongleTypeOK'
  <2>1. Event(<< >>)
    BY <1>6 DEF CccChanged, DongleTypeOK
  <2>2. QED
    BY <1>1, <2>1
<1>7. QED
  BY <1>2, <1>3, <1>4, <1>5, <1>6 DEF RadioStep

\* The command thread's write of one text.
LEMMA SendIs ==
  ASSUME DongleTypeOK, talks, NEW x \in Texts, Send(<<x>>)
  PROVE  /\ ring' \in Seq(Texts) /\ Len(ring') <= RingMax /\ missed' \in BOOLEAN
         /\ ring' # << >> /\ ring'[Len(ring')] = x
         /\ ~missed' => ~missed /\ ring' = ring \o <<x>>
<1>1. /\ ring \in Seq(Texts) /\ Len(ring) <= RingMax /\ missed \in BOOLEAN /\ Len(ring) \in Nat
      /\ RingMax \in Nat /\ RingMax >= 2
  BY DongleBounds DEF DongleTypeOK, Texts
<1>2. ring' = Fitting(ring \o <<x>>) /\ missed' = (missed \/ Len(ring \o <<x>>) > RingMax)
  BY DEF Send
<1>3. <<x>> \in Seq(Texts) /\ Len(<<x>>) = 1 /\ <<x>>[1] = x
  OBVIOUS
<1>4. /\ ring \o <<x>> \in Seq(Texts) /\ Len(ring \o <<x>>) = Len(ring) + 1
      /\ (ring \o <<x>>)[Len(ring) + 1] = x
  BY <1>1, <1>3, ConcatIs
<1>5. ring \o <<x>> # << >> /\ Len(ring \o <<x>>) \in Nat
  BY <1>1, <1>4, EmptySeq
<1>6. /\ Fitting(ring \o <<x>>) \in Seq(Texts) /\ Len(Fitting(ring \o <<x>>)) <= RingMax
      /\ Len(ring \o <<x>>) <= RingMax => Fitting(ring \o <<x>>) = ring \o <<x>>
      /\ Fitting(ring \o <<x>>) # << >>
      /\ Fitting(ring \o <<x>>)[Len(Fitting(ring \o <<x>>))] = (ring \o <<x>>)[Len(ring \o <<x>>)]
  BY <1>1, <1>4, <1>5, FittingIs
<1>7. ASSUME ~missed' PROVE ~missed /\ ring' = ring \o <<x>>
  <2>1. ~missed /\ ~(Len(ring \o <<x>>) > RingMax)
    BY <1>2, <1>7
  <2>2. QED
    BY <1>1, <1>2, <1>5, <1>6, <2>1
<1>8. missed' \in BOOLEAN
  BY <1>2
<1>9. QED
  BY <1>2, <1>4, <1>6, <1>7, <1>8

\* A STATUS that pushes out others leaves the newline before it.
LEMMA StatusIs ==
  ASSUME DongleTypeOK, NEW x \in Texts, ring' = Fitting(Append(ring, x))
  PROVE  /\ ring' \in Seq(Texts) /\ Len(ring') <= RingMax
         /\ ring' # << >> /\ Len(ring') \in Nat /\ ring'[Len(ring')] = x
         /\ ring = << >> => Len(ring') = 1
         /\ ring # << >> => Len(ring') >= 2 /\ ring'[Len(ring') - 1] = ring[Len(ring)]
<1>1. /\ ring \in Seq(Texts) /\ Len(ring) <= RingMax /\ Len(ring) \in Nat
      /\ RingMax \in Nat /\ RingMax >= 2
  BY DongleBounds DEF DongleTypeOK, Texts
<1>2. /\ Append(ring, x) \in Seq(Texts) /\ Append(ring, x) # << >> /\ Len(Append(ring, x)) = Len(ring) + 1
      /\ \A i \in 1..Len(ring) : Append(ring, x)[i] = ring[i]
      /\ Append(ring, x)[Len(ring) + 1] = x
  BY <1>1, AppendIs
<1>3. /\ ring' \in Seq(Texts) /\ Len(ring') <= RingMax
      /\ Len(Append(ring, x)) <= RingMax => ring' = Append(ring, x)
      /\ ring' # << >> /\ ring'[Len(ring')] = Append(ring, x)[Len(ring) + 1]
      /\ Len(Append(ring, x)) >= 2 => Len(ring') >= 2 /\ ring'[Len(ring') - 1] = Append(ring, x)[Len(ring)]
  <2>1. Len(Append(ring, x)) - 1 = Len(ring)
    BY <1>1, <1>2
  <2> DEFINE a == Append(ring, x)
  <2>2. /\ a \in Seq(Texts) /\ a # << >> /\ RingMax \in Nat /\ RingMax >= 2 /\ ring' = Fitting(a)
        /\ Len(a) = Len(ring) + 1 /\ Len(a) - 1 = Len(ring)
    BY <1>1, <1>2, <2>1
  <2> HIDE DEF a
  <2>3. /\ Fitting(a) \in Seq(Texts) /\ Len(Fitting(a)) <= RingMax
        /\ Len(a) <= RingMax => Fitting(a) = a
        /\ Fitting(a) # << >> /\ Fitting(a)[Len(Fitting(a))] = a[Len(a)]
        /\ Len(a) >= 2 => Len(Fitting(a)) >= 2 /\ Fitting(a)[Len(Fitting(a)) - 1] = a[Len(a) - 1]
    BY <2>2, FittingIs
  <2>4. QED
    BY <2>2, <2>3 DEF a
<1>4. ASSUME ring # << >> PROVE Len(ring') >= 2 /\ ring'[Len(ring') - 1] = ring[Len(ring)]
  <2>1. Len(ring) > 0
    BY <1>1, <1>4, EmptySeq
  <2>2. QED
    BY <1>1, <1>2, <1>3, <2>1
<1>5. ASSUME ring = << >> PROVE Len(ring') = 1
  <2>1. Len(ring) = 0
    BY <1>5, EmptySeq
  <2>2. QED
    BY <1>1, <1>2, <1>3, <2>1
<1>6. Len(ring') \in Nat
  BY <1>3, LenProperties
<1>7. QED
  BY <1>2, <1>3, <1>4, <1>5, <1>6

\* What the command thread has to write.
CmdOK ==
  \/ cmd = << >> \/ cmd = <<NewLine>>
  \/ Len(cmd) = 2 /\ cmd[1].line \in {"PONG", "STATUS"} /\ cmd[2] = NewLine

LEMMA ReplyIs ==
  ASSUME DongleTypeOK
  PROVE  /\ Reply(<<"PING">>) \in Said /\ Reply(<<"PING">>).line = "PONG"
         /\ Reply(<<"STATUS">>) \in Said /\ Reply(<<"STATUS">>).line = "STATUS"
         /\ Reply(<<"STATUS">>).connected = conn /\ Reply(<<"STATUS">>).ready = linkReady
<1>1. <<"PING">> # <<"STATUS">>
  BY ItemsAre
<1>2. Reply(<<"PING">>) = [line |-> "PONG", connected |-> FALSE, ready |-> FALSE]
  BY <1>1 DEF Reply
<1>3. Reply(<<"STATUS">>) = [line |-> "STATUS", connected |-> conn, ready |-> linkReady]
  BY <1>1 DEF Reply
<1>4. conn \in BOOLEAN /\ linkReady \in BOOLEAN
  BY DEF DongleTypeOK
<1>5. [line |-> "STATUS", connected |-> conn, ready |-> linkReady] \in Said
  BY <1>4 DEF Said
<1>6. [line |-> "PONG", connected |-> FALSE, ready |-> FALSE] \in Said
  BY DEF Said
<1>7. QED
  BY <1>2, <1>3, <1>5, <1>6

\* What waits for the command thread.
LEMMA RxIs ==
  ASSUME DongleTypeOK
  PROVE  /\ rx \in Seq(Landing) /\ Len(rx) \in Nat /\ Len(rx) <= RxMax /\ RxMax \in Nat /\ RxMax >= 1
         /\ DOMAIN rx = 1..Len(rx) /\ \A i \in 1..Len(rx) : rx[i] \in Landing
<1>1. rx \in Seq(Landing) /\ Len(rx) <= RxMax
  BY DEF DongleTypeOK, Landing
<1>2. RxMax \in Nat /\ RxMax >= 1
  BY DongleBounds
<1>3. QED
  BY <1>1, <1>2, LenProperties

LEMMA SameRest ==
  ASSUME DongleTypeOK, UNCHANGED <<present, talks, radio, linkReady, cmd, ring>>,
         rx' \in Seq(Landing), Len(rx') <= RxMax, missed' \in BOOLEAN,
         atv' \in [Reports -> Edges], refused' \subseteq Reports
  PROVE  DongleTypeOK'
  BY DEF DongleTypeOK, radio, Landing

LEMMA TakesIs ==
  ASSUME DongleTypeOK, CommandTakes
  PROVE  /\ DongleTypeOK' /\ present /\ talks /\ cmd = << >> /\ rx # << >> /\ rx' = Tail(rx)
         /\ UNCHANGED <<present, talks, radio, linkReady, ring, missed, btEvents, troubles>>
         /\ \/ IsFrame(Head(rx)) /\ Head(rx) \in Frames /\ Report(Head(rx)) /\ cmd' = cmd
            \/ /\ ~IsFrame(Head(rx)) /\ Head(rx) = <<"PING">> /\ UNCHANGED <<atv, refused>>
               /\ Len(cmd') = 2 /\ cmd'[1].line = "PONG" /\ cmd'[2] = NewLine
            \/ /\ ~IsFrame(Head(rx)) /\ Head(rx) = <<"STATUS">> /\ UNCHANGED <<atv, refused>>
               /\ Len(cmd') = 2 /\ cmd'[1].line = "STATUS" /\ cmd'[2] = NewLine
<1>1. /\ present /\ talks /\ cmd = << >> /\ rx # << >> /\ rx' = Tail(rx)
      /\ UNCHANGED <<present, talks, radio, linkReady, ring, missed, btEvents, troubles>>
  BY DEF CommandTakes
<1>2. rx \in Seq(Landing) /\ Head(rx) \in Items /\ rx' \in Seq(Landing) /\ Len(rx') <= RxMax
  <2>1. Head(rx) \in Landing /\ rx' \in Seq(Landing) /\ Len(rx') = Len(rx) - 1
    BY <1>1, RxIs, TailIs
  <2>2. Head(rx) # Scrap
    BY DEF CommandTakes
  <2>3. QED
    BY <2>1, <2>2, RxIs, LandingIs
<1>3. CASE IsFrame(Head(rx))
  <2>1. Report(Head(rx)) /\ cmd' = cmd
    BY <1>3 DEF CommandTakes
  <2>2. Head(rx) \in Frames
    BY <1>2, <1>3, ItemsAre DEF Items
  <2>3. Head(rx)[1] \in Reports /\ Head(rx)[2] \in Edges
    BY <2>2, ItemsAre
  <2>4. atv' \in [Reports -> Edges] /\ refused' \subseteq Reports
    BY <2>1, <2>3 DEF Report, DongleTypeOK
  <2>5. DongleTypeOK'
    BY <1>1, <1>2, <2>1, <2>4, SameRest DEF DongleTypeOK
  <2>6. QED
    BY <1>1, <1>3, <2>1, <2>2, <2>5
<1>4. CASE ~IsFrame(Head(rx))
  <2>1. cmd' = <<Reply(Head(rx)), NewLine>> /\ UNCHANGED <<atv, refused>>
    BY <1>4 DEF CommandTakes
  <2>2. Head(rx) = <<"PING">> \/ Head(rx) = <<"STATUS">>
    BY <1>2, <1>4, ItemsAre
  <2>3. /\ Reply(Head(rx)) \in Said
        /\ Reply(Head(rx)).line = IF Head(rx) = <<"PING">> THEN "PONG" ELSE "STATUS"
    BY <2>2, ReplyIs, ItemsAre
  <2>4. cmd' \in Seq(Texts) /\ Len(cmd') = 2 /\ cmd'[1] = Reply(Head(rx)) /\ cmd'[2] = NewLine
    BY <2>1, <2>3 DEF Texts
  <2>5. DongleTypeOK'
    BY <1>1, <1>2, <2>1, <2>4 DEF DongleTypeOK, radio, Landing, Texts
  <2>6. QED
    BY <1>1, <1>4, <2>1, <2>2, <2>3, <2>4, <2>5, ItemsAre
<1>5. QED
  BY <1>3, <1>4

\* What a scrap leaves of the queue: everything after its n bytes' worth, and
\* perhaps a scrap before that.
Bitten(n, d) ==
  /\ d \in Nat /\ Len(rx') = Len(rx) - d /\ DOMAIN rx' = 1..(Len(rx) - d)
  /\ \A i \in 1..(Len(rx) - d) : i + d \in 1..Len(rx) /\ (rx'[i] = rx[i + d] \/ rx'[i] = Scrap)
  /\ \A j \in (n + 1)..Len(rx) : j - d \in 1..(Len(rx) - d) /\ rx'[j - d] = rx[j]

LEMMA MisreadIs ==
  ASSUME DongleTypeOK, NEW n \in 1..Len(rx), CommandMisreads(n)
  PROVE  /\ DongleTypeOK' /\ rx' \in Seq(Landing) /\ \E d \in {n, n - 1} : Bitten(n, d)
         /\ UNCHANGED <<present, talks, radio, linkReady, cmd, ring, refused, btEvents, troubles>>
         /\ missed' = (missed \/ \E i \in 1..n : rx[i] = <<"STATUS">>)
<1>1. /\ UNCHANGED <<present, talks, radio, linkReady, cmd, ring, refused, btEvents, troubles>>
      /\ missed' = (missed \/ \E i \in 1..n : rx[i] = <<"STATUS">>)
      /\ atv' = atv \/ \E r \in Reports, e \in Edges : atv' = [atv EXCEPT ![r] = e]
  BY DEF CommandMisreads
<1>2. /\ rx \in Seq(Landing) /\ Len(rx) \in Nat /\ Len(rx) <= RxMax /\ RxMax \in Nat
      /\ n \in Nat /\ n >= 1 /\ n <= Len(rx)
  BY RxIs
<1> DEFINE rest == SubSeq(rx, n + 1, Len(rx))
<1>3. /\ rest \in Seq(Landing) /\ Len(rest) = Len(rx) - n /\ DOMAIN rest = 1..(Len(rx) - n)
      /\ \A i \in 1..(Len(rx) - n) : rest[i] = rx[i + n]
  <2>1. /\ rest \in Seq(Landing) /\ Len(rest) = Len(rx) - (n + 1) + 1
        /\ DOMAIN rest = 1..(Len(rx) - (n + 1) + 1)
        /\ \A i \in 1..(Len(rx) - (n + 1) + 1) : rest[i] = rx[(n + 1) + i - 1]
    <3>1. n + 1 \in Nat /\ n + 1 >= 1 /\ n + 1 <= Len(rx) + 1 /\ Len(rx) <= Len(rx)
      BY <1>2
    <3>2. QED
      BY <1>2, <3>1, PieceIs
  <2>2. Len(rx) - (n + 1) + 1 = Len(rx) - n
    BY <1>2
  <2>3. ASSUME NEW i \in 1..(Len(rx) - n) PROVE rest[i] = rx[i + n]
    <3>1. (n + 1) + i - 1 = i + n
      BY <1>2
    <3>2. rest[i] = rx[(n + 1) + i - 1]
      BY <2>1, <2>2
    <3>3. QED
      BY <3>1, <3>2
  <2>4. QED
    BY <2>1, <2>2, <2>3
<1>4. rx' = rest \/ rx' = <<Scrap>> \o rest
  BY DEF CommandMisreads
<1> HIDE DEF rest
<1>5. CASE rx' = rest
  <2>1. Bitten(n, n)
    BY <1>2, <1>3, <1>5 DEF Bitten
  <2>2. rx' \in Seq(Landing) /\ Len(rx') <= RxMax
    BY <1>2, <1>3, <1>5
  <2>3. QED
    BY <1>1, <2>1, <2>2, SameRest DEF DongleTypeOK
<1>6. CASE rx' = <<Scrap>> \o rest
  <2>2. /\ rx' \in Seq(Landing) /\ Len(rx') = 1 + Len(rest) /\ DOMAIN rx' = 1..(1 + Len(rest))
        /\ rx'[1] = Scrap /\ \A i \in 1..Len(rest) : rx'[1 + i] = rest[i]
    <3>1. Scrap \in Landing /\ rest \in Seq(Landing)
      BY <1>3, LandingIs
    <3>2. /\ <<Scrap>> \o rest \in Seq(Landing) /\ Len(<<Scrap>> \o rest) = 1 + Len(rest)
          /\ DOMAIN (<<Scrap>> \o rest) = 1..(1 + Len(rest)) /\ (<<Scrap>> \o rest)[1] = Scrap
          /\ \A i \in 1..Len(rest) : (<<Scrap>> \o rest)[1 + i] = rest[i]
      BY <3>1, InFront
    <3>3. QED
      BY <1>6, <3>2
  <2>3. n - 1 \in Nat /\ Len(rx') = Len(rx) - (n - 1) /\ DOMAIN rx' = 1..(Len(rx) - (n - 1)) /\ Len(rx') <= RxMax
    BY <1>2, <1>3, <2>2
  <2>4. ASSUME NEW i \in 1..(Len(rx) - (n - 1))
        PROVE  i + (n - 1) \in 1..Len(rx) /\ (rx'[i] = rx[i + (n - 1)] \/ rx'[i] = Scrap)
    <3>1. i + (n - 1) \in 1..Len(rx)
      BY <1>2
    <3>2. CASE i = 1
      BY <2>2, <3>1, <3>2
    <3>3. CASE i # 1
      <4>1. i - 1 \in 1..(Len(rx) - n) /\ 1 + (i - 1) = i /\ (i - 1) + n = i + (n - 1)
        BY <1>2, <3>3
      <4>2. QED
        BY <1>3, <2>2, <3>1, <4>1
    <3>4. QED
      BY <3>2, <3>3
  <2>5. ASSUME NEW j \in (n + 1)..Len(rx)
        PROVE  j - (n - 1) \in 1..(Len(rx) - (n - 1)) /\ rx'[j - (n - 1)] = rx[j]
    <3>1. /\ j - n \in 1..(Len(rx) - n) /\ (j - n) + n = j /\ 1 + (j - n) = j - (n - 1)
          /\ j - (n - 1) \in 1..(Len(rx) - (n - 1))
      BY <1>2
    <3>2. QED
      BY <1>3, <2>2, <3>1
  <2>6. Bitten(n, n - 1)
    BY <2>3, <2>4, <2>5 DEF Bitten
  <2>7. QED
    BY <1>1, <2>2, <2>3, <2>6, SameRest DEF DongleTypeOK
<1>7. QED
  BY <1>4, <1>5, <1>6

LEMMA WritesIs ==
  ASSUME DongleTypeOK, CmdOK, cmd # << >> => talks, CommandWrites
  PROVE  /\ DongleTypeOK' /\ present /\ cmd # << >> /\ ring' # << >>
         /\ UNCHANGED <<present, talks, radio, linkReady, rx, atv, refused, btEvents, troubles>>
         /\ \/ /\ cmd = <<NewLine>> /\ cmd' = << >> /\ ring'[Len(ring')] = NewLine
               /\ ~missed' => ~missed /\ ring' = ring \o <<NewLine>>
            \/ \E x \in Said :
                 /\ x.line = "PONG" /\ cmd[1] = x /\ cmd # <<NewLine>> /\ cmd' = <<NewLine>>
                 /\ ~missed' => ~missed /\ ring' = ring \o <<x>>
            \/ \E x \in Said :
                 /\ x.line = "STATUS" /\ cmd[1] = x /\ cmd # <<NewLine>> /\ cmd' = <<NewLine>>
                 /\ ring' = Fitting(Append(ring, x))
                 /\ ~missed' => x.connected = conn /\ x.ready = linkReady
<1>1. /\ present /\ cmd # << >> /\ talks /\ cmd' = Tail(cmd)
      /\ UNCHANGED <<present, talks, radio, linkReady, rx, atv, refused, btEvents, troubles>>
  BY DEF CommandWrites
<1>2. cmd \in Seq(Texts)
  BY DEF DongleTypeOK, Texts
<1>3. CASE cmd = <<NewLine>>
  <2>1. Head(cmd) = NewLine /\ Head(cmd).line # "STATUS" /\ cmd' = << >>
    BY <1>1, <1>3, TextsAre
  <2>2. Send(<<NewLine>>)
    BY <2>1 DEF CommandWrites
  <2>3. /\ ring' \in Seq(Texts) /\ Len(ring') <= RingMax /\ missed' \in BOOLEAN
        /\ ring' # << >> /\ ring'[Len(ring')] = NewLine
        /\ ~missed' => ~missed /\ ring' = ring \o <<NewLine>>
    BY <1>1, <2>2, SendIs DEF Texts
  <2>4. cmd' \in Seq(Texts)
    BY <2>1, EmptySeq
  <2>5. DongleTypeOK'
    BY <1>1, <2>3, <2>4 DEF DongleTypeOK, radio, Texts
  <2>6. QED
    BY <1>1, <1>3, <2>1, <2>3, <2>5
<1>4. CASE Len(cmd) = 2 /\ cmd[1].line \in {"PONG", "STATUS"} /\ cmd[2] = NewLine
  <2>1. /\ Head(cmd) = cmd[1] /\ cmd[1] \in Said /\ cmd # <<NewLine>>
        /\ cmd' \in Seq(Texts) /\ Len(cmd') = 1 /\ cmd'[1] = NewLine
    <3>1. /\ Tail(cmd) \in Seq(Texts) /\ Head(cmd) \in Texts /\ Head(cmd) = cmd[1]
          /\ Len(Tail(cmd)) = Len(cmd) - 1 /\ \A i \in 1..(Len(cmd) - 1) : Tail(cmd)[i] = cmd[i + 1]
      BY <1>1, <1>2, TailIs
    <3>2. Len(Tail(cmd)) = 1 /\ Tail(cmd)[1] = NewLine
      <4>1. Len(cmd) = 2 /\ cmd[2] = NewLine
        BY <1>4
      <4>2. 1 \in 1..(2 - 1) /\ 2 - 1 = 1 /\ 1 + 1 = 2
        OBVIOUS
      <4>3. QED
        BY <3>1, <4>1, <4>2
    <3>3. cmd[1] # NewLine
      BY <1>4, TextsAre
    <3>4. Len(<<NewLine>>) = 1
      OBVIOUS
    <3>5. cmd[1] \in Said /\ cmd # <<NewLine>>
      BY <1>4, <3>1, <3>3, <3>4, TextsAre
    <3>6. QED
      BY <1>1, <3>1, <3>2, <3>5
  <2>2. cmd' = <<NewLine>>
    <3>1. <<NewLine>> \in Seq(Texts) /\ Len(<<NewLine>>) = 1 /\ <<NewLine>>[1] = NewLine
      BY DEF Texts
    <3>2. QED
      BY <2>1, <3>1, SeqEqual
  <2>3. CASE cmd[1].line = "PONG"
    <3>1. Send(<<cmd[1]>>)
      BY <2>1, <2>3 DEF CommandWrites
    <3>2. /\ ring' \in Seq(Texts) /\ Len(ring') <= RingMax /\ missed' \in BOOLEAN /\ ring' # << >>
          /\ ~missed' => ~missed /\ ring' = ring \o <<cmd[1]>>
      BY <1>1, <2>1, <3>1, SendIs DEF Texts
    <3>3. DongleTypeOK'
      BY <1>1, <2>1, <3>2 DEF DongleTypeOK, radio, Texts
    <3>4. QED
      BY <1>1, <2>1, <2>2, <2>3, <3>2, <3>3
  <2>4. CASE cmd[1].line = "STATUS"
    <3>1. /\ ring' = Fitting(Append(ring, cmd[1]))
          /\ missed' = (cmd[1].connected # conn \/ cmd[1].ready # linkReady)
      BY <2>1, <2>4 DEF CommandWrites
    <3>2. ring' \in Seq(Texts) /\ Len(ring') <= RingMax /\ ring' # << >>
      BY <2>1, <3>1, StatusIs DEF Texts
    <3>3. missed' \in BOOLEAN /\ (~missed' => cmd[1].connected = conn /\ cmd[1].ready = linkReady)
      BY <3>1
    <3>4. DongleTypeOK'
      BY <1>1, <2>1, <3>2, <3>3 DEF DongleTypeOK, radio, Texts
    <3>5. QED
      BY <1>1, <2>1, <2>2, <2>4, <3>1, <3>2, <3>3, <3>4
  <2>5. QED
    BY <1>4, <2>3, <2>4
<1>5. QED
  BY <1>1, <1>3, <1>4 DEF CmdOK

(***************************************************************************)
(* Types, the port, and what is asked and said: every step keeps them.     *)
(***************************************************************************)
HostTypeOK ==
  /\ open \in BOOLEAN /\ alive \in BOOLEAN /\ linkDown \in BOOLEAN
  /\ connecting \in {"retry", "settle", "pinged", "idle"}
  /\ heard \in BOOLEAN
  /\ view \in View
  /\ partial \in Seq(Said)
  /\ readLost \in BOOLEAN
  /\ txq \in Seq(Items) /\ Len(txq) <= TxMax
  /\ writer \in {"waiting", "backoff"}
  /\ asked \in [Reports -> Edges] /\ escaped \subseteq Reports

Base == DongleTypeOK /\ HostTypeOK /\ PortOK /\ OnceAsked /\ LinesEnd

LEMMA TypesAre == TypeOK <=> DongleTypeOK /\ HostTypeOK
  BY DEF TypeOK, HostTypeOK, Items

LEMMA EmptyQueue ==
  ASSUME txq' = << >>
  PROVE  OnceAsked' /\ txq' \in Seq(Items) /\ (TxMax \in Nat => Len(txq') <= TxMax)
<1>1. DOMAIN txq' = {} /\ txq' \in Seq(Items) /\ Len(txq') = 0
  BY EmptySeq
<1>2. QED
  BY <1>1 DEF OnceAsked

LEMMA SameDongle ==
  ASSUME DongleTypeOK,
         UNCHANGED <<present, talks, radio, linkReady, rx, cmd, ring, atv, refused>>, missed' \in BOOLEAN
  PROVE  DongleTypeOK'
  BY DEF DongleTypeOK, radio

LEMMA SameLines ==
  ASSUME LinesEnd, UNCHANGED <<talks, cmd, ring, partial>>, alive' => alive
  PROVE  LinesEnd'
  BY DEF LinesEnd

LEMMA RadioKeepsBase ==
  ASSUME Base, RadioStep, UNCHANGED host
  PROVE  Base'
<1>1. RadioSays /\ DongleTypeOK'
  BY RadioIs DEF Base
<1>2. HostTypeOK' /\ PortOK' /\ OnceAsked'
  BY <1>1 DEF Base, HostTypeOK, PortOK, OnceAsked, host, port, RadioSays
<1>3. LinesEnd'
  <2>1. PICK said \in Sayable : Announce(said)
    BY <1>1 DEF RadioSays
  <2>2. ring' = ring \/ (ring' # << >> /\ ring'[Len(ring')] = NewLine)
    BY <2>1, Announced DEF Base
  <2>3. UNCHANGED <<talks, cmd, alive, partial>>
    BY <1>1 DEF RadioSays, host, port
  <2>4. QED
    BY <2>2, <2>3 DEF LinesEnd, Base
<1>4. QED
  BY <1>1, <1>2, <1>3 DEF Base

LEMMA CommandKeepsBase ==
  ASSUME Base, DongleCommand
  PROVE  Base'
<1>1. DongleTypeOK /\ CmdOK /\ (cmd # << >> => talks)
  BY DEF Base, LinesEnd, CmdOK
<1>2. /\ UNCHANGED <<port, connecting, heard, view, partial, readLost, txq, writer, asked, keys>>
      /\ escaped' \subseteq Reports
  <2>1. \A items : UpsAmong(items) \subseteq Reports
    BY DEF UpsAmong
  <2>2. QED
    BY <2>1 DEF DongleCommand, Escaped, Base, HostTypeOK
<1>3. HostTypeOK'
  BY <1>2 DEF HostTypeOK, Base, port
<1>7. ASSUME NEW n \in 1..Len(rx), CommandMisreads(n)
      PROVE  Base'
  <2>1. DongleTypeOK' /\ UNCHANGED <<present, talks, cmd, ring>>
    BY <1>1, <1>7, MisreadIs
  <2>2. PortOK' /\ OnceAsked' /\ LinesEnd'
    BY <1>2, <2>1 DEF Base, PortOK, OnceAsked, LinesEnd, port
  <2>3. QED
    BY <1>3, <2>1, <2>2 DEF Base
<1>4. CASE CommandTakes
  <2>1. DongleTypeOK' /\ UNCHANGED <<present, talks, ring>> /\ cmd = << >> /\ talks
        /\ (cmd' = cmd \/ (Len(cmd') = 2 /\ cmd'[1].line \in {"PONG", "STATUS"} /\ cmd'[2] = NewLine))
    BY <1>1, <1>4, TakesIs
  <2>2. PortOK' /\ OnceAsked'
    BY <1>2, <2>1 DEF Base, PortOK, OnceAsked, port
  <2>3. LinesEnd'
    <3>1. cmd # <<NewLine>>
      BY <2>1
    <3>2. IF ring # << >> THEN ring[Len(ring)] = NewLine ELSE alive => partial = << >>
      BY <3>1 DEF Base, LinesEnd
    <3>3. QED
      BY <1>2, <2>1, <3>2 DEF LinesEnd, port
  <2>4. QED
    BY <1>3, <2>1, <2>2, <2>3 DEF Base
<1>5. CASE CommandWrites
  <2>1. /\ DongleTypeOK' /\ UNCHANGED <<present, talks>> /\ cmd # << >> /\ ring' # << >>
        /\ (cmd' = << >> /\ ring'[Len(ring')] = NewLine) \/ cmd' = <<NewLine>>
    BY <1>1, <1>5, WritesIs
  <2>2. PortOK' /\ OnceAsked'
    BY <1>2, <2>1 DEF Base, PortOK, OnceAsked, port
  <2>3. LinesEnd'
    BY <1>1, <2>1 DEF LinesEnd
  <2>4. QED
    BY <1>3, <2>1, <2>2, <2>3 DEF Base
<1>6. QED
  BY <1>4, <1>5, <1>7 DEF DongleCommand, CommandStep

LEMMA GoneKeepsBase ==
  ASSUME Base, DongleGone
  PROVE  Base'
<1>1. /\ present' = FALSE /\ talks' = FALSE /\ cmd' = << >> /\ ring' = << >> /\ rx' = << >>
      /\ alive' = FALSE
      /\ UNCHANGED <<open, linkDown, connecting, heard, view, partial, readLost, txq, writer, asked, escaped, keys>>
  BY DEF DongleGone, Unplug
<1>2. DongleTypeOK'
  <2>1. << >> \in Seq(Texts) /\ << >> \in Seq(Landing) /\ Len(<< >>) = 0 /\ RingMax \in Nat /\ RxMax \in Nat
    BY EmptySeq, DongleBounds
  <2>2. /\ conn' = FALSE /\ secure' = FALSE /\ notify' = {} /\ suspended' = FALSE /\ linkReady' = FALSE
        /\ atv' = [r \in Reports |-> "up"] /\ missed' = FALSE /\ refused' = {}
    BY DEF DongleGone, Unplug
  <2>3. atv' \in [Reports -> Edges]
    BY <2>2 DEF Edges
  <2>4. /\ ring' \in Seq(Texts) /\ Len(ring') <= RingMax /\ cmd' \in Seq(Texts)
        /\ rx' \in Seq(Landing) /\ Len(rx') <= RxMax
    BY <1>1, <2>1
  <2>5. QED
    BY <1>1, <2>2, <2>3, <2>4 DEF DongleTypeOK, Texts, Landing
<1>3. HostTypeOK' /\ PortOK' /\ OnceAsked'
  BY <1>1 DEF Base, HostTypeOK, PortOK, OnceAsked
<1>4. LinesEnd'
  BY <1>1 DEF LinesEnd
<1>5. QED
  BY <1>2, <1>3, <1>4 DEF Base

LEMMA PlugKeepsBase ==
  ASSUME Base, Plug, UNCHANGED host
  PROVE  Base'
<1>1. ~present /\ present' = TRUE
      /\ UNCHANGED <<talks, radio, linkReady, rx, cmd, ring, atv, missed, refused>>
  BY DEF Plug
<1>2. DongleTypeOK'
  BY <1>1 DEF Base, DongleTypeOK, radio
<1>3. HostTypeOK' /\ PortOK' /\ OnceAsked' /\ LinesEnd'
  BY <1>1 DEF Base, HostTypeOK, PortOK, OnceAsked, LinesEnd, host, port
<1>4. QED
  BY <1>2, <1>3 DEF Base

\* The suffix that Open leaves of what has come in ends as all of it did.
LEMMA SuffixIs ==
  ASSUME NEW S, NEW s \in Seq(S), NEW kept \in 1..(Len(s) + 1)
  PROVE  /\ SubSeq(s, kept, Len(s)) \in Seq(S) /\ Len(SubSeq(s, kept, Len(s))) <= Len(s)
         /\ SubSeq(s, kept, Len(s)) # << >> =>
              s # << >> /\ SubSeq(s, kept, Len(s))[Len(SubSeq(s, kept, Len(s)))] = s[Len(s)]
<1>1. Len(s) \in Nat /\ kept \in Nat /\ kept >= 1 /\ \A i \in 1..Len(s) : s[i] \in S
  BY LenProperties
<1> DEFINE u == SubSeq(s, kept, Len(s))
<1>2. /\ u \in Seq(S) /\ Len(u) = IF kept <= Len(s) THEN Len(s) - kept + 1 ELSE 0
      /\ \A i \in 1..(Len(s) - kept + 1) : u[i] = s[kept + i - 1]
  <2>1. \A i \in kept..Len(s) : s[i] \in S
    BY <1>1
  <2>2. QED
    BY <1>1, <2>1, SubSeqProperties
<1> HIDE DEF u
<1>3. Len(u) <= Len(s)
  BY <1>1, <1>2
<1>4. ASSUME u # << >> PROVE s # << >> /\ u[Len(u)] = s[Len(s)]
  <2>1. Len(u) # 0
    BY <1>2, <1>4, EmptySeq
  <2>2. kept <= Len(s) /\ Len(u) = Len(s) - kept + 1
    BY <1>2, <2>1
  <2>3. u[Len(u)] = s[kept + Len(u) - 1] /\ kept + Len(u) - 1 = Len(s)
    BY <1>1, <1>2, <2>2
  <2>4. Len(s) > 0
    BY <1>1, <2>2
  <2>5. QED
    BY <2>3, <2>4, EmptySeq
<1>5. QED
  BY <1>2, <1>3, <1>4 DEF u

\* What is left of the receive queue when its end is lost: a beginning, and
\* perhaps a scrap after it.
CutTo(n) ==
  /\ rx' \in Seq(Landing) /\ Len(rx') <= RxMax /\ n \in 0..Len(rx)
  /\ DOMAIN rx' = 1..Len(rx') /\ (Len(rx') = n \/ Len(rx') = n + 1)
  /\ \A i \in 1..n : rx'[i] = rx[i]
  /\ Len(rx') = n + 1 => rx'[n + 1] = Scrap

LEMMA ScrappedIs ==
  ASSUME NEW s \in Seq(Landing)
  PROVE  /\ Scrapped(s) \in Seq(Landing) /\ (Len(Scrapped(s)) = Len(s) \/ Len(Scrapped(s)) = Len(s) + 1)
         /\ DOMAIN Scrapped(s) = 1..Len(Scrapped(s))
         /\ \A i \in 1..Len(s) : Scrapped(s)[i] = s[i]
         /\ Len(Scrapped(s)) = Len(s) + 1 => Scrapped(s)[Len(s) + 1] = Scrap
<1>1. Scrapped(s) = s \/ Scrapped(s) = Append(s, Scrap)
  BY DEF Scrapped
<1>2. CASE Scrapped(s) = s
  BY <1>2, LenProperties
<1>3. CASE Scrapped(s) = Append(s, Scrap)
  <2>1. /\ Append(s, Scrap) \in Seq(Landing) /\ Len(Append(s, Scrap)) = Len(s) + 1
        /\ DOMAIN Append(s, Scrap) = 1..(Len(s) + 1)
        /\ \A i \in 1..Len(s) : Append(s, Scrap)[i] = s[i]
        /\ Append(s, Scrap)[Len(s) + 1] = Scrap
    BY LandingIs, AppendIs
  <2>2. QED
    BY <1>3, <2>1
<1>4. QED
  BY <1>1, <1>2, <1>3

LEMMA UpTo == \A k \in Nat : k \in 0..k /\ k # k + 1 /\ \A j \in 1..k : ~(j > k)
OBVIOUS

LEMMA NothingCut ==
  ASSUME DongleTypeOK, rx' = rx
  PROVE  CutTo(Len(rx))
<1>1. rx \in Seq(Landing) /\ Len(rx) \in Nat /\ RxMax \in Nat /\ Len(rx) <= RxMax /\ DOMAIN rx = 1..Len(rx)
  BY RxIs
<1>2. /\ rx' \in Seq(Landing) /\ Len(rx') = Len(rx) /\ Len(rx') <= RxMax /\ DOMAIN rx' = 1..Len(rx')
      /\ \A i \in 1..Len(rx) : rx'[i] = rx[i]
  BY <1>1
<1>3. Len(rx) \in Nat
  BY RxIs
<1>4. Len(rx) \in 0..Len(rx) /\ Len(rx) # Len(rx) + 1
  BY <1>3, UpTo, Zenon
<1>5. Len(rx') # Len(rx) + 1
  BY <1>2, <1>4, Zenon
<1>6. QED
  BY <1>2, <1>4, <1>5, Zenon DEF CutTo

LEMMA ScrapLeft ==
  ASSUME DongleTypeOK, rx' = Scrapped(rx), Len(rx) < RxMax
  PROVE  CutTo(Len(rx))
<1>1. rx \in Seq(Landing) /\ Len(rx) \in Nat /\ RxMax \in Nat
  BY RxIs
<1>2. QED
  BY <1>1, ScrappedIs DEF CutTo

LEMMA FlushedIs ==
  ASSUME DongleTypeOK, NEW n \in 0..Len(rx), rx' \in Flushed(n)
  PROVE  CutTo(n)
<1>1. /\ rx \in Seq(Landing) /\ Len(rx) \in Nat /\ Len(rx) <= RxMax /\ RxMax \in Nat /\ n \in Nat /\ n <= Len(rx)
  BY RxIs
<1> DEFINE kept == SubSeq(rx, 1, n)
<1>2. /\ kept \in Seq(Landing) /\ Len(kept) = n /\ DOMAIN kept = 1..n
      /\ \A i \in 1..n : kept[i] = rx[i]
  <2>1. 1 \in Nat /\ 1 >= 1 /\ 1 <= n + 1 /\ n - 1 + 1 = n /\ \A i \in 1..n : 1 + i - 1 = i
    BY <1>1
  <2>2. /\ kept \in Seq(Landing) /\ Len(kept) = n - 1 + 1 /\ DOMAIN kept = 1..(n - 1 + 1)
        /\ \A i \in 1..(n - 1 + 1) : kept[i] = rx[1 + i - 1]
    BY <1>1, <2>1, PieceIs
  <2>3. QED
    BY <2>1, <2>2
<1>3. rx' = kept \/ (n < Len(rx) /\ rx' = Scrapped(kept))
  BY DEF Flushed
<1> HIDE DEF kept
<1>4. CASE rx' = kept
  BY <1>1, <1>2, <1>4 DEF CutTo
<1>5. CASE n < Len(rx) /\ rx' = Scrapped(kept)
  <2>1. /\ rx' \in Seq(Landing) /\ (Len(rx') = n \/ Len(rx') = n + 1) /\ DOMAIN rx' = 1..Len(rx')
        /\ \A i \in 1..n : rx'[i] = rx[i]
        /\ Len(rx') = n + 1 => rx'[n + 1] = Scrap
    BY <1>2, <1>5, ScrappedIs
  <2>2. \A l, k, m, x \in Nat : m < l /\ l <= x /\ (k = m \/ k = m + 1) => k <= x
    OBVIOUS
  <2>3. Len(rx) \in Nat /\ RxMax \in Nat /\ n \in Nat /\ Len(rx') \in Nat
    BY <1>1, <2>1, LenProperties
  <2>4. Len(rx') <= RxMax
    BY <1>1, <1>5, <2>1, <2>2, <2>3, Zenon
  <2>5. QED
    BY <1>1, <2>1, <2>4 DEF CutTo
<1>6. QED
  BY <1>3, <1>4, <1>5

LEMMA OpenKeepsBase ==
  ASSUME Base, Open
  PROVE  Base'
<1>1. /\ ~open /\ present /\ txq = << >>
      /\ open' = TRUE /\ alive' = TRUE /\ linkDown' = FALSE /\ connecting' = "settle"
      /\ view' = NoView /\ heard' = FALSE /\ partial' = << >> /\ talks' = TRUE
      /\ UNCHANGED <<present, radio, linkReady, cmd, atv, missed, refused, readLost, txq, writer, asked>>
  BY DEF Open, Base, PortOK
<1>9. rx' \in Seq(Landing) /\ Len(rx') <= RxMax /\ escaped' \subseteq Reports
  <2>1. PICK n \in 0..Len(rx) : rx' \in Flushed(n) /\ escaped' = escaped \cup UpsAmong(SubSeq(rx, n + 1, Len(rx)))
    BY DEF Open
  <2>2. CutTo(n)
    BY <2>1, FlushedIs DEF Base
  <2>3. QED
    BY <2>1, <2>2 DEF CutTo, UpsAmong, Base, HostTypeOK
<1>2. /\ ring' \in Seq(Texts) /\ Len(ring') <= RingMax
      /\ ring' # << >> => ring # << >> /\ ring'[Len(ring')] = ring[Len(ring)]
  <2>1. PICK kept \in 1..(Len(ring) + 1) : ring' = SubSeq(ring, kept, Len(ring))
    BY DEF Open
  <2>2. ring \in Seq(Texts) /\ Len(ring) \in Nat /\ Len(ring) <= RingMax /\ RingMax \in Nat
    BY DongleBounds DEF Base, DongleTypeOK, Texts
  <2>3. /\ ring' \in Seq(Texts) /\ Len(ring') <= Len(ring) /\ Len(ring') \in Nat
        /\ ring' # << >> => ring # << >> /\ ring'[Len(ring')] = ring[Len(ring)]
    BY <2>1, <2>2, SuffixIs, LenProperties
  <2>4. QED
    BY <2>2, <2>3
<1>3. DongleTypeOK'
  BY <1>1, <1>2, <1>9 DEF Base, DongleTypeOK, radio, Texts, Landing
<1>4. HostTypeOK'
  <2>1. << >> \in Seq(Said) /\ NoView \in View
    BY EmptySeq DEF NoView, View
  <2>2. QED
    BY <1>1, <1>9, <2>1 DEF Base, HostTypeOK
<1>5. PortOK'
  BY <1>1 DEF PortOK
<1>6. OnceAsked'
  BY <1>1, EmptyQueue
<1>7. LinesEnd'
  BY <1>1, <1>2 DEF Base, LinesEnd
<1>8. QED
  BY <1>3, <1>4, <1>5, <1>6, <1>7 DEF Base

\* What the reconnect loop asks the dongle.
LEMMA AsksIs ==
  ASSUME Base, NEW request \in Requests, WriteLine(request)
  PROVE  /\ txq' \in Seq(Items) /\ Len(txq') <= TxMax
         /\ open => txq' = Append(txq, request)
         /\ ~open => txq' = << >>
<1>1. txq \in Seq(Items) /\ Len(txq) <= TxMax /\ Len(txq) \in Nat /\ TxMax \in Nat
  BY LinkBounds DEF Base, HostTypeOK
<1>2. request \in Items
  BY DEF Items
<1>3. CASE open
  BY <1>1, <1>2, <1>3, AppendIs DEF WriteLine
<1>4. CASE ~open
  BY <1>1, <1>4 DEF WriteLine, Base, PortOK
<1>5. QED
  BY <1>3, <1>4

LEMMA HandshakeKeepsBase ==
  ASSUME Base, SendPing \/ HandshakeOk
  PROVE  Base'
<1>1. UNCHANGED <<dongle, port, heard, view, partial, readLost, writer, asked, escaped, keys>>
  BY DEF SendPing, HandshakeOk
<1>2. DongleTypeOK'
  BY <1>1, SameDongle DEF dongle, firmware, Base, DongleTypeOK
<1>3. LinesEnd'
  BY <1>1, SameLines DEF dongle, firmware, port, Base
<1>4. txq \in Seq(Items) /\ Len(txq) \in Nat
  BY DEF Base, HostTypeOK
<1>5. CASE SendPing
  <2>1. connecting = "settle" /\ connecting' = "pinged" /\ WriteLine(<<"PING">>)
    BY <1>5 DEF SendPing
  <2>2. /\ <<"PING">> \in Requests /\ <<"PING">> \in Items /\ ~IsFrame(<<"PING">>)
        /\ <<"PING">> # <<"STATUS">>
    BY ItemsAre DEF Items
  <2>3. /\ txq' \in Seq(Items) /\ Len(txq') <= TxMax
        /\ open => txq' = Append(txq, <<"PING">>)
        /\ ~open => txq' = << >>
    BY <2>1, <2>2, AsksIs
  <2>4. HostTypeOK' /\ PortOK'
    BY <1>1, <2>1, <2>3 DEF Base, HostTypeOK, PortOK, port, dongle, firmware
  <2>5. OnceAsked'
    <3>1. CASE open
      <4>1. /\ DOMAIN txq = 1..Len(txq) /\ DOMAIN txq' = 1..(Len(txq) + 1)
            /\ \A i \in 1..Len(txq) : txq'[i] = txq[i]
            /\ txq'[Len(txq) + 1] = <<"PING">>
        BY <1>4, <2>2, <2>3, <3>1, AppendIs
      <4>2. \A i \in 1..Len(txq) : IsFrame(txq'[i])
        BY <2>1, <4>1 DEF Base, OnceAsked
      <4>3. ASSUME NEW i \in 1..(Len(txq) + 1), ~IsFrame(txq'[i]) PROVE i = Len(txq) + 1
        BY <1>4, <4>2, <4>3
      <4>4. ASSUME NEW i \in 1..(Len(txq) + 1), NEW j \in 1..(Len(txq) + 1), ~IsFrame(txq'[i]), txq'[i] = txq'[j]
            PROVE  i = j
        BY <4>3, <4>4
      <4>5. ASSUME NEW i \in 1..(Len(txq) + 1) PROVE txq'[i] # <<"STATUS">>
        <5>1. ~IsFrame(<<"STATUS">>)
          BY ItemsAre
        <5>2. QED
          BY <2>2, <4>1, <4>3, <5>1
      <4>6. QED
        BY <2>1, <4>1, <4>4, <4>5 DEF OnceAsked
    <3>2. CASE ~open
      BY <2>3, <3>2, EmptyQueue
    <3>3. QED
      BY <3>1, <3>2
  <2>6. QED
    BY <1>2, <1>3, <2>4, <2>5 DEF Base
<1>6. CASE HandshakeOk
  <2>1. connecting = "pinged" /\ connecting' = "idle" /\ WriteLine(<<"STATUS">>)
    BY <1>6 DEF HandshakeOk
  <2>2. <<"STATUS">> \in Requests /\ <<"STATUS">> \in Items /\ ~IsFrame(<<"STATUS">>)
    BY ItemsAre DEF Items
  <2>3. /\ txq' \in Seq(Items) /\ Len(txq') <= TxMax
        /\ open => txq' = Append(txq, <<"STATUS">>)
        /\ ~open => txq' = << >>
    BY <2>1, <2>2, AsksIs
  <2>4. HostTypeOK' /\ PortOK'
    BY <1>1, <2>1, <2>3 DEF Base, HostTypeOK, PortOK, port, dongle, firmware
  <2>5. OnceAsked'
    <3>1. CASE open
      <4>1. /\ DOMAIN txq = 1..Len(txq) /\ DOMAIN txq' = 1..(Len(txq) + 1)
            /\ \A i \in 1..Len(txq) : txq'[i] = txq[i]
            /\ txq'[Len(txq) + 1] = <<"STATUS">>
        BY <1>4, <2>2, <2>3, <3>1, AppendIs
      <4>2. \A i \in 1..Len(txq) : txq'[i] # <<"STATUS">>
        BY <2>1, <4>1 DEF Base, OnceAsked
      <4>3. ASSUME NEW i \in 1..(Len(txq) + 1), NEW j \in 1..(Len(txq) + 1), ~IsFrame(txq'[i]), txq'[i] = txq'[j]
            PROVE  i = j
        <5>1. CASE i = Len(txq) + 1
          BY <1>4, <4>1, <4>2, <4>3, <5>1
        <5>2. CASE j = Len(txq) + 1
          BY <1>4, <4>1, <4>2, <4>3, <5>2
        <5>3. CASE i \in 1..Len(txq) /\ j \in 1..Len(txq)
          BY <4>1, <4>3, <5>3 DEF Base, OnceAsked
        <5>4. QED
          BY <1>4, <5>1, <5>2, <5>3
      <4>4. QED
        BY <2>1, <4>1, <4>3 DEF OnceAsked
    <3>2. CASE ~open
      BY <2>3, <3>2, EmptyQueue
    <3>3. QED
      BY <3>1, <3>2
  <2>6. QED
    BY <1>2, <1>3, <2>4, <2>5 DEF Base
<1>7. QED
  BY <1>5, <1>6

LEMMA ForceKeepsBase ==
  ASSUME Base, ForceReconnect,
         UNCHANGED <<present, talks, radio, linkReady, cmd, ring, atv, missed, refused, partial, asked>>,
         rx' \in Seq(Landing), Len(rx') <= RxMax,
         readLost' \in BOOLEAN, writer' \in {"waiting", "backoff"},
         connecting' \in {"retry", "settle", "pinged", "idle"}
  PROVE  Base'
<1>1. /\ open' = FALSE /\ alive' = FALSE /\ linkDown' = TRUE /\ txq' = << >>
      /\ view' = NoView /\ heard' = FALSE /\ escaped' = escaped \cup UpsAmong(txq)
  BY DEF ForceReconnect
<1>2. DongleTypeOK'
  BY SameRest DEF Base, DongleTypeOK
<1>3. OnceAsked' /\ txq' \in Seq(Items) /\ Len(txq') <= TxMax
  BY <1>1, EmptyQueue, LinkBounds
<1>4. HostTypeOK'
  BY <1>1, <1>3 DEF Base, HostTypeOK, NoView, View, UpsAmong
<1>5. PortOK'
  BY <1>1 DEF PortOK
<1>6. LinesEnd'
  BY <1>1, SameLines DEF Base
<1>7. QED
  BY <1>2, <1>3, <1>4, <1>5, <1>6 DEF Base

\* A short write loses nothing the dongle already has.
LEMMA FailsCuts ==
  ASSUME Base, WriterFails
  PROVE  CutTo(Len(rx))
<1>1. rx' = rx \/ (Len(rx) < RxMax /\ rx' = Scrapped(rx))
  BY DEF WriterFails
<1>2. DongleTypeOK
  BY DEF Base
<1>3. CASE rx' = rx
  BY <1>2, <1>3, NothingCut
<1>4. CASE Len(rx) < RxMax /\ rx' = Scrapped(rx)
  BY <1>2, <1>4, ScrapLeft
<1>5. QED
  BY <1>1, <1>3, <1>4

LEMMA LinkDownKeepsBase ==
  ASSUME Base, LinkDownSeen
  PROVE  Base'
<1>1. /\ linkDown /\ connecting' = "retry"
      /\ UNCHANGED <<dongle, port, heard, view, partial, readLost, txq, writer, asked, escaped, keys>>
  BY DEF LinkDownSeen
<1>2. DongleTypeOK'
  BY <1>1, SameDongle DEF dongle, firmware, Base, DongleTypeOK
<1>3. LinesEnd'
  BY <1>1, SameLines DEF dongle, firmware, port, Base
<1>4. HostTypeOK' /\ PortOK' /\ OnceAsked'
  BY <1>1 DEF Base, HostTypeOK, PortOK, OnceAsked, port, dongle, firmware
<1>5. QED
  BY <1>2, <1>3, <1>4 DEF Base

\* The head of the queue goes on to the dongle, whose ring takes it or does not.
Landed ==
  /\ rx' \in Seq(Landing) /\ Len(rx') <= RxMax
  /\ DOMAIN rx = 1..Len(rx) /\ Len(rx') = Len(rx) + 1 /\ DOMAIN rx' = 1..(Len(rx) + 1)
  /\ \A i \in 1..Len(rx) : rx'[i] = rx[i]
  /\ rx'[Len(rx) + 1] = txq[1]
  /\ UNCHANGED <<missed, escaped>>

Overflows ==
  /\ CutTo(Len(rx))
  /\ missed' = (missed \/ txq[1] = <<"STATUS">>)
  /\ escaped \subseteq escaped' /\ escaped' \subseteq Reports
  /\ \A r \in Reports : txq[1] = Up(r) => r \in escaped'

LEMMA WritesOn ==
  ASSUME Base, WriterWrites
  PROVE  /\ alive /\ txq # << >>
         /\ txq \in Seq(Items) /\ txq' \in Seq(Items) /\ rx \in Seq(Landing)
         /\ Len(txq) \in Nat /\ Len(txq) > 0 /\ Len(rx) \in Nat
         /\ DOMAIN txq = 1..Len(txq) /\ DOMAIN txq' = 1..(Len(txq) - 1) /\ Len(txq') = Len(txq) - 1
         /\ \A i \in 1..(Len(txq) - 1) : txq'[i] = txq[i + 1]
         /\ txq[1] \in Items
         /\ Landed \/ Overflows
         /\ UNCHANGED <<present, talks, radio, linkReady, cmd, ring, atv, refused, port, connecting,
                        heard, view, partial, readLost, writer, asked>>
<1>1. /\ alive /\ txq # << >> /\ txq' = Tail(txq)
      /\ UNCHANGED <<present, talks, radio, linkReady, cmd, ring, atv, refused, port, connecting,
                     heard, view, partial, readLost, writer, asked>>
      /\ \/ Len(rx) < RxMax /\ rx' = Append(rx, Head(txq)) /\ UNCHANGED <<missed, escaped>>
         \/ /\ rx' \in Spilt
            /\ missed' = (missed \/ Head(txq) = <<"STATUS">>)
            /\ escaped' = escaped \cup UpsAmong(<<Head(txq)>>)
  BY DEF WriterWrites
<1>2. /\ txq \in Seq(Items) /\ rx \in Seq(Landing) /\ Len(rx) \in Nat /\ Len(rx) <= RxMax /\ RxMax \in Nat
      /\ DOMAIN rx = 1..Len(rx) /\ DongleTypeOK
  BY RxIs DEF Base, HostTypeOK
<1>3. /\ txq' \in Seq(Items) /\ Head(txq) = txq[1] /\ txq[1] \in Items
      /\ Len(txq) \in Nat /\ Len(txq) > 0 /\ Len(txq') = Len(txq) - 1
      /\ DOMAIN txq = 1..Len(txq) /\ DOMAIN txq' = 1..(Len(txq) - 1)
      /\ \A i \in 1..(Len(txq) - 1) : txq'[i] = txq[i + 1]
  BY <1>1, <1>2, TailIs
<1>4. CASE Len(rx) < RxMax /\ rx' = Append(rx, Head(txq)) /\ UNCHANGED <<missed, escaped>>
  <2>1. Head(txq) \in Landing
    BY <1>3, LandingIs
  <2>2. /\ rx' \in Seq(Landing) /\ Len(rx') = Len(rx) + 1 /\ DOMAIN rx' = 1..(Len(rx) + 1)
        /\ \A i \in 1..Len(rx) : rx'[i] = rx[i]
        /\ rx'[Len(rx) + 1] = txq[1]
    BY <1>2, <1>3, <1>4, <2>1, AppendIs
  <2>3. Len(rx') <= RxMax
    BY <1>2, <1>4, <2>2
  <2>4. Landed
    BY <1>2, <1>4, <2>2, <2>3 DEF Landed
  <2>5. QED
    BY <1>1, <1>2, <1>3, <2>4
<1>5. CASE /\ rx' \in Spilt
           /\ missed' = (missed \/ Head(txq) = <<"STATUS">>)
           /\ escaped' = escaped \cup UpsAmong(<<Head(txq)>>)
  <2>1. rx' = rx \/ (Len(rx) + 1 = RxMax /\ rx' = Scrapped(rx))
    BY <1>5 DEF Spilt
  <2>2. CutTo(Len(rx))
    <3>1. CASE rx' = rx
      BY <1>2, <3>1, NothingCut
    <3>2. CASE Len(rx) + 1 = RxMax /\ rx' = Scrapped(rx)
      BY <1>2, <3>2, ScrapLeft
    <3>3. QED
      BY <2>1, <3>1, <3>2
  <2>3. \A r \in Reports : txq[1] = Up(r) => r \in escaped'
    <3>1. <<Head(txq)>>[1] = txq[1] /\ Len(<<Head(txq)>>) = 1
      BY <1>3
    <3>2. QED
      BY <1>5, <3>1 DEF UpsAmong, Contains
  <2>4. escaped \subseteq escaped' /\ escaped' \subseteq Reports
    BY <1>5 DEF UpsAmong, Base, HostTypeOK
  <2>5. Overflows
    BY <1>3, <1>5, <2>2, <2>3, <2>4 DEF Overflows
  <2>6. QED
    BY <1>1, <1>2, <1>3, <2>5
<1>6. QED
  BY <1>1, <1>4, <1>5

LEMMA WritesKeepsBase ==
  ASSUME Base, WriterWrites
  PROVE  Base'
<1>1. /\ txq' \in Seq(Items) /\ alive
      /\ Len(txq) \in Nat /\ Len(txq) > 0 /\ Len(txq') = Len(txq) - 1
      /\ DOMAIN txq = 1..Len(txq) /\ DOMAIN txq' = 1..(Len(txq) - 1)
      /\ \A i \in 1..(Len(txq) - 1) : txq'[i] = txq[i + 1]
      /\ Landed \/ Overflows
      /\ UNCHANGED <<present, talks, radio, linkReady, cmd, ring, atv, refused, port, connecting,
                     heard, view, partial, readLost, writer, asked>>
  BY WritesOn
<1>8. rx' \in Seq(Landing) /\ Len(rx') <= RxMax /\ missed' \in BOOLEAN /\ escaped' \subseteq Reports
  BY <1>1 DEF Landed, Overflows, CutTo, Base, DongleTypeOK, HostTypeOK
<1>2. DongleTypeOK'
  BY <1>1, <1>8, SameRest DEF Base, DongleTypeOK
<1>3. Len(txq') <= TxMax
  <2>1. Len(txq) <= TxMax /\ TxMax \in Nat
    BY LinkBounds DEF Base, HostTypeOK
  <2>2. QED
    BY <1>1, <2>1
<1>4. HostTypeOK' /\ PortOK'
  BY <1>1, <1>3, <1>8 DEF Base, HostTypeOK, PortOK, port
<1>5. OnceAsked'
  <2>1. ASSUME NEW i \in DOMAIN txq' PROVE i \in DOMAIN txq /\ i + 1 \in DOMAIN txq /\ txq'[i] = txq[i + 1]
    BY <1>1
  <2>2. ASSUME NEW i \in DOMAIN txq', NEW j \in DOMAIN txq', ~IsFrame(txq'[i]), txq'[i] = txq'[j]
        PROVE  i = j
    <3>1. i + 1 = j + 1
      BY <2>1, <2>2 DEF Base, OnceAsked
    <3>2. QED
      BY <1>1, <3>1
  <2>3. QED
    BY <1>1, <2>1, <2>2 DEF Base, OnceAsked
<1>6. LinesEnd'
  BY <1>1, SameLines DEF Base, port
<1>7. QED
  BY <1>2, <1>4, <1>5, <1>6 DEF Base

\* What a line tells the host.
LEMMA HandleIs ==
  ASSUME partial \in Seq(Said), view \in View, heard \in BOOLEAN, HandleLine(partial)
  PROVE  /\ heard' \in BOOLEAN /\ view' \in View
         /\ partial = << >> => view' = view
         /\ Len(partial) = 1 =>
              /\ view'.connected = IF TellsConn(partial[1]) THEN ConnTold(partial[1]) ELSE view.connected
              /\ view'.ready = IF TellsReady(partial[1]) THEN ReadyTold(partial[1]) ELSE view.ready
<1>1. CASE partial = << >>
  <2>1. UNCHANGED <<view, heard>>
    BY <1>1 DEF HandleLine
  <2>2. Len(partial) # 1
    BY <1>1, EmptySeq
  <2>3. QED
    BY <1>1, <2>1, <2>2
<1>2. CASE partial # << >>
  <2> DEFINE x == Head(partial)
  <2>1. /\ heard' \in BOOLEAN
        /\ view' = CASE x.line = "STATUS" -> [connected |-> x.connected, ready |-> x.connected /\ x.ready]
                     [] x.line \in {"CONN", "READY"} -> HandleEvt(x, Len(partial) = 1)
                     [] OTHER -> view
    BY <1>2 DEF HandleLine
  <2>2. x \in Said /\ x = partial[1]
    BY <1>2, TailIs
  <2>3. x.line \in {"PONG", "STATUS", "CONN", "READY"} /\ x.connected \in BOOLEAN /\ x.ready \in BOOLEAN
    BY <2>2, TextsAre
  <2>4. view = [connected |-> view.connected, ready |-> view.ready] /\ view.connected \in BOOLEAN /\ view.ready \in BOOLEAN
    BY DEF View
  <2> HIDE DEF x
  <2>5. /\ [connected |-> view.connected, ready |-> view.ready].connected = view.connected
        /\ \A c, r \in BOOLEAN : /\ [connected |-> c, ready |-> r] \in View
                                /\ [connected |-> c, ready |-> r].connected = c
                                /\ [connected |-> c, ready |-> r].ready = r
    BY DEF View
  <2> DEFINE Handled == /\ view' \in View
                        /\ Len(partial) = 1 =>
                             /\ view'.connected = IF TellsConn(x) THEN ConnTold(x) ELSE view.connected
                             /\ view'.ready = IF TellsReady(x) THEN ReadyTold(x) ELSE view.ready
  <2>6. CASE x.line = "STATUS"
    <3>1. view' = [connected |-> x.connected, ready |-> x.connected /\ x.ready]
      BY <2>1, <2>6
    <3>2. view' \in View /\ view'.connected = x.connected /\ view'.ready = (x.connected /\ x.ready)
      BY <2>3, <2>5, <3>1
    <3>3. TellsConn(x) /\ ConnTold(x) = x.connected /\ TellsReady(x) /\ ReadyTold(x) = (x.connected /\ x.ready)
      BY <2>3, <2>6 DEF TellsConn, ConnTold, TellsReady, ReadyTold
    <3>4. Handled
      BY <3>2, <3>3
    <3>5. QED
      BY <1>2, <2>1, <2>2, <3>4
  <2>7. CASE x.line = "CONN"
    <3>1. view' = HandleEvt(x, Len(partial) = 1)
      BY <2>1, <2>7
    <3>2. CASE x.connected /\ Len(partial) = 1
      <4>1. view' = [connected |-> TRUE, ready |-> view.ready]
        BY <2>4, <2>7, <3>1, <3>2 DEF HandleEvt
      <4>2. view' \in View /\ view'.connected = TRUE /\ view'.ready = view.ready
        BY <2>4, <2>5, <4>1
      <4>3. TellsConn(x) /\ ConnTold(x) = TRUE /\ ~TellsReady(x)
        BY <2>3, <2>7, <3>2 DEF TellsConn, ConnTold, TellsReady
      <4>4. Handled
        BY <4>2, <4>3
      <4>5. QED
        BY <1>2, <2>1, <2>2, <4>4
    <3>3. CASE ~(x.connected /\ Len(partial) = 1)
      <4>1. view' = [connected |-> FALSE, ready |-> FALSE]
        BY <2>7, <3>1, <3>3 DEF HandleEvt, NoView
      <4>2. view' \in View /\ view'.connected = FALSE /\ view'.ready = FALSE
        BY <2>5, <4>1
      <4>3. ~x.connected => TellsConn(x) /\ ConnTold(x) = FALSE /\ TellsReady(x) /\ ReadyTold(x) = FALSE
        BY <2>3, <2>7 DEF TellsConn, ConnTold, TellsReady, ReadyTold
      <4>4. Handled
        BY <3>3, <4>2, <4>3
      <4>5. QED
        BY <1>2, <2>1, <2>2, <4>4
    <3>4. QED
      BY <3>2, <3>3
  <2>8. CASE x.line = "READY"
    <3>1. view' = HandleEvt(x, Len(partial) = 1)
      BY <2>1, <2>8
    <3>2. CASE x.ready /\ Len(partial) = 1
      <4>1. view' = [connected |-> TRUE, ready |-> TRUE]
        BY <2>8, <3>1, <3>2 DEF HandleEvt
      <4>2. view' \in View /\ view'.connected = TRUE /\ view'.ready = TRUE
        BY <2>5, <4>1
      <4>3. TellsConn(x) /\ ConnTold(x) = TRUE /\ TellsReady(x) /\ ReadyTold(x) = TRUE
        BY <2>3, <2>8, <3>2 DEF TellsConn, ConnTold, TellsReady, ReadyTold
      <4>4. Handled
        BY <4>2, <4>3
      <4>5. QED
        BY <1>2, <2>1, <2>2, <4>4
    <3>3. CASE ~(x.ready /\ Len(partial) = 1)
      <4>1. view' = [connected |-> view.connected, ready |-> FALSE]
        BY <2>4, <2>8, <3>1, <3>3 DEF HandleEvt
      <4>2. view' \in View /\ view'.connected = view.connected /\ view'.ready = FALSE
        BY <2>4, <2>5, <4>1
      <4>3. ~x.ready => ~TellsConn(x) /\ TellsReady(x) /\ ReadyTold(x) = FALSE
        BY <2>3, <2>8 DEF TellsConn, TellsReady, ReadyTold
      <4>4. Handled
        BY <3>3, <4>2, <4>3
      <4>5. QED
        BY <1>2, <2>1, <2>2, <4>4
    <3>4. QED
      BY <3>2, <3>3
  <2>9. CASE x.line = "PONG"
    <3>1. view' = view
      BY <2>1, <2>9
    <3>2. ~TellsConn(x) /\ ~TellsReady(x)
      BY <2>9 DEF TellsConn, TellsReady
    <3>3. Handled
      BY <3>1, <3>2
    <3>4. QED
      BY <1>2, <2>1, <2>2, <3>3
  <2>10. QED
    BY <2>3, <2>6, <2>7, <2>8, <2>9
<1>3. QED
  BY <1>1, <1>2

\* A text joins those of its line, a newline has them handled.
LEMMA ReadIs ==
  ASSUME Base, Read
  PROVE  /\ alive /\ ring # << >> /\ ring \in Seq(Texts) /\ ring' \in Seq(Texts)
         /\ Len(ring) \in Nat /\ Len(ring) > 0 /\ Len(ring') = Len(ring) - 1
         /\ DOMAIN ring = 1..Len(ring) /\ DOMAIN ring' = 1..(Len(ring) - 1)
         /\ \A i \in 1..(Len(ring) - 1) : ring'[i] = ring[i + 1]
         /\ UNCHANGED <<present, talks, radio, linkReady, rx, cmd, atv, missed, refused, port, connecting,
                        readLost, txq, writer, asked, escaped>>
         /\ \/ ring[1] = NewLine /\ HandleLine(partial) /\ partial' = << >>
            \/ ring[1] \in Said /\ partial' = Append(partial, ring[1]) /\ UNCHANGED <<view, heard>>
<1>1. /\ alive /\ ring # << >> /\ ring' = Tail(ring)
      /\ UNCHANGED <<present, talks, radio, linkReady, rx, cmd, atv, missed, refused, port, connecting,
                     readLost, txq, writer, asked, escaped>>
      /\ IF Head(ring) = NewLine
         THEN HandleLine(partial) /\ partial' = << >>
         ELSE partial' = Append(partial, Head(ring)) /\ UNCHANGED <<view, heard>>
  BY DEF Read
<1>2. ring \in Seq(Texts)
  BY DEF Base, DongleTypeOK, Texts
<1>3. /\ ring' \in Seq(Texts) /\ Head(ring) \in Texts /\ Head(ring) = ring[1]
      /\ Len(ring) \in Nat /\ Len(ring) > 0 /\ Len(ring') = Len(ring) - 1
      /\ DOMAIN ring = 1..Len(ring) /\ DOMAIN ring' = 1..(Len(ring) - 1)
      /\ \A i \in 1..(Len(ring) - 1) : ring'[i] = ring[i + 1]
  BY <1>1, <1>2, TailIs
<1>4. \/ ring[1] = NewLine /\ HandleLine(partial) /\ partial' = << >>
      \/ ring[1] \in Said /\ partial' = Append(partial, ring[1]) /\ UNCHANGED <<view, heard>>
  BY <1>1, <1>3, TextsAre
<1>5. QED
  BY <1>1, <1>2, <1>3, <1>4

LEMMA ReadKeepsBase ==
  ASSUME Base, Read
  PROVE  Base'
<1>1. /\ alive /\ ring # << >> /\ ring \in Seq(Texts) /\ ring' \in Seq(Texts)
      /\ Len(ring) \in Nat /\ Len(ring) > 0 /\ Len(ring') = Len(ring) - 1
      /\ \A i \in 1..(Len(ring) - 1) : ring'[i] = ring[i + 1]
      /\ UNCHANGED <<present, talks, radio, linkReady, rx, cmd, atv, missed, refused, port, connecting,
                     readLost, txq, writer, asked, escaped>>
      /\ \/ ring[1] = NewLine /\ HandleLine(partial) /\ partial' = << >>
         \/ ring[1] \in Said /\ partial' = Append(partial, ring[1]) /\ UNCHANGED <<view, heard>>
  BY ReadIs
<1>2. Len(ring') <= RingMax
  <2>1. Len(ring) <= RingMax /\ RingMax \in Nat
    BY DongleBounds DEF Base, DongleTypeOK
  <2>2. QED
    BY <1>1, <2>1
<1>3. DongleTypeOK'
  BY <1>1, <1>2 DEF Base, DongleTypeOK, radio, Texts
<1>4. partial' \in Seq(Said) /\ view' \in View /\ heard' \in BOOLEAN
  <2>1. partial \in Seq(Said) /\ view \in View /\ heard \in BOOLEAN
    BY DEF Base, HostTypeOK
  <2>2. QED
    <3>1. CASE ring[1] = NewLine /\ HandleLine(partial) /\ partial' = << >>
      BY <2>1, <3>1, HandleIs, EmptySeq
    <3>2. CASE ring[1] \in Said /\ partial' = Append(partial, ring[1]) /\ UNCHANGED <<view, heard>>
      BY <2>1, <3>2, AppendIs
    <3>3. QED
      BY <1>1, <3>1, <3>2
<1>5. HostTypeOK' /\ PortOK' /\ OnceAsked'
  BY <1>1, <1>4 DEF Base, HostTypeOK, PortOK, OnceAsked, port
<1>6. LinesEnd'
  <2>1. ASSUME cmd # <<NewLine>> PROVE IF ring' # << >> THEN ring'[Len(ring')] = NewLine ELSE partial' = << >>
    <3>1. ring[Len(ring)] = NewLine
      BY <1>1, <2>1 DEF Base, LinesEnd
    <3>2. CASE ring' # << >>
      <4>1. Len(ring') > 0
        BY <1>1, <3>2, EmptySeq
      <4>2. Len(ring') \in 1..(Len(ring) - 1) /\ Len(ring') + 1 = Len(ring)
        BY <1>1, <4>1
      <4>3. QED
        BY <1>1, <3>1, <3>2, <4>2
    <3>3. CASE ring' = << >>
      <4>1. Len(ring) = 1
        BY <1>1, <3>3, EmptySeq
      <4>2. ring[1] = NewLine
        BY <3>1, <4>1
      <4>3. QED
        BY <1>1, <3>3, <4>2, TextsAre
    <3>4. QED
      BY <3>2, <3>3
  <2>2. QED
    BY <1>1, <2>1 DEF Base, LinesEnd
<1>7. QED
  BY <1>3, <1>5, <1>6 DEF Base

\* The queue has lost its first d items and got one more.
Shifted(d, f) ==
  /\ d <= Len(txq)
  /\ Len(txq') = Len(txq) + 1 - d /\ DOMAIN txq' = 1..(Len(txq) + 1 - d)
  /\ \A i \in 1..(Len(txq) - d) : txq'[i] = txq[i + d]
  /\ txq'[Len(txq) + 1 - d] = f
  /\ d = 1 /\ ~missed' => IsFrame(txq[1])

LEMMA KeyIs ==
  ASSUME Base, NEW r \in Reports, NEW e \in Edges, NEW strict \in BOOLEAN, KeyEdge(r, e, strict)
  PROVE  /\ asked' = [asked EXCEPT ![r] = e] /\ escaped' \subseteq Reports /\ escaped \subseteq escaped'
         /\ missed' \in BOOLEAN /\ (missed => missed')
         /\ UNCHANGED <<present, talks, radio, linkReady, rx, cmd, ring, atv, refused, port, connecting, heard,
                        view, partial, readLost, writer>>
         /\ \/ UNCHANGED <<txq, missed>> /\ (e = "up" => r \in escaped')
            \/ /\ open /\ txq \in Seq(Items) /\ Len(txq) \in Nat /\ DOMAIN txq = 1..Len(txq)
               /\ txq' \in Seq(Items) /\ Len(txq') <= TxMax
               /\ \A u \in Reports : Contains(txq, Up(u)) => Contains(txq', Up(u)) \/ u \in escaped'
               /\ \E d \in {0, 1} : Shifted(d, <<r, e>>)
<1> DEFINE f == <<r, e>>
           full == Len(txq) = TxMax
           taken == open /\ view.connected /\ view.ready /\ ~(full /\ strict)
<1>1. /\ asked' = [asked EXCEPT ![r] = e]
      /\ UNCHANGED <<present, talks, radio, linkReady, rx, cmd, ring, atv, refused, port, connecting, heard,
                     view, partial, readLost, writer>>
  BY DEF KeyEdge
<1>2. taken => /\ txq' = Append(IF full THEN Tail(txq) ELSE txq, f)
               /\ escaped' = escaped \cup (UpsAmong(txq) \ UpsAmong(txq'))
               /\ missed' = (missed \/ (full /\ ~IsFrame(Head(txq))))
  BY DEF KeyEdge
<1>3. ~taken => /\ escaped' = IF e = "up" THEN escaped \cup {r} ELSE escaped
                /\ UNCHANGED <<txq, missed>>
  BY DEF KeyEdge
<1>4. /\ txq \in Seq(Items) /\ Len(txq) \in Nat /\ Len(txq) <= TxMax /\ DOMAIN txq = 1..Len(txq)
      /\ escaped \subseteq Reports /\ missed \in BOOLEAN /\ TxMax \in Nat /\ TxMax >= 2 /\ f \in Items
  BY LinkBounds, ZerosAre, ItemsAre, LenProperties DEF Base, HostTypeOK, DongleTypeOK, Items
<1>5. CASE ~taken
  BY <1>1, <1>3, <1>4, <1>5
<1>6. CASE taken
  <2>1. open
    BY <1>6
  <2> HIDE DEF taken, f
  <2>2. escaped' \subseteq Reports /\ escaped \subseteq escaped' /\ missed' \in BOOLEAN /\ (missed => missed')
    BY <1>2, <1>4, <1>6 DEF UpsAmong
  <2>3. \A u \in Reports : Contains(txq, Up(u)) => Contains(txq', Up(u)) \/ u \in escaped'
    BY <1>2, <1>6 DEF UpsAmong
  <2>4. CASE ~full
    <3>1. txq' = Append(txq, f)
      BY <1>2, <1>6, <2>4
    <3>2. /\ txq' \in Seq(Items) /\ Len(txq') = Len(txq) + 1 /\ DOMAIN txq' = 1..(Len(txq) + 1)
          /\ \A i \in 1..Len(txq) : txq'[i] = txq[i]
          /\ txq'[Len(txq) + 1] = f
      BY <1>4, <3>1, AppendIs
    <3>3. Len(txq') <= TxMax
      <4>1. Len(txq) \in Nat /\ TxMax \in Nat /\ Len(txq) <= TxMax /\ Len(txq) # TxMax
        BY <1>4, <2>4
      <4>2. Len(txq) + 1 <= TxMax
        BY <4>1
      <4>3. QED
        BY <3>2, <4>2
    <3>4. /\ 0 <= Len(txq) /\ Len(txq') = Len(txq) + 1 - 0 /\ DOMAIN txq' = 1..(Len(txq) + 1 - 0)
          /\ \A i \in 1..(Len(txq) - 0) : txq'[i] = txq[i + 0]
          /\ txq'[Len(txq) + 1 - 0] = f
      BY <1>4, <3>2
    <3>5. Shifted(0, <<r, e>>)
      BY <3>4 DEF f, Shifted
    <3>6. QED
      BY <1>1, <1>4, <2>1, <2>2, <2>3, <3>2, <3>3, <3>5
  <2>5. CASE full
    <3>1. txq' = Append(Tail(txq), f) /\ txq # << >>
      BY <1>2, <1>4, <1>6, <2>5, EmptySeq
    <3>2. /\ Tail(txq) \in Seq(Items) /\ Head(txq) = txq[1] /\ Len(txq) > 0
          /\ Len(Tail(txq)) = Len(txq) - 1
          /\ \A i \in 1..(Len(txq) - 1) : Tail(txq)[i] = txq[i + 1]
      BY <1>4, <3>1, TailIs
    <3>3. /\ txq' \in Seq(Items) /\ Len(txq') = Len(Tail(txq)) + 1 /\ DOMAIN txq' = 1..(Len(Tail(txq)) + 1)
          /\ \A i \in 1..Len(Tail(txq)) : txq'[i] = Tail(txq)[i]
          /\ txq'[Len(Tail(txq)) + 1] = f
      BY <1>4, <3>1, <3>2, AppendIs
    <3>4. Len(Tail(txq)) + 1 = Len(txq) + 1 - 1 /\ 1 <= Len(txq)
      BY <1>4, <3>2
    <3>5. /\ Len(txq') = Len(txq) + 1 - 1 /\ DOMAIN txq' = 1..(Len(txq) + 1 - 1)
          /\ \A i \in 1..(Len(txq) - 1) : txq'[i] = txq[i + 1]
          /\ txq'[Len(txq) + 1 - 1] = f /\ Len(txq') <= TxMax
      BY <1>4, <3>2, <3>3, <3>4
    <3>6. ~missed' => IsFrame(txq[1])
      BY <1>2, <1>6, <2>5, <3>2
    <3>7. Shifted(1, <<r, e>>)
      BY <3>4, <3>5, <3>6 DEF f, Shifted
    <3>8. QED
      BY <1>1, <1>4, <2>1, <2>2, <2>3, <3>3, <3>5, <3>7
  <2>6. QED
    BY <2>4, <2>5
<1>7. QED
  BY <1>5, <1>6

LEMMA KeyKeepsBase ==
  ASSUME Base, NEW r \in Reports, NEW e \in Edges, NEW strict \in BOOLEAN, KeyEdge(r, e, strict)
  PROVE  Base'
<1>1. /\ asked' = [asked EXCEPT ![r] = e] /\ escaped' \subseteq Reports /\ missed' \in BOOLEAN
      /\ UNCHANGED <<present, talks, radio, linkReady, rx, cmd, ring, atv, refused, port, connecting, heard,
                     view, partial, readLost, writer>>
  BY KeyIs
<1>2. DongleTypeOK'
  BY <1>1, SameDongle DEF Base
<1>3. LinesEnd'
  BY <1>1, SameLines DEF Base, port
<1>4. CASE UNCHANGED txq
  <2>1. HostTypeOK' /\ PortOK' /\ OnceAsked'
    BY <1>1, <1>4 DEF Base, HostTypeOK, PortOK, OnceAsked, port
  <2>2. QED
    BY <1>2, <1>3, <2>1 DEF Base
<1>5. ASSUME open, txq \in Seq(Items), Len(txq) \in Nat, DOMAIN txq = 1..Len(txq),
             txq' \in Seq(Items), Len(txq') <= TxMax, NEW d \in {0, 1}, Shifted(d, <<r, e>>)
      PROVE  Base'
  <2>1. HostTypeOK' /\ PortOK'
    BY <1>1, <1>5 DEF Base, HostTypeOK, PortOK, port
  <2>2. IsFrame(<<r, e>>)
    BY ItemsAre
  <2>3. ASSUME NEW i \in DOMAIN txq', ~IsFrame(txq'[i])
        PROVE  i + d \in DOMAIN txq /\ txq'[i] = txq[i + d]
    <3>1. d \in {0, 1} /\ Len(txq) \in Nat /\ DOMAIN txq = 1..Len(txq) /\ DOMAIN txq' = 1..(Len(txq) + 1 - d)
      BY <1>5 DEF Shifted
    <3>2. i # Len(txq) + 1 - d
      BY <1>5, <2>2, <2>3 DEF Shifted
    <3>3. i \in 1..(Len(txq) - d) /\ i + d \in 1..Len(txq)
      BY <2>3, <3>1, <3>2
    <3>4. QED
      BY <1>5, <3>1, <3>3 DEF Shifted
  <2>4. ASSUME NEW i \in DOMAIN txq', NEW j \in DOMAIN txq', ~IsFrame(txq'[i]), txq'[i] = txq'[j]
        PROVE  i = j
    <3>1. /\ i + d \in DOMAIN txq /\ txq'[i] = txq[i + d] /\ j + d \in DOMAIN txq /\ txq'[j] = txq[j + d]
      BY <2>3, <2>4
    <3>2. i + d = j + d
      BY <2>4, <3>1 DEF Base, OnceAsked
    <3>3. QED
      BY <1>5, <3>2 DEF Shifted
  <2>5. connecting' = "settle" => \A i \in DOMAIN txq' : IsFrame(txq'[i])
    BY <1>1, <2>3 DEF Base, OnceAsked
  <2>6. connecting' = "pinged" => \A i \in DOMAIN txq' : txq'[i] # <<"STATUS">>
    <3>1. ~IsFrame(<<"STATUS">>)
      BY ItemsAre
    <3>2. QED
      BY <1>1, <2>3, <3>1 DEF Base, OnceAsked
  <2>7. OnceAsked'
    BY <2>4, <2>5, <2>6 DEF OnceAsked
  <2>8. QED
    BY <1>2, <1>3, <2>1, <2>7 DEF Base
<1>6. QED
  BY <1>4, <1>5, KeyIs

\* The requests of the queue, in their order, and then key-ups.
Kept(n, kept) ==
  /\ n <= Len(txq')
  /\ \A i, j \in 1..n : i < j => kept[i] < kept[j]
  /\ \A i \in DOMAIN txq : ~IsFrame(txq[i]) => \E j \in 1..n : kept[j] = i
  /\ \A i \in 1..n : txq'[i] = txq[kept[i]] /\ ~IsFrame(txq'[i])
  /\ \A i \in 1..Len(txq') : i > n => \E r \in Reports : txq'[i] = Up(r)
  /\ \A r \in Reports : \E i \in 1..Len(txq') : txq'[i] = Up(r)

\* At most a PING and a STATUS stay, and a key-up for each report follows.
LEMMA ReleaseIs ==
  ASSUME Base, ReleaseAll, open
  PROVE  /\ UNCHANGED escaped /\ txq \in Seq(Items) /\ Len(txq) \in Nat /\ DOMAIN txq = 1..Len(txq)
         /\ txq' \in Seq(Items) /\ Len(txq') \in Nat /\ Len(txq') <= TxMax /\ DOMAIN txq' = 1..Len(txq')
         /\ \E n \in 0..2 : \E kept \in [1..n -> DOMAIN txq] : Kept(n, kept)
<1>1. PICK n \in 0..Len(txq) : \E kept \in [1..n -> DOMAIN txq] :
             Drained(kept) /\ txq' = [i \in 1..n |-> txq[kept[i]]] \o Zeros
  BY DEF ReleaseAll
<1>2. PICK kept \in [1..n -> DOMAIN txq] : Drained(kept) /\ txq' = [i \in 1..n |-> txq[kept[i]]] \o Zeros
  BY <1>1
<1>3. /\ txq \in Seq(Items) /\ Len(txq) \in Nat /\ DOMAIN txq = 1..Len(txq) /\ \A i \in 1..Len(txq) : txq[i] \in Items
      /\ n \in Nat /\ DOMAIN kept = 1..n /\ UNCHANGED escaped
  BY LenProperties DEF Base, HostTypeOK, ReleaseAll
<1>4. /\ \A i, j \in 1..n : i < j => kept[i] < kept[j]
      /\ {kept[i] : i \in 1..n} = {i \in DOMAIN txq : ~IsFrame(txq[i])}
  BY <1>2, <1>3 DEF Drained
<1> DEFINE q == [i \in 1..n |-> txq[kept[i]]]
<1>5. ASSUME NEW i \in 1..n PROVE q[i] = txq[kept[i]] /\ ~IsFrame(q[i]) /\ q[i] \in Requests /\ kept[i] \in DOMAIN txq
  <2>1. kept[i] \in {kept[j] : j \in 1..n}
    OBVIOUS
  <2>2. kept[i] \in DOMAIN txq /\ ~IsFrame(txq[kept[i]])
    BY <1>4, <2>1
  <2>3. txq[kept[i]] \in Items
    BY <1>3, <2>2
  <2>4. txq[kept[i]] \in Requests
    BY <2>2, <2>3, ItemsAre DEF Items
  <2>5. QED
    BY <2>2, <2>4
<1>6. q \in Seq(Requests) /\ Len(q) = n
  <2>1. q \in [1..n -> Requests]
    BY <1>5
  <2>2. QED
    BY <1>3, <2>1, IsASeq, LenProperties
<1>7. \A i \in DOMAIN txq : ~IsFrame(txq[i]) => \E j \in 1..n : kept[j] = i
  BY <1>4
<1>8. n <= 2
  <2>1. SUFFICES ASSUME n > 2 PROVE FALSE
    BY <1>3
  <2>2. 1 \in 1..n /\ 2 \in 1..n /\ 3 \in 1..n
    BY <1>3, <2>1
  <2>3. /\ q[1] \in Requests /\ q[2] \in Requests /\ q[3] \in Requests
        /\ kept[1] < kept[2] /\ kept[2] < kept[3] /\ kept[1] < kept[3]
        /\ kept[1] \in Nat /\ kept[2] \in Nat /\ kept[3] \in Nat
    BY <1>3, <1>4, <1>5, <2>2
  <2>4. q[1] = q[2] \/ q[2] = q[3] \/ q[1] = q[3]
    BY <2>3 DEF Requests
  <2>5. ASSUME NEW i \in 1..n, NEW j \in 1..n, q[i] = q[j] PROVE kept[i] = kept[j]
    BY <1>5, <2>5 DEF Base, OnceAsked
  <2>6. kept[1] = kept[2] \/ kept[2] = kept[3] \/ kept[1] = kept[3]
    BY <2>2, <2>4, <2>5
  <2>7. QED
    BY <2>3, <2>6
<1> HIDE DEF q
<1>9. /\ Zeros \in Seq(Items) /\ q \in Seq(Items) /\ Len(Zeros) = Cardinality(Reports) /\ Len(Zeros) \in Nat
      /\ TxMax \in Nat /\ TxMax >= 2 + Len(Zeros)
  <2>1. Zeros \in Seq(Frames) /\ Len(Zeros) = Cardinality(Reports)
        /\ Cardinality(Reports) \in Nat /\ TxMax \in Nat /\ TxMax >= 2 + Cardinality(Reports)
    BY ZerosAre
  <2>2. QED
    BY <1>6, <2>1 DEF Items
<1>10. /\ txq' \in Seq(Items) /\ Len(txq') = n + Len(Zeros)
       /\ \A i \in 1..n : txq'[i] = q[i]
       /\ \A i \in 1..Len(Zeros) : txq'[n + i] = Zeros[i]
  <2>1. txq' = q \o Zeros
    BY <1>2 DEF q
  <2>2. q \in Seq(Items) /\ Zeros \in Seq(Items)
    BY <1>9
  <2>3. /\ q \o Zeros \in Seq(Items) /\ Len(q \o Zeros) = Len(q) + Len(Zeros)
        /\ \A i \in 1..Len(q) : (q \o Zeros)[i] = q[i]
        /\ \A i \in 1..Len(Zeros) : (q \o Zeros)[Len(q) + i] = Zeros[i]
    BY <2>2, ConcatIs
  <2>4. Len(q) = n
    BY <1>6
  <2>5. QED
    BY <2>1, <2>3, <2>4
<1>11. Len(txq') \in Nat /\ Len(txq') <= TxMax /\ DOMAIN txq' = 1..Len(txq') /\ n <= Len(txq')
  BY <1>3, <1>8, <1>9, <1>10, LenProperties
<1>12. ASSUME NEW i \in 1..Len(txq'), i > n PROVE \E r \in Reports : txq'[i] = Up(r)
  <2>1. i - n \in 1..Len(Zeros) /\ n + (i - n) = i
    BY <1>3, <1>9, <1>10, <1>12
  <2>2. QED
    BY <1>10, <2>1, ZerosAre
<1>13. ASSUME NEW r \in Reports PROVE \E i \in 1..Len(txq') : txq'[i] = Up(r)
  <2>1. PICK i \in 1..Len(Zeros) : Zeros[i] = Up(r)
    BY ZerosAre
  <2>2. n + i \in 1..Len(txq')
    BY <1>3, <1>9, <1>10
  <2>3. QED
    BY <1>10, <2>1, <2>2
<1>14. \A i \in 1..n : txq'[i] = txq[kept[i]] /\ ~IsFrame(txq'[i])
  BY <1>5, <1>10
<1>15. n \in 0..2
  BY <1>3, <1>8
<1>16. Kept(n, kept)
  BY <1>4, <1>7, <1>11, <1>12, <1>13, <1>14 DEF Kept
<1>17. QED
  BY <1>3, <1>10, <1>11, <1>15, <1>16

LEMMA ReleaseKeepsBase ==
  ASSUME Base, ReleaseAll
  PROVE  Base'
<1>1. /\ asked' = [r \in Reports |-> "up"]
      /\ UNCHANGED <<dongle, port, connecting, heard, view, partial, readLost, writer>>
  BY DEF ReleaseAll
<1>2. asked' \in [Reports -> Edges]
  BY <1>1 DEF Edges
<1>3. DongleTypeOK'
  BY <1>1, SameDongle DEF Base, dongle, firmware, DongleTypeOK
<1>4. LinesEnd'
  BY <1>1, SameLines DEF Base, port, dongle, firmware
<1>5. CASE ~open
  <2>1. escaped' = Reports /\ UNCHANGED txq
    BY <1>5 DEF ReleaseAll
  <2>2. HostTypeOK' /\ PortOK' /\ OnceAsked'
    BY <1>1, <1>2, <2>1 DEF Base, HostTypeOK, PortOK, OnceAsked, port, dongle, firmware
  <2>3. QED
    BY <1>3, <1>4, <2>2 DEF Base
<1>6. CASE open
  <2>1. /\ UNCHANGED escaped /\ txq \in Seq(Items) /\ DOMAIN txq = 1..Len(txq) /\ Len(txq) \in Nat
        /\ txq' \in Seq(Items) /\ Len(txq') <= TxMax /\ Len(txq') \in Nat /\ DOMAIN txq' = 1..Len(txq')
    BY <1>6, ReleaseIs
  <2>2. PICK n \in 0..2 : \E kept \in [1..n -> DOMAIN txq] : Kept(n, kept)
    BY <1>6, ReleaseIs
  <2>3. PICK kept \in [1..n -> DOMAIN txq] : Kept(n, kept)
    BY <2>2
  <2>4. ASSUME NEW i \in DOMAIN txq', ~IsFrame(txq'[i]) PROVE i \in 1..n
    <3>1. \A r \in Reports : IsFrame(Up(r))
      BY ItemsAre DEF Up, Edges
    <3>2. QED
      BY <2>1, <2>3, <2>4, <3>1 DEF Kept
  <2>5. ASSUME NEW i \in 1..n PROVE txq'[i] = txq[kept[i]] /\ kept[i] \in DOMAIN txq /\ kept[i] \in Nat
    BY <2>1, <2>3 DEF Kept
  <2>6. ASSUME NEW i \in DOMAIN txq', NEW j \in DOMAIN txq', ~IsFrame(txq'[i]), txq'[i] = txq'[j]
        PROVE  i = j
    <3>1. i \in 1..n /\ j \in 1..n
      BY <2>4, <2>6
    <3>2. kept[i] = kept[j]
      BY <2>5, <2>6, <3>1 DEF Base, OnceAsked
    <3>3. ~(i < j) /\ ~(j < i)
      BY <2>3, <2>5, <3>1, <3>2 DEF Kept
    <3>4. QED
      BY <3>1, <3>3
  <2>7. connecting' = "settle" => \A i \in DOMAIN txq' : IsFrame(txq'[i])
    BY <1>1, <2>4, <2>5 DEF Base, OnceAsked
  <2>8. connecting' = "pinged" => \A i \in DOMAIN txq' : txq'[i] # <<"STATUS">>
    <3>1. ~IsFrame(<<"STATUS">>)
      BY ItemsAre
    <3>2. QED
      BY <1>1, <2>4, <2>5, <3>1 DEF Base, OnceAsked
  <2>9. OnceAsked'
    BY <2>6, <2>7, <2>8 DEF OnceAsked
  <2>10. HostTypeOK' /\ PortOK'
    BY <1>1, <1>2, <1>6, <2>1 DEF Base, HostTypeOK, PortOK, port, dongle, firmware
  <2>11. QED
    BY <1>3, <1>4, <2>9, <2>10 DEF Base
<1>7. QED
  BY <1>5, <1>6

LEMMA RestartKeepsBase ==
  ASSUME Base, Restart
  PROVE  Base'
<1>1. /\ open' = FALSE /\ alive' = FALSE /\ linkDown' = TRUE
      /\ connecting' = "retry" /\ heard' = FALSE
      /\ view' = NoView /\ partial' = << >> /\ readLost' = FALSE
      /\ txq' = << >> /\ writer' = "waiting"
      /\ asked' = [r \in Reports |-> "up"] /\ escaped' = Reports
      /\ UNCHANGED firmware
  BY DEF Restart, HostStarts
<1>2. asked' \in [Reports -> Edges] /\ partial' \in Seq(Said) /\ view' \in View
  BY <1>1, EmptySeq DEF Edges, NoView, View
<1>3. DongleTypeOK'
  BY <1>1, SameDongle DEF Base, firmware, DongleTypeOK
<1>4. OnceAsked' /\ txq' \in Seq(Items) /\ Len(txq') <= TxMax
  BY <1>1, EmptyQueue, LinkBounds
<1>5. HostTypeOK' /\ PortOK'
  BY <1>1, <1>2, <1>4 DEF HostTypeOK, PortOK
<1>6. LinesEnd'
  BY <1>1 DEF Base, LinesEnd, firmware
<1>7. QED
  BY <1>3, <1>4, <1>5, <1>6 DEF Base

LEMMA StepKeepsBase ==
  ASSUME Base, [Next]_vars
  PROVE  Base'
<1>1. CASE RadioStep /\ UNCHANGED host
  BY <1>1, RadioKeepsBase
<1>2. CASE DongleCommand
  BY <1>2, CommandKeepsBase
<1>3. CASE DongleGone
  BY <1>3, GoneKeepsBase
<1>4. CASE Plug /\ UNCHANGED host
  BY <1>4, PlugKeepsBase
<1>5. CASE Connecting
  <2>1. CASE HandshakeTimeout
    <3>1. /\ ForceReconnect /\ UNCHANGED <<firmware, partial, readLost, writer, asked>> /\ connecting' = "retry"
      BY <2>1 DEF HandshakeTimeout
    <3>2. rx' = rx /\ UNCHANGED <<present, talks, radio, linkReady, cmd, ring, atv, missed, refused>>
      BY <3>1 DEF firmware
    <3>3. QED
      BY <3>1, <3>2, RxIs, ForceKeepsBase DEF Base, HostTypeOK
  <2>2. QED
    BY <1>5, <2>1, OpenKeepsBase, HandshakeKeepsBase, LinkDownKeepsBase DEF Connecting
<1>6. CASE Writer
  <2>1. CASE WriterFails
    <3>1. /\ ForceReconnect /\ writer' = "backoff"
          /\ UNCHANGED <<present, talks, radio, linkReady, cmd, ring, atv, missed, refused,
                         connecting, partial, readLost, asked>>
      BY <2>1 DEF WriterFails
    <3>2. CutTo(Len(rx))
      BY <2>1, FailsCuts
    <3>3. QED
      BY <3>1, <3>2, ForceKeepsBase DEF Base, HostTypeOK, CutTo
  <2>2. CASE WriterWakes
    <3>1. /\ writer' = "waiting"
          /\ UNCHANGED <<dongle, port, connecting, heard, view, partial, readLost, txq, asked, escaped>>
      BY <2>2 DEF WriterWakes
    <3>2. DongleTypeOK'
      BY <3>1, SameDongle DEF dongle, firmware, Base, DongleTypeOK
    <3>3. HostTypeOK' /\ PortOK' /\ OnceAsked' /\ LinesEnd'
      BY <3>1 DEF Base, HostTypeOK, PortOK, OnceAsked, LinesEnd, dongle, firmware, port
    <3>4. QED
      BY <3>2, <3>3 DEF Base
  <2>3. QED
    BY <1>6, <2>1, <2>2, WritesKeepsBase DEF Writer
<1>7. CASE Reader
  <2>1. CASE ReadFails
    <3>1. /\ readLost' = TRUE
          /\ UNCHANGED <<dongle, port, connecting, heard, view, partial, txq, writer, asked, escaped>>
      BY <2>1 DEF ReadFails
    <3>2. DongleTypeOK'
      BY <3>1, SameDongle DEF dongle, firmware, Base, DongleTypeOK
    <3>3. HostTypeOK' /\ PortOK' /\ OnceAsked' /\ LinesEnd'
      BY <3>1 DEF Base, HostTypeOK, PortOK, OnceAsked, LinesEnd, dongle, firmware, port
    <3>4. QED
      BY <3>2, <3>3 DEF Base
  <2>2. QED
    BY <1>7, <2>1, ReadKeepsBase DEF Reader
<1>8. CASE ReadLossHandled
  <2>1. /\ ForceReconnect /\ UNCHANGED <<dongle, connecting, partial, writer, asked>> /\ readLost' = FALSE
    BY <1>8 DEF ReadLossHandled
  <2>2. rx' = rx /\ UNCHANGED <<present, talks, radio, linkReady, cmd, ring, atv, missed, refused>>
    BY <2>1 DEF dongle, firmware
  <2>3. QED
    BY <2>1, <2>2, RxIs, ForceKeepsBase DEF Base, HostTypeOK
<1>9. ASSUME NEW r \in Reports, NEW e \in Edges, NEW strict \in BOOLEAN, KeyEdge(r, e, strict)
      PROVE  Base'
  BY <1>9, KeyKeepsBase
<1>10. CASE ReleaseAll
  BY <1>10, ReleaseKeepsBase
<1>11. CASE Restart
  BY <1>11, RestartKeepsBase
<1>12. CASE UNCHANGED vars
  <2>1. DongleTypeOK'
    BY <1>12 DEF Base, vars, dongle, firmware, radio, DongleTypeOK
  <2>2. HostTypeOK' /\ PortOK' /\ OnceAsked' /\ LinesEnd'
    BY <1>12 DEF Base, HostTypeOK, PortOK, OnceAsked, LinesEnd, vars, host, dongle, firmware, port
  <2>3. QED
    BY <2>1, <2>2 DEF Base
<1>13. QED
  BY <1>1, <1>2, <1>3, <1>4, <1>5, <1>6, <1>7, <1>8, <1>9, <1>10, <1>11, <1>12 DEF Next

LEMMA InitHasBase ==
  ASSUME Init
  PROVE  Base
<1>1. << >> \in Seq(Texts) /\ << >> \in Seq(Items) /\ << >> \in Seq(Landing) /\ << >> \in Seq(Said)
      /\ Len(<< >>) = 0 /\ RingMax \in Nat /\ RxMax \in Nat /\ TxMax \in Nat /\ DOMAIN << >> = {}
  BY EmptySeq, DongleBounds, LinkBounds
<1>2. /\ present \in BOOLEAN /\ talks = FALSE
      /\ conn \in BOOLEAN /\ secure \in BOOLEAN /\ suspended \in BOOLEAN /\ notify \in SUBSET Reports
      /\ linkReady = CanCarryKeys
      /\ rx = << >> /\ cmd = << >> /\ ring = << >>
      /\ atv = [r \in Reports |-> "up"] /\ missed = FALSE /\ refused = {}
      /\ open = FALSE /\ alive = FALSE /\ linkDown = TRUE
      /\ connecting = "retry" /\ heard = FALSE
      /\ view = NoView /\ partial = << >> /\ readLost = FALSE
      /\ txq = << >> /\ writer = "waiting"
      /\ asked = [r \in Reports |-> "up"] /\ escaped = {}
  BY DEF Init, DongleInit
<1>3. [r \in Reports |-> "up"] \in [Reports -> Edges]
  BY DEF Edges
<1>4. DongleTypeOK
  <2>1. linkReady \in BOOLEAN
    BY <1>2 DEF CanCarryKeys
  <2>2. atv \in [Reports -> Edges]
    BY <1>2, <1>3
  <2>3. /\ rx \in Seq(Landing) /\ Len(rx) <= RxMax /\ cmd \in Seq(Texts)
        /\ ring \in Seq(Texts) /\ Len(ring) <= RingMax
    BY <1>1, <1>2
  <2>4. refused \subseteq Reports /\ notify \subseteq Reports /\ missed \in BOOLEAN /\ talks \in BOOLEAN
    BY <1>2
  <2>5. present \in BOOLEAN /\ conn \in BOOLEAN /\ secure \in BOOLEAN /\ suspended \in BOOLEAN
    BY <1>2
  <2>6. QED
    BY <2>1, <2>2, <2>3, <2>4, <2>5 DEF DongleTypeOK, Texts, Landing
<1>5. HostTypeOK /\ PortOK
  <2>1. asked \in [Reports -> Edges]
    BY <1>2, <1>3
  <2>2. txq \in Seq(Items) /\ Len(txq) <= TxMax /\ partial \in Seq(Said)
    BY <1>1, <1>2
  <2>3. view \in View
    BY <1>2 DEF NoView, View
  <2>4. HostTypeOK
    BY <1>2, <2>1, <2>2, <2>3 DEF HostTypeOK
  <2>5. PortOK
    BY <1>2 DEF PortOK
  <2>6. QED
    BY <2>4, <2>5
<1>6. OnceAsked /\ LinesEnd
  BY <1>1, <1>2 DEF OnceAsked, LinesEnd
<1>7. QED
  BY <1>4, <1>5, <1>6 DEF Base

\* ble_dongle.py and the firmware's main.c: no queue or ring grows past its
\* size, also when everything is released into a full queue, and what goes
\* through them are whole frames, requests and texts.
THEOREM TypeCorrect == Spec => []TypeOK
<1>1. Init => Base
  BY InitHasBase
<1>2. Base /\ [Next]_vars => Base'
  BY StepKeepsBase
<1>3. Base => TypeOK
  BY TypesAre DEF Base
<1>. QED  BY <1>1, <1>2, <1>3, PTL DEF Spec

(***************************************************************************)
(* What a sequence of texts tells: lines that are whole, and the last of   *)
(* them that speaks of a matter.                                           *)
(***************************************************************************)
NoStatusAfter(s, i) == \A j \in 1..Len(s) : j > i => s[j].line # "STATUS"

\* A text begins its line, and ends it.
Begins(s, p, i) == IF i = 1 THEN Len(p) = 0 ELSE s[i - 1] = NewLine
EndsAt(s, ends, i) == IF i = Len(s) THEN ends ELSE s[i + 1] = NewLine

\* From the last STATUS of s on each line is a text and a newline; p is what has
\* been read of a line, ends says that a newline is about to be written.
WholeFrom(s, p, ends) ==
  /\ \A i \in 1..Len(s) : s[i] # NewLine /\ NoStatusAfter(s, i) => Begins(s, p, i) /\ EndsAt(s, ends, i)
  /\ Len(p) # 0 /\ NoStatusAfter(s, 0) => Len(p) = 1 /\ EndsAt(s, ends, 0)

\* The last text among tells is one of yes if and only if value is true; when
\* there is none, the value is what has been heard.
LastTold(tells, s, i) == s[i] \in tells /\ \A j \in 1..Len(s) : j > i => s[j] \notin tells
Follows(tells, yes, s, p, value, heardSo) ==
  /\ \A i \in 1..Len(s) : LastTold(tells, s, i) => (s[i] \in yes <=> value)
  /\ (\A i \in 1..Len(s) : s[i] \notin tells) =>
       (value <=> IF Len(p) # 0 /\ p[1] \in tells THEN p[1] \in yes ELSE heardSo)

Joined(s, t, u) ==
  /\ Len(s) \in Nat /\ Len(t) \in Nat /\ Len(u) = Len(s) + Len(t)
  /\ \A i \in 1..Len(s) : u[i] = s[i]
  /\ \A i \in 1..Len(t) : u[Len(s) + i] = t[i]

\* What is written is on a line of its own, or is the newline of the last.
Fits(s, p, ends, t) == t[1] = NewLine \/ (~ends /\ IF Len(s) = 0 THEN Len(p) = 0 ELSE s[Len(s)] = NewLine)
LinesOfOne(t, ends) ==
  \A i \in 1..Len(t) : t[i] # NewLine => (i > 1 => t[i - 1] = NewLine) /\ EndsAt(t, ends, i)

LEMMA WholeAppended ==
  ASSUME NEW s, NEW t, NEW u, NEW p, NEW ends \in BOOLEAN, NEW ends2 \in BOOLEAN,
         Joined(s, t, u), Len(t) > 0, Fits(s, p, ends, t), LinesOfOne(t, ends2), WholeFrom(s, p, ends)
  PROVE  WholeFrom(u, p, ends2)
<1>1. /\ Len(s) \in Nat /\ Len(t) \in Nat /\ Len(u) = Len(s) + Len(t)
      /\ \A i \in 1..Len(s) : u[i] = s[i]
      /\ \A i \in 1..Len(t) : u[Len(s) + i] = t[i]
  BY DEF Joined
<1>2. \A i \in 0..Len(s) : NoStatusAfter(u, i) => NoStatusAfter(s, i)
  BY <1>1 DEF NoStatusAfter
<1>3. u[Len(s) + 1] = t[1] /\ Len(s) + 1 \in 1..Len(u)
  BY <1>1
<1>4. ASSUME NEW i \in 0..Len(s), EndsAt(s, ends, i) PROVE EndsAt(u, ends2, i)
  <2>1. i # Len(u)
    BY <1>1
  <2>2. CASE i = Len(s)
    BY <1>3, <1>4, <2>1, <2>2 DEF EndsAt, Fits
  <2>3. CASE i # Len(s)
    <3>1. s[i + 1] = NewLine /\ i + 1 \in 1..Len(s)
      BY <1>1, <1>4, <2>3 DEF EndsAt
    <3>2. QED
      BY <1>1, <2>1, <3>1 DEF EndsAt
  <2>4. QED
    BY <2>2, <2>3
<1>5. ASSUME NEW i \in 1..Len(u), u[i] # NewLine, NoStatusAfter(u, i)
      PROVE  Begins(u, p, i) /\ EndsAt(u, ends2, i)
  <2>1. CASE i <= Len(s)
    <3>1. i \in 1..Len(s) /\ i \in 0..Len(s)
      BY <1>1, <2>1
    <3>2. s[i] # NewLine /\ NoStatusAfter(s, i)
      BY <1>1, <1>2, <1>5, <3>1
    <3>3. Begins(s, p, i) /\ EndsAt(s, ends, i)
      BY <3>1, <3>2 DEF WholeFrom
    <3>4. i # 1 => i - 1 \in 1..Len(s)
      BY <1>1, <3>1
    <3>5. Begins(u, p, i)
      BY <1>1, <3>3, <3>4 DEF Begins
    <3>6. QED
      BY <1>4, <3>1, <3>3, <3>5
  <2>2. CASE i > Len(s)
    <3> DEFINE k == i - Len(s)
    <3>1. k \in 1..Len(t) /\ i = Len(s) + k
      BY <1>1, <2>2
    <3> HIDE DEF k
    <3>2. t[k] # NewLine
      BY <1>1, <1>5, <3>1
    <3>3. (k > 1 => t[k - 1] = NewLine) /\ EndsAt(t, ends2, k)
      BY <3>1, <3>2 DEF LinesOfOne
    <3>4. EndsAt(u, ends2, i)
      <4>1. CASE k = Len(t)
        <5>1. ends2 /\ i = Len(u)
          BY <1>1, <3>1, <3>3, <4>1 DEF EndsAt
        <5>2. QED
          BY <5>1 DEF EndsAt
      <4>2. CASE k # Len(t)
        <5>1. k + 1 \in 1..Len(t) /\ i + 1 = Len(s) + (k + 1) /\ i # Len(u) /\ t[k + 1] = NewLine
          BY <1>1, <3>1, <3>3, <4>2 DEF EndsAt
        <5>2. QED
          BY <1>1, <5>1 DEF EndsAt
      <4>3. QED
        BY <4>1, <4>2
    <3>5. Begins(u, p, i)
      <4>1. CASE k > 1
        <5>1. k - 1 \in 1..Len(t) /\ i - 1 = Len(s) + (k - 1) /\ i # 1
          BY <1>1, <3>1, <4>1
        <5>2. QED
          BY <1>1, <3>3, <4>1, <5>1 DEF Begins
      <4>2. CASE k = 1
        <5>1. t[1] # NewLine /\ i = Len(s) + 1
          BY <3>1, <3>2, <4>2
        <5>2. IF Len(s) = 0 THEN Len(p) = 0 ELSE s[Len(s)] = NewLine
          BY <5>1 DEF Fits
        <5>3. Len(s) # 0 => Len(s) \in 1..Len(s) /\ i - 1 = Len(s) /\ i # 1
          BY <1>1, <5>1
        <5>4. Len(s) = 0 => i = 1
          BY <5>1
        <5>5. QED
          BY <1>1, <5>2, <5>3, <5>4 DEF Begins
      <4>3. QED
        BY <1>1, <3>1, <4>1, <4>2
    <3>6. QED
      BY <3>4, <3>5
  <2>3. QED
    BY <1>1, <2>1, <2>2
<1>6. ASSUME Len(p) # 0, NoStatusAfter(u, 0)
      PROVE  Len(p) = 1 /\ EndsAt(u, ends2, 0)
  <2>1. 0 \in 0..Len(s)
    BY <1>1
  <2>2. NoStatusAfter(s, 0)
    BY <1>2, <1>6, <2>1
  <2>3. Len(p) = 1 /\ EndsAt(s, ends, 0)
    BY <1>6, <2>2 DEF WholeFrom
  <2>4. QED
    BY <1>4, <2>1, <2>3
<1>7. QED
  BY <1>5, <1>6 DEF WholeFrom

LEMMA WholeStatus ==
  ASSUME NEW s, NEW p, Len(s) \in Nat, Len(s) > 0, s[Len(s)].line = "STATUS", Begins(s, p, Len(s))
  PROVE  WholeFrom(s, p, TRUE)
<1>1. ASSUME NEW i \in 0..Len(s), NoStatusAfter(s, i) PROVE i = Len(s)
  <2>1. Len(s) \in 1..Len(s)
    OBVIOUS
  <2>2. ~(Len(s) > i)
    BY <1>1, <2>1 DEF NoStatusAfter
  <2>3. QED
    BY <2>2
<1>2. ~NoStatusAfter(s, 0)
  <2>1. 0 \in 0..Len(s)
    OBVIOUS
  <2>2. QED
    BY <1>1, <2>1
<1>3. ASSUME NEW i \in 1..Len(s), NoStatusAfter(s, i) PROVE Begins(s, p, i) /\ EndsAt(s, TRUE, i)
  <2>1. i \in 0..Len(s)
    OBVIOUS
  <2>2. i = Len(s)
    BY <1>1, <1>3, <2>1
  <2>3. QED
    BY <2>2 DEF EndsAt
<1>4. QED
  BY <1>2, <1>3 DEF WholeFrom

\* u is what comes after the first text of s.
AfterFirst(s, u) ==
  /\ Len(s) \in Nat /\ Len(s) > 0 /\ Len(u) = Len(s) - 1
  /\ \A i \in 1..(Len(s) - 1) : u[i] = s[i + 1]

LEMMA WholeRead ==
  ASSUME NEW s, NEW u, NEW p, NEW q, NEW ends \in BOOLEAN, AfterFirst(s, u), WholeFrom(s, p, ends)
  PROVE  /\ s[1] = NewLine /\ Len(q) = 0 => WholeFrom(u, q, ends)
         /\ s[1] # NewLine /\ Len(p) \in Nat /\ Len(q) = Len(p) + 1 => WholeFrom(u, q, ends)
<1>1. /\ Len(s) \in Nat /\ Len(s) > 0 /\ Len(u) \in Nat /\ Len(u) = Len(s) - 1
      /\ \A i \in 1..Len(u) : u[i] = s[i + 1]
  BY DEF AfterFirst
<1>2. ASSUME NEW i \in 0..Len(u), NoStatusAfter(u, i) PROVE NoStatusAfter(s, i + 1)
  <2>1. ASSUME NEW j \in 1..Len(s), j > i + 1 PROVE s[j].line # "STATUS"
    <3>1. j - 1 \in 1..Len(u) /\ j - 1 > i /\ (j - 1) + 1 = j
      BY <1>1, <2>1
    <3>2. u[j - 1] = s[j]
      BY <1>1, <3>1
    <3>3. QED
      BY <1>2, <3>1, <3>2 DEF NoStatusAfter
  <2>2. QED
    BY <2>1 DEF NoStatusAfter
<1>3. ASSUME NEW i \in 0..Len(u), EndsAt(s, ends, i + 1) PROVE EndsAt(u, ends, i)
  <2>1. i + 1 = Len(s) <=> i = Len(u)
    BY <1>1
  <2>2. i # Len(u) => i + 1 \in 1..Len(u)
    BY <1>1
  <2>3. QED
    BY <1>1, <1>3, <2>1, <2>2 DEF EndsAt
<1>4. ASSUME NEW i \in 1..Len(u), u[i] # NewLine, NoStatusAfter(u, i)
      PROVE  s[i] = NewLine /\ EndsAt(u, ends, i) /\ (i # 1 => u[i - 1] = NewLine)
  <2>1. i \in 0..Len(u) /\ i + 1 \in 1..Len(s) /\ i + 1 # 1 /\ (i + 1) - 1 = i
    BY <1>1
  <2>2. s[i + 1] # NewLine /\ NoStatusAfter(s, i + 1)
    BY <1>1, <1>2, <1>4, <2>1
  <2>3. Begins(s, p, i + 1) /\ EndsAt(s, ends, i + 1)
    BY <2>1, <2>2 DEF WholeFrom
  <2>4. s[i] = NewLine
    BY <2>1, <2>3 DEF Begins
  <2>5. i # 1 => i - 1 \in 1..Len(u) /\ (i - 1) + 1 = i
    BY <1>1
  <2>6. QED
    BY <1>1, <1>3, <2>1, <2>3, <2>4, <2>5
<1>5. ASSUME s[1] = NewLine, Len(q) = 0 PROVE WholeFrom(u, q, ends)
  <2>1. ASSUME NEW i \in 1..Len(u), u[i] # NewLine, NoStatusAfter(u, i) PROVE Begins(u, q, i)
    BY <1>4, <1>5, <2>1 DEF Begins
  <2>2. QED
    BY <1>4, <1>5, <2>1 DEF WholeFrom
<1>6. ASSUME s[1] # NewLine, Len(p) \in Nat, Len(q) = Len(p) + 1 PROVE WholeFrom(u, q, ends)
  <2>1. ASSUME NEW i \in 1..Len(u), u[i] # NewLine, NoStatusAfter(u, i) PROVE Begins(u, q, i)
    <3>1. i # 1
      BY <1>4, <1>6, <2>1
    <3>2. QED
      BY <1>4, <2>1, <3>1 DEF Begins
  <2>2. ASSUME NoStatusAfter(u, 0) PROVE Len(q) = 1 /\ EndsAt(u, ends, 0)
    <3>1. 0 \in 0..Len(u) /\ 1 \in 1..Len(s) /\ 0 + 1 = 1
      BY <1>1
    <3>2. NoStatusAfter(s, 1)
      BY <1>2, <2>2, <3>1
    <3>3. Begins(s, p, 1) /\ EndsAt(s, ends, 1)
      BY <1>6, <3>1, <3>2 DEF WholeFrom
    <3>4. Len(q) = 1
      BY <1>6, <3>3 DEF Begins
    <3>5. QED
      BY <1>3, <3>1, <3>3, <3>4
  <2>3. QED
    BY <1>4, <2>1, <2>2 DEF WholeFrom
<1>7. QED
  BY <1>5, <1>6

\* t tells of a change from one value to the other, or of none.
Tells(tells, yes, t, value, value2) ==
  /\ \A i \in 1..Len(t) : LastTold(tells, t, i) => (t[i] \in yes <=> value2)
  /\ (\A i \in 1..Len(t) : t[i] \notin tells) => value2 = value

LEMMA FollowsAppended ==
  ASSUME NEW s, NEW t, NEW u, NEW p, NEW tells, NEW yes, NEW value, NEW value2, NEW heardSo,
         Joined(s, t, u), Tells(tells, yes, t, value, value2), Follows(tells, yes, s, p, value, heardSo)
  PROVE  Follows(tells, yes, u, p, value2, heardSo)
<1>1. /\ Len(s) \in Nat /\ Len(t) \in Nat /\ Len(u) = Len(s) + Len(t)
      /\ \A i \in 1..Len(s) : u[i] = s[i]
      /\ \A i \in 1..Len(t) : u[Len(s) + i] = t[i]
  BY DEF Joined
<1>2. \A i \in 1..Len(t) : Len(s) + i \in 1..Len(u)
  BY <1>1
<1>3. ASSUME NEW i \in 1..Len(u), LastTold(tells, u, i) PROVE u[i] \in yes <=> value2
  <2>1. CASE i <= Len(s)
    <3>1. i \in 1..Len(s) /\ \A j \in 1..Len(s) : j \in 1..Len(u)
      BY <1>1, <2>1
    <3>2. LastTold(tells, s, i)
      BY <1>1, <1>3, <3>1 DEF LastTold
    <3>3. \A j \in 1..Len(t) : Len(s) + j > i
      BY <1>1, <2>1
    <3>4. \A j \in 1..Len(t) : t[j] \notin tells
      BY <1>1, <1>2, <1>3, <3>3 DEF LastTold
    <3>5. value2 = value
      BY <3>4 DEF Tells
    <3>6. s[i] \in yes <=> value
      BY <3>1, <3>2 DEF Follows
    <3>7. QED
      BY <1>1, <3>1, <3>5, <3>6
  <2>2. CASE i > Len(s)
    <3> DEFINE k == i - Len(s)
    <3>1. k \in 1..Len(t) /\ i = Len(s) + k
      BY <1>1, <2>2
    <3> HIDE DEF k
    <3>2. \A j \in 1..Len(t) : j > k => Len(s) + j > i
      BY <1>1, <3>1
    <3>3. LastTold(tells, t, k)
      BY <1>1, <1>2, <1>3, <3>1, <3>2 DEF LastTold
    <3>4. t[k] \in yes <=> value2
      BY <3>1, <3>3 DEF Tells
    <3>5. QED
      BY <1>1, <3>1, <3>4
  <2>3. QED
    BY <1>1, <2>1, <2>2
<1>4. ASSUME \A i \in 1..Len(u) : u[i] \notin tells
      PROVE  value2 <=> IF Len(p) # 0 /\ p[1] \in tells THEN p[1] \in yes ELSE heardSo
  <2>1. \A i \in 1..Len(t) : t[i] \notin tells
    BY <1>1, <1>2, <1>4
  <2>2. \A i \in 1..Len(s) : s[i] \notin tells
    <3>1. \A i \in 1..Len(s) : i \in 1..Len(u)
      BY <1>1
    <3>2. QED
      BY <1>1, <1>4, <3>1
  <2>3. value2 = value
    BY <2>1 DEF Tells
  <2>4. value <=> IF Len(p) # 0 /\ p[1] \in tells THEN p[1] \in yes ELSE heardSo
    BY <2>2 DEF Follows
  <2>5. QED
    BY <2>3, <2>4
<1>5. QED
  BY <1>3, <1>4 DEF Follows

LEMMA FollowsStatus ==
  ASSUME NEW s, NEW p, NEW tells, NEW yes, NEW value, NEW heardSo,
         Len(s) \in Nat, Len(s) > 0, s[Len(s)] \in tells, s[Len(s)] \in yes <=> value
  PROVE  Follows(tells, yes, s, p, value, heardSo)
<1>1. Len(s) \in 1..Len(s)
  OBVIOUS
<1>2. ASSUME NEW i \in 1..Len(s), LastTold(tells, s, i) PROVE i = Len(s)
  BY <1>1, <1>2 DEF LastTold
<1>3. ASSUME NEW i \in 1..Len(s), LastTold(tells, s, i) PROVE s[i] \in yes <=> value
  BY <1>2, <1>3
<1>4. ~(\A i \in 1..Len(s) : s[i] \notin tells)
  BY <1>1
<1>5. QED
  BY <1>3, <1>4 DEF Follows

\* What the texts after the first tell.
LEMMA FollowsAfter ==
  ASSUME NEW s, NEW u, NEW tells, NEW yes, NEW value, NEW p, NEW heardSo,
         AfterFirst(s, u), Follows(tells, yes, s, p, value, heardSo),
         \A j \in 1..Len(s) : s[j].line = "STATUS" => s[j] \in tells
  PROVE  /\ \A i \in 1..Len(u) : LastTold(tells, u, i) => (u[i] \in yes <=> value)
         /\ (\A i \in 1..Len(u) : u[i] \notin tells) =>
              (\A j \in 1..Len(s) : j > 1 => s[j] \notin tells) /\ NoStatusAfter(s, 1)
<1>1. /\ Len(s) \in Nat /\ Len(s) > 0 /\ Len(u) \in Nat /\ Len(u) = Len(s) - 1
      /\ \A i \in 1..Len(u) : u[i] = s[i + 1]
  BY DEF AfterFirst
<1>2. ASSUME NEW j \in 1..Len(s), j > 1 PROVE j - 1 \in 1..Len(u) /\ u[j - 1] = s[j]
  <2>1. j - 1 \in 1..Len(u) /\ (j - 1) + 1 = j
    BY <1>1, <1>2
  <2>2. QED
    BY <1>1, <2>1
<1>3. ASSUME NEW i \in 1..Len(u), LastTold(tells, u, i) PROVE u[i] \in yes <=> value
  <2>1. i + 1 \in 1..Len(s) /\ s[i + 1] = u[i]
    BY <1>1
  <2>2. ASSUME NEW j \in 1..Len(s), j > i + 1 PROVE s[j] \notin tells
    <3>1. j > 1 /\ j - 1 > i
      BY <1>1, <2>2
    <3>2. j - 1 \in 1..Len(u) /\ u[j - 1] = s[j]
      BY <1>2, <3>1
    <3>3. QED
      BY <1>3, <3>1, <3>2 DEF LastTold
  <2>3. LastTold(tells, s, i + 1)
    BY <1>3, <2>1, <2>2 DEF LastTold
  <2>4. QED
    BY <2>1, <2>3 DEF Follows
<1>4. ASSUME \A i \in 1..Len(u) : u[i] \notin tells
      PROVE  /\ \A j \in 1..Len(s) : j > 1 => s[j] \notin tells
             /\ NoStatusAfter(s, 1)
  <2>1. \A j \in 1..Len(s) : j > 1 => s[j] \notin tells
    BY <1>2, <1>4
  <2>2. QED
    BY <2>1 DEF NoStatusAfter
<1>5. QED
  BY <1>3, <1>4

\* What is heard once the line p has been handled.
Heard(tells, yes, p, before, after) ==
  /\ Len(p) = 0 => (after <=> before)
  /\ Len(p) = 1 => (after <=> IF p[1] \in tells THEN p[1] \in yes ELSE before)

\* A newline has what was read of its line heard.
LEMMA FollowsNewLine ==
  ASSUME NEW s, NEW u, NEW p, NEW q, NEW ends \in BOOLEAN, NEW tells, NEW yes, NEW value, NEW heardSo, NEW heard2,
         AfterFirst(s, u), WholeFrom(s, p, ends), Follows(tells, yes, s, p, value, heardSo),
         NewLine \notin tells, \A j \in 1..Len(s) : s[j].line = "STATUS" => s[j] \in tells,
         s[1] = NewLine, Len(q) = 0, Len(p) \in Nat, Heard(tells, yes, p, heardSo, heard2)
  PROVE  Follows(tells, yes, u, q, value, heard2)
<1>1. ASSUME \A i \in 1..Len(u) : u[i] \notin tells PROVE value <=> heard2
  <2>1. \A j \in 1..Len(s) : s[j] \notin tells
    <3>1. \A j \in 1..Len(s) : j > 1 => s[j] \notin tells
      BY <1>1, FollowsAfter
    <3>2. \A j \in 1..Len(s) : j = 1 \/ j > 1
      BY DEF AfterFirst
    <3>3. QED
      BY <3>1, <3>2
  <2>2. value <=> IF Len(p) # 0 /\ p[1] \in tells THEN p[1] \in yes ELSE heardSo
    BY <2>1 DEF Follows
  <2>3. CASE Len(p) = 0
    BY <2>2, <2>3 DEF Heard
  <2>4. CASE Len(p) # 0
    <3>1. NoStatusAfter(s, 0)
      BY <2>1 DEF NoStatusAfter
    <3>2. Len(p) = 1
      BY <2>4, <3>1 DEF WholeFrom
    <3>3. QED
      BY <2>2, <3>2 DEF Heard
  <2>5. QED
    BY <2>3, <2>4
<1>2. \A i \in 1..Len(u) : LastTold(tells, u, i) => (u[i] \in yes <=> value)
  BY FollowsAfter
<1>3. QED
  BY <1>1, <1>2 DEF Follows

\* A text is not heard yet, and is the first of its line unless a STATUS comes.
LEMMA FollowsText ==
  ASSUME NEW s, NEW u, NEW p, NEW q, NEW ends \in BOOLEAN, NEW tells, NEW yes, NEW value, NEW heardSo,
         AfterFirst(s, u), WholeFrom(s, p, ends), Follows(tells, yes, s, p, value, heardSo),
         \A j \in 1..Len(s) : s[j].line = "STATUS" => s[j] \in tells,
         s[1] # NewLine, Len(p) \in Nat, Len(q) = Len(p) + 1, q[1] = (IF Len(p) = 0 THEN s[1] ELSE p[1])
  PROVE  Follows(tells, yes, u, q, value, heardSo)
<1>1. ASSUME \A i \in 1..Len(u) : u[i] \notin tells
      PROVE  value <=> IF q[1] \in tells THEN q[1] \in yes ELSE heardSo
  <2>1. 1 \in 1..Len(s) /\ \A j \in 1..Len(s) : j = 1 \/ j > 1
    BY DEF AfterFirst
  <2>2. (\A j \in 1..Len(s) : j > 1 => s[j] \notin tells) /\ NoStatusAfter(s, 1)
    BY <1>1, FollowsAfter
  <2>3. Begins(s, p, 1)
    BY <2>1, <2>2 DEF WholeFrom
  <2>4. Len(p) = 0 /\ q[1] = s[1]
    BY <2>3 DEF Begins
  <2>5. CASE s[1] \in tells
    <3>1. LastTold(tells, s, 1)
      BY <2>2, <2>5 DEF LastTold
    <3>2. s[1] \in yes <=> value
      BY <2>1, <3>1 DEF Follows
    <3>3. QED
      BY <2>4, <2>5, <3>2
  <2>6. CASE s[1] \notin tells
    <3>1. \A j \in 1..Len(s) : s[j] \notin tells
      BY <2>1, <2>2, <2>6
    <3>2. value <=> heardSo
      BY <2>4, <3>1 DEF Follows
    <3>3. QED
      BY <2>4, <2>6, <3>2
  <2>7. QED
    BY <2>5, <2>6
<1>2. Len(q) # 0
  OBVIOUS
<1>3. \A i \in 1..Len(u) : LastTold(tells, u, i) => (u[i] \in yes <=> value)
  BY FollowsAfter
<1>4. QED
  BY <1>1, <1>2, <1>3 DEF Follows

(***************************************************************************)
(* The host's view: every step keeps it told.                              *)
(***************************************************************************)
ConnTexts == {x \in Texts : TellsConn(x)}
ConnYes == {x \in Texts : ConnTold(x)}
ReadyTexts == {x \in Texts : TellsReady(x)}
ReadyYes == {x \in Texts : ReadyTold(x)}

WholeNow == WholeFrom(ring, partial, cmd = <<NewLine>>)
ConnNow == Follows(ConnTexts, ConnYes, ring, partial, conn, view.connected)
ReadyNow == Follows(ReadyTexts, ReadyYes, ring, partial, linkReady, view.ready)
Told == Informed => WholeNow /\ ConnNow /\ ReadyNow

LEMMA LengthsAre ==
  ASSUME Base
  PROVE  /\ ring \in Seq(Texts) /\ partial \in Seq(Said) /\ partial \in Seq(Texts)
         /\ Len(ring) \in Nat /\ Len(partial) \in Nat
         /\ DOMAIN ring = 1..Len(ring) /\ (ring = << >> <=> Len(ring) = 0)
         /\ (partial = << >> <=> Len(partial) = 0)
         /\ \A i \in 1..Len(ring) : ring[i] \in Texts
         /\ Len(partial) # 0 => partial[1] \in Texts /\ partial[1] \in Said
         /\ conn \in BOOLEAN /\ linkReady \in BOOLEAN /\ view.connected \in BOOLEAN /\ view.ready \in BOOLEAN
<1>1. ring \in Seq(Texts) /\ partial \in Seq(Said) /\ conn \in BOOLEAN /\ linkReady \in BOOLEAN /\ view \in View
  BY DEF Base, DongleTypeOK, HostTypeOK, Texts
<1>2. view.connected \in BOOLEAN /\ view.ready \in BOOLEAN
  BY <1>1 DEF View
<1>3. /\ Len(ring) \in Nat /\ DOMAIN ring = 1..Len(ring) /\ (ring = << >> <=> Len(ring) = 0)
      /\ \A i \in 1..Len(ring) : ring[i] \in Texts
  BY <1>1, LenProperties, EmptySeq
<1>4. /\ Len(partial) \in Nat /\ (partial = << >> <=> Len(partial) = 0)
      /\ Len(partial) # 0 => partial[1] \in Said
  BY <1>1, LenProperties, EmptySeq
<1>5. partial \in Seq(Texts) /\ (Len(partial) # 0 => partial[1] \in Texts)
  BY <1>1, <1>4 DEF Texts
<1>6. QED
  BY <1>1, <1>2, <1>3, <1>4, <1>5

\* The invariant's parts, as the sequence lemmas speak of them.
LEMMA ViewIs == Base => (LinesWhole /\ ConnFollows /\ ReadyFollows <=> Told)
<1> SUFFICES ASSUME Base PROVE LinesWhole /\ ConnFollows /\ ReadyFollows <=> Told
  OBVIOUS
<1>1. /\ DOMAIN ring = 1..Len(ring) /\ (ring = << >> <=> Len(ring) = 0)
      /\ (partial = << >> <=> Len(partial) = 0) /\ Len(ring) \in Nat
      /\ \A i \in 1..Len(ring) : ring[i] \in Texts
      /\ Len(partial) # 0 => partial[1] \in Texts
      /\ conn \in BOOLEAN /\ linkReady \in BOOLEAN /\ view.connected \in BOOLEAN /\ view.ready \in BOOLEAN
  BY LengthsAre
<1>2. \A x \in Texts : /\ (x \in ConnTexts <=> TellsConn(x)) /\ (x \in ConnYes <=> ConnTold(x))
                       /\ (x \in ReadyTexts <=> TellsReady(x)) /\ (x \in ReadyYes <=> ReadyTold(x))
                       /\ ConnTold(x) \in BOOLEAN /\ ReadyTold(x) \in BOOLEAN
  BY TellsWhat DEF ConnTexts, ConnYes, ReadyTexts, ReadyYes
<1>3. LinesWhole <=> (Informed => WholeNow)
  <2>1. \A i : LastStatus(i) <=> NoStatusAfter(ring, i)
    BY <1>1 DEF LastStatus, NoStatusAfter
  <2>2. \A i \in 1..Len(ring) :
          (/\ IF i = 1 THEN partial = << >> ELSE ring[i - 1] = NewLine
           /\ IF i = Len(ring) THEN cmd = <<NewLine>> ELSE ring[i + 1] = NewLine)
          <=> Begins(ring, partial, i) /\ EndsAt(ring, cmd = <<NewLine>>, i)
    BY <1>1 DEF Begins, EndsAt
  <2>3. (IF ring = << >> THEN cmd = <<NewLine>> ELSE ring[1] = NewLine) <=> EndsAt(ring, cmd = <<NewLine>>, 0)
    BY <1>1 DEF EndsAt
  <2>4. QED
    BY <1>1, <2>1, <2>2, <2>3 DEF LinesWhole, WholeNow, WholeFrom
<1>4. ConnFollows <=> (Informed => ConnNow)
  <2>1. \A i \in 1..Len(ring) :
          (TellsConn(ring[i]) /\ \A j \in DOMAIN ring : j > i => ~TellsConn(ring[j])) <=> LastTold(ConnTexts, ring, i)
    BY <1>1, <1>2 DEF LastTold
  <2>2. \A i \in 1..Len(ring) : ConnTold(ring[i]) = conn <=> (ring[i] \in ConnYes <=> conn)
    BY <1>1, <1>2
  <2>3. (\A i \in DOMAIN ring : ~TellsConn(ring[i])) <=> (\A i \in 1..Len(ring) : ring[i] \notin ConnTexts)
    BY <1>1, <1>2
  <2>4. (conn = IF partial # << >> /\ TellsConn(partial[1]) THEN ConnTold(partial[1]) ELSE view.connected)
        <=> (conn <=> IF Len(partial) # 0 /\ partial[1] \in ConnTexts THEN partial[1] \in ConnYes ELSE view.connected)
    BY <1>1, <1>2
  <2>5. QED
    BY <1>1, <2>1, <2>2, <2>3, <2>4 DEF ConnFollows, ConnNow, Follows
<1>5. ReadyFollows <=> (Informed => ReadyNow)
  <2>1. \A i \in 1..Len(ring) :
          (TellsReady(ring[i]) /\ \A j \in DOMAIN ring : j > i => ~TellsReady(ring[j])) <=> LastTold(ReadyTexts, ring, i)
    BY <1>1, <1>2 DEF LastTold
  <2>2. \A i \in 1..Len(ring) : ReadyTold(ring[i]) = linkReady <=> (ring[i] \in ReadyYes <=> linkReady)
    BY <1>1, <1>2
  <2>3. (\A i \in DOMAIN ring : ~TellsReady(ring[i])) <=> (\A i \in 1..Len(ring) : ring[i] \notin ReadyTexts)
    BY <1>1, <1>2
  <2>4. (linkReady = IF partial # << >> /\ TellsReady(partial[1]) THEN ReadyTold(partial[1]) ELSE view.ready)
        <=> (linkReady <=> IF Len(partial) # 0 /\ partial[1] \in ReadyTexts THEN partial[1] \in ReadyYes ELSE view.ready)
    BY <1>1, <1>2
  <2>5. QED
    BY <1>1, <2>1, <2>2, <2>3, <2>4 DEF ReadyFollows, ReadyNow, Follows
<1>6. QED
  BY <1>3, <1>4, <1>5 DEF Told

\* Nothing that is told or heard changes, and no more is known than before.
LEMMA SameTold ==
  ASSUME Told, UNCHANGED <<ring, partial, view, conn, linkReady>>,
         cmd' = <<NewLine>> <=> cmd = <<NewLine>>, Informed' => Informed
  PROVE  Told'
<1>1. Informed' => WholeNow /\ ConnNow /\ ReadyNow
  BY DEF Told
<1>2. (cmd' = <<NewLine>>) = (cmd = <<NewLine>>)
  OBVIOUS
<1>3. (WholeNow' <=> WholeNow) /\ (ConnNow' <=> ConnNow) /\ (ReadyNow' <=> ReadyNow)
  BY <1>2 DEF WholeNow, ConnNow, ReadyNow
<1>4. QED
  BY <1>1, <1>3 DEF Told

\* More is written to the ring, and tells what has changed.
LEMMA MoreTold ==
  ASSUME Base, Told, NEW t \in Seq(Texts), t # << >>, ring' = ring \o t,
         UNCHANGED <<partial, view>>, Informed' => Informed,
         cmd = <<NewLine>> => t[1] = NewLine, LinesOfOne(t, cmd' = <<NewLine>>),
         Tells(ConnTexts, ConnYes, t, conn, conn'), Tells(ReadyTexts, ReadyYes, t, linkReady, linkReady')
  PROVE  Told'
<1> SUFFICES ASSUME Informed' PROVE (WholeNow /\ ConnNow /\ ReadyNow)'
  BY DEF Told
<1>1. Informed /\ alive /\ WholeNow /\ ConnNow /\ ReadyNow
  BY DEF Told, Informed
<1>2. /\ ring \in Seq(Texts) /\ Len(ring) \in Nat
      /\ (ring = << >> <=> Len(ring) = 0) /\ (partial = << >> <=> Len(partial) = 0)
  BY LengthsAre
<1>3. Joined(ring, t, ring') /\ Len(t) > 0
  <2>1. /\ Len(ring) \in Nat /\ Len(t) \in Nat /\ Len(ring \o t) = Len(ring) + Len(t)
        /\ \A i \in 1..Len(ring) : (ring \o t)[i] = ring[i]
        /\ \A i \in 1..Len(t) : (ring \o t)[Len(ring) + i] = t[i]
    BY <1>2, ConcatIs
  <2>2. Len(t) > 0
    BY <2>1, EmptySeq
  <2>3. QED
    BY <2>1, <2>2 DEF Joined
<1>4. Fits(ring, partial, cmd = <<NewLine>>, t)
  BY <1>1, <1>2 DEF Fits, Base, LinesEnd
<1>5. WholeFrom(ring', partial, cmd' = <<NewLine>>)
  BY <1>1, <1>3, <1>4, WholeAppended DEF WholeNow
<1>6. Follows(ConnTexts, ConnYes, ring', partial, conn', view.connected)
  BY <1>1, <1>3, FollowsAppended DEF ConnNow
<1>7. Follows(ReadyTexts, ReadyYes, ring', partial, linkReady', view.ready)
  BY <1>1, <1>3, FollowsAppended DEF ReadyNow
<1>8. QED
  BY <1>5, <1>6, <1>7 DEF WholeNow, ConnNow, ReadyNow

\* The lines of a callback tell the truth, also as the sequence lemmas say it.
LEMMA TruthTells ==
  ASSUME NEW t \in Seq(Texts), Truthful(t)
  PROVE  /\ Tells(ConnTexts, ConnYes, t, conn, conn') /\ Tells(ReadyTexts, ReadyYes, t, linkReady, linkReady')
<1>1. Len(t) \in Nat /\ \A i \in 1..Len(t) : t[i] \in Texts
  BY LenProperties
<1>2. \A x \in Texts : /\ (x \in ConnTexts <=> TellsConn(x)) /\ (x \in ConnYes <=> ConnTold(x))
                       /\ (x \in ReadyTexts <=> TellsReady(x)) /\ (x \in ReadyYes <=> ReadyTold(x))
  BY DEF ConnTexts, ConnYes, ReadyTexts, ReadyYes
<1>3. Tells(ConnTexts, ConnYes, t, conn, conn')
  <2>1. \A i \in 1..Len(t) : LastTold(ConnTexts, t, i) =>
          TellsConn(t[i]) /\ \A j \in 1..Len(t) : j > i => ~TellsConn(t[j])
    BY <1>1, <1>2 DEF LastTold
  <2>2. \A i \in 1..Len(t) : LastTold(ConnTexts, t, i) => ConnTold(t[i]) = conn'
    BY <2>1 DEF Truthful
  <2>3. (\A i \in 1..Len(t) : t[i] \notin ConnTexts) => conn' = conn
    BY <1>1, <1>2 DEF Truthful
  <2>4. QED
    BY <1>1, <1>2, <2>2, <2>3 DEF Tells
<1>4. Tells(ReadyTexts, ReadyYes, t, linkReady, linkReady')
  <2>1. \A i \in 1..Len(t) : LastTold(ReadyTexts, t, i) =>
          TellsReady(t[i]) /\ \A j \in 1..Len(t) : j > i => ~TellsReady(t[j])
    BY <1>1, <1>2 DEF LastTold
  <2>2. \A i \in 1..Len(t) : LastTold(ReadyTexts, t, i) => ReadyTold(t[i]) = linkReady'
    BY <2>1 DEF Truthful
  <2>3. (\A i \in 1..Len(t) : t[i] \notin ReadyTexts) => linkReady' = linkReady
    BY <1>1, <1>2 DEF Truthful
  <2>4. QED
    BY <1>1, <1>2, <2>2, <2>3 DEF Tells
<1>5. QED
  BY <1>3, <1>4

LEMMA RadioKeepsTold ==
  ASSUME Base, Told, RadioStep, UNCHANGED host
  PROVE  Told'
<1>1. RadioSays
  BY RadioIs DEF Base
<1>2. PICK said \in Sayable : Announce(said) /\ Truthful(Lines(said))
  BY <1>1 DEF RadioSays
<1>3. UNCHANGED <<talks, rx, cmd, txq, alive, connecting, partial, view>>
  BY <1>1 DEF RadioSays, host, port
<1>4. SUFFICES ASSUME Informed' PROVE Told'
  BY DEF Told
<1>5. alive /\ talks /\ connecting = "idle" /\ ~missed' /\ ~StatusComes
  BY <1>3, <1>4 DEF Informed, StatusComes, Base, PortOK
<1>6. Lines(said) \in Seq(Texts) /\ Tells(ConnTexts, ConnYes, Lines(said), conn, conn')
      /\ Tells(ReadyTexts, ReadyYes, Lines(said), linkReady, linkReady')
  BY <1>2, LinesOf, TruthTells DEF Whole
<1>7. CASE said = << >>
  <2>1. UNCHANGED <<ring, missed>> /\ Lines(said) = << >>
    BY <1>2, <1>7, Announced, LinesAre DEF Base
  <2>2. 1..Len(Lines(said)) = {}
    BY <2>1, EmptySeq
  <2>3. conn' = conn /\ linkReady' = linkReady
    BY <1>6, <2>2 DEF Tells
  <2>4. Informed
    BY <1>5, <2>1 DEF Informed
  <2>5. QED
    BY <1>3, <2>1, <2>3, <2>4, SameTold
<1>8. CASE said # << >>
  <2>1. ~missed /\ cmd # <<NewLine>> /\ ring' = ring \o Lines(said)
    BY <1>2, <1>5, <1>8, Announced DEF Base
  <2>2. Lines(said) # << >> /\ LinesOfOne(Lines(said), cmd' = <<NewLine>>)
    <3>1. Whole(Lines(said)) /\ Lines(said) # << >>
      BY <1>8, LinesOf
    <3>2. QED
      BY <3>1 DEF Whole, LinesOfOne, EndsAt
  <2>3. Informed
    BY <1>5, <2>1 DEF Informed
  <2>4. QED
    BY <1>3, <1>6, <2>1, <2>2, <2>3, MoreTold
<1>9. QED
  BY <1>7, <1>8

LEMMA TakesKeepTold ==
  ASSUME Base, Told, DongleCommand, CommandTakes
  PROVE  Told'
<1>1. UNCHANGED <<port, connecting, partial, view, txq>>
  BY DEF DongleCommand
<1>2. DongleTypeOK
  BY DEF Base
<1>9. /\ cmd = << >> /\ rx # << >> /\ rx' = Tail(rx)
      /\ UNCHANGED <<present, talks, radio, linkReady, ring, missed, btEvents, troubles>>
      /\ \/ IsFrame(Head(rx)) /\ Head(rx) \in Frames /\ Report(Head(rx)) /\ cmd' = cmd
         \/ /\ ~IsFrame(Head(rx)) /\ Head(rx) = <<"PING">> /\ UNCHANGED <<atv, refused>>
            /\ Len(cmd') = 2 /\ cmd'[1].line = "PONG" /\ cmd'[2] = NewLine
         \/ /\ ~IsFrame(Head(rx)) /\ Head(rx) = <<"STATUS">> /\ UNCHANGED <<atv, refused>>
            /\ Len(cmd') = 2 /\ cmd'[1].line = "STATUS" /\ cmd'[2] = NewLine
  BY <1>2, TakesIs
<1>3. /\ cmd = << >> /\ rx # << >> /\ rx' = Tail(rx)
      /\ \/ IsFrame(Head(rx)) /\ cmd' = cmd
         \/ Head(rx) = <<"PING">> /\ Len(cmd') = 2 /\ cmd'[1].line = "PONG"
         \/ Head(rx) = <<"STATUS">> /\ Len(cmd') = 2 /\ cmd'[1].line = "STATUS"
  BY <1>9
<1>4. Len(<< >>) = 0 /\ Len(<<NewLine>>) = 1
  BY EmptySeq
<1>5. cmd # <<NewLine>> /\ cmd' # <<NewLine>>
  <2>1. cmd # <<NewLine>> /\ (cmd' = cmd \/ Len(cmd') = 2)
    BY <1>3, <1>4
  <2>2. QED
    BY <1>4, <2>1
<1>6. StatusComes => StatusComes'
  <2>1. ASSUME Contains(rx, <<"STATUS">>) PROVE StatusComes'
    <3>1. rx \in Seq(Landing)
      BY <1>2, RxIs
    <3>2. /\ Len(rx) \in Nat /\ Head(rx) = rx[1] /\ Len(Tail(rx)) = Len(rx) - 1
          /\ \A i \in 1..(Len(rx) - 1) : Tail(rx)[i] = rx[i + 1]
      BY <1>3, <3>1, TailIs
    <3>3. PICK i \in 1..Len(rx) : rx[i] = <<"STATUS">>
      BY <2>1 DEF Contains
    <3>4. CASE i = 1
      <4>1. Head(rx) = <<"STATUS">> /\ ~IsFrame(Head(rx)) /\ Head(rx) # <<"PING">>
        BY <3>2, <3>3, <3>4, ItemsAre
      <4>2. cmd' # << >> /\ cmd'[1].line = "STATUS"
        BY <1>3, <1>4, <4>1
      <4>3. QED
        BY <4>2 DEF StatusComes
    <3>5. CASE i # 1
      <4>1. i - 1 \in 1..Len(Tail(rx)) /\ i - 1 \in 1..(Len(rx) - 1) /\ (i - 1) + 1 = i
        BY <3>2, <3>5
      <4>2. Tail(rx)[i - 1] = <<"STATUS">>
        BY <3>2, <3>3, <4>1
      <4>3. Contains(rx', <<"STATUS">>)
        BY <1>3, <4>1, <4>2 DEF Contains
      <4>4. QED
        BY <4>3 DEF StatusComes
    <3>6. QED
      BY <3>4, <3>5
  <2>2. QED
    BY <1>1, <1>3, <2>1 DEF StatusComes
<1>7. Informed' => Informed
  BY <1>1, <1>9, <1>6 DEF Informed, port
<1>8. QED
  BY <1>1, <1>9, <1>5, <1>7, SameTold DEF radio

\* A STATUS request that a scrap swallowed is known to be.
LEMMA MisreadKeepsTold ==
  ASSUME Base, Told, DongleCommand, NEW n \in 1..Len(rx), CommandMisreads(n)
  PROVE  Told'
<1>1. /\ UNCHANGED <<port, connecting, partial, view, txq>> /\ DongleTypeOK
  BY DEF DongleCommand, Base
<1>2. /\ UNCHANGED <<radio, linkReady, cmd, ring>> /\ rx' \in Seq(Landing)
      /\ missed' = (missed \/ \E i \in 1..n : rx[i] = <<"STATUS">>)
      /\ \E d \in {n, n - 1} : Bitten(n, d)
  BY <1>1, MisreadIs
<1>3. PICK d \in {n, n - 1} : Bitten(n, d)
  BY <1>2
<1>4. ASSUME ~missed', Contains(rx, <<"STATUS">>) PROVE StatusComes'
  <2>1. PICK j \in 1..Len(rx) : rx[j] = <<"STATUS">>
    BY <1>4 DEF Contains
  <2>2. ~(j \in 1..n)
    BY <1>2, <1>4, <2>1
  <2>3. j \in (n + 1)..Len(rx)
    BY <2>1, <2>2
  <2>4. j - d \in 1..Len(rx') /\ rx'[j - d] = <<"STATUS">>
    BY <1>3, <2>1, <2>3 DEF Bitten
  <2>5. QED
    BY <2>4 DEF StatusComes, Contains
<1>5. ~missed' /\ StatusComes => StatusComes'
  BY <1>1, <1>2, <1>4 DEF StatusComes
<1>6. Informed' => Informed
  BY <1>1, <1>2, <1>5 DEF Informed, port
<1>7. QED
  BY <1>1, <1>2, <1>6, SameTold DEF radio

\* One text of the command thread tells of nothing, unless it is a STATUS.
LEMMA OneText ==
  ASSUME NEW x \in Texts, NEW ends \in BOOLEAN, x = NewLine \/ (x.line = "PONG" /\ ends)
  PROVE  /\ <<x>> \in Seq(Texts) /\ <<x>> # << >> /\ Len(<<x>>) = 1 /\ <<x>>[1] = x
         /\ LinesOfOne(<<x>>, ends)
         /\ \A v \in BOOLEAN : Tells(ConnTexts, ConnYes, <<x>>, v, v) /\ Tells(ReadyTexts, ReadyYes, <<x>>, v, v)
<1>1. <<x>> \in Seq(Texts) /\ <<x>> # << >> /\ Len(<<x>>) = 1 /\ <<x>>[1] = x
  OBVIOUS
<1>2. \A i \in 1..1 : i = 1
  OBVIOUS
<1>3. x \notin ConnTexts /\ x \notin ReadyTexts
  BY TellsWhat DEF ConnTexts, ReadyTexts, TellsConn, TellsReady
<1> DEFINE t == <<x>>
<1>4. Len(t) = 1 /\ t[1] = x /\ t \in Seq(Texts) /\ t # << >>
  BY <1>1
<1> HIDE DEF t
<1>5. LinesOfOne(t, ends)
  BY <1>2, <1>4, TextsAre DEF LinesOfOne, EndsAt
<1>6. ASSUME NEW v \in BOOLEAN PROVE Tells(ConnTexts, ConnYes, t, v, v) /\ Tells(ReadyTexts, ReadyYes, t, v, v)
  BY <1>2, <1>3, <1>4 DEF Tells, LastTold
<1>7. QED
  BY <1>4, <1>5, <1>6 DEF t

LEMMA WritesKeepTold ==
  ASSUME Base, LinkReadyIsComputed, Told, DongleCommand, CommandWrites
  PROVE  Told'
<1>1. UNCHANGED <<port, connecting, partial, view, txq>>
  BY DEF DongleCommand
<1>2. DongleTypeOK /\ CmdOK /\ (cmd # << >> => talks)
  BY DEF Base, LinesEnd, CmdOK
<1>3. /\ cmd # << >> /\ ring' # << >> /\ UNCHANGED <<radio, linkReady, rx>>
  BY <1>2, WritesIs
<1>4. NewLine.line # "STATUS" /\ NewLine \in Texts
  BY TextsAre DEF Texts
<1>5. <<NewLine>>[1] = NewLine
  OBVIOUS
<1>6. conn \in BOOLEAN /\ linkReady \in BOOLEAN
  BY LengthsAre
<1> SUFFICES ASSUME Informed' PROVE Told'
  BY DEF Told
<1>7. ~missed' /\ alive /\ connecting = "idle"
  BY <1>1 DEF Informed, port
<1>8. CASE cmd = <<NewLine>> /\ cmd' = << >> /\ ~missed /\ ring' = ring \o <<NewLine>>
  <2>1. Informed
    BY <1>1, <1>3, <1>4, <1>5, <1>7, <1>8 DEF Informed, StatusComes
  <2>2. /\ <<NewLine>> \in Seq(Texts) /\ <<NewLine>> # << >> /\ <<NewLine>>[1] = NewLine
        /\ LinesOfOne(<<NewLine>>, cmd' = <<NewLine>>)
        /\ Tells(ConnTexts, ConnYes, <<NewLine>>, conn, conn)
        /\ Tells(ReadyTexts, ReadyYes, <<NewLine>>, linkReady, linkReady)
    BY <1>4, <1>6, OneText
  <2>3. conn' = conn /\ linkReady' = linkReady /\ partial' = partial /\ view' = view
    BY <1>1, <1>3 DEF radio
  <2>4. QED
    BY <1>8, <2>1, <2>2, <2>3, MoreTold
<1>9. ASSUME NEW x \in Said, x.line = "PONG", cmd[1] = x, cmd # <<NewLine>>, cmd' = <<NewLine>>,
             ~missed, ring' = ring \o <<x>>
      PROVE  Told'
  <2>1. Informed
    BY <1>1, <1>3, <1>4, <1>5, <1>7, <1>9 DEF Informed, StatusComes
  <2>2. x \in Texts
    BY DEF Texts
  <2>3. /\ <<x>> \in Seq(Texts) /\ <<x>> # << >>
        /\ LinesOfOne(<<x>>, cmd' = <<NewLine>>)
        /\ Tells(ConnTexts, ConnYes, <<x>>, conn, conn)
        /\ Tells(ReadyTexts, ReadyYes, <<x>>, linkReady, linkReady)
    BY <1>6, <1>9, <2>2, OneText
  <2>4. conn' = conn /\ linkReady' = linkReady /\ partial' = partial /\ view' = view
    BY <1>1, <1>3 DEF radio
  <2>5. QED
    BY <1>9, <2>1, <2>3, <2>4, MoreTold
<1>10. ASSUME NEW x \in Said, x.line = "STATUS", cmd # <<NewLine>>, cmd' = <<NewLine>>,
              ring' = Fitting(Append(ring, x)), x.connected = conn, x.ready = linkReady
       PROVE  Told'
  <2>1. x \in Texts
    BY DEF Texts
  <2>2. /\ Len(ring') \in Nat /\ ring' # << >> /\ ring'[Len(ring')] = x /\ ring' \in Seq(Texts)
        /\ ring = << >> => Len(ring') = 1
        /\ ring # << >> => Len(ring') >= 2 /\ ring'[Len(ring') - 1] = ring[Len(ring)]
    BY <1>2, <1>10, <2>1, StatusIs
  <2>3. Len(ring') > 0
    BY <2>2, EmptySeq
  <2>4. IF ring # << >> THEN ring[Len(ring)] = NewLine ELSE partial = << >>
    BY <1>7, <1>10 DEF Base, LinesEnd
  <2>5. Begins(ring', partial, Len(ring'))
    <3>1. CASE ring = << >>
      BY <2>2, <2>4, <3>1, LengthsAre DEF Begins
    <3>2. CASE ring # << >>
      <4>1. Len(ring') # 1
        BY <2>2, <3>2
      <4>2. QED
        BY <2>2, <2>4, <3>2, <4>1 DEF Begins
    <3>3. QED
      BY <3>1, <3>2
  <2>6. WholeFrom(ring', partial, TRUE)
    BY <1>10, <2>2, <2>3, <2>5, WholeStatus
  <2>7. /\ x \in ConnTexts /\ (x \in ConnYes <=> conn)
        /\ x \in ReadyTexts /\ (x \in ReadyYes <=> linkReady)
    <3>1. linkReady => conn
      BY DEF LinkReadyIsComputed, CanCarryKeys
    <3>2. QED
      BY <1>6, <1>10, <2>1, <3>1
        DEF ConnTexts, ConnYes, ReadyTexts, ReadyYes, TellsConn, ConnTold, TellsReady, ReadyTold
  <2>8. Follows(ConnTexts, ConnYes, ring', partial, conn, view.connected)
    BY <2>2, <2>3, <2>7, FollowsStatus
  <2>9. Follows(ReadyTexts, ReadyYes, ring', partial, linkReady, view.ready)
    BY <2>2, <2>3, <2>7, FollowsStatus
  <2>10. conn' = conn /\ linkReady' = linkReady /\ partial' = partial /\ view' = view
    BY <1>1, <1>3 DEF radio
  <2>11. (cmd' = <<NewLine>>) = TRUE
    BY <1>10
  <2>12. WholeNow'
    BY <2>6, <2>10, <2>11 DEF WholeNow
  <2>13. ConnNow' /\ ReadyNow'
    BY <2>8, <2>9, <2>10 DEF ConnNow, ReadyNow
  <2>14. QED
    BY <2>12, <2>13 DEF Told
<1>11. \/ cmd = <<NewLine>> /\ cmd' = << >> /\ ~missed /\ ring' = ring \o <<NewLine>>
       \/ \E x \in Said : /\ x.line = "PONG" /\ cmd[1] = x /\ cmd # <<NewLine>> /\ cmd' = <<NewLine>>
                          /\ ~missed /\ ring' = ring \o <<x>>
       \/ \E x \in Said : /\ x.line = "STATUS" /\ cmd # <<NewLine>> /\ cmd' = <<NewLine>>
                          /\ ring' = Fitting(Append(ring, x)) /\ x.connected = conn /\ x.ready = linkReady
  BY <1>2, <1>7, WritesIs
<1>12. QED
  BY <1>8, <1>9, <1>10, <1>11

LEMMA ReadKeepsTold ==
  ASSUME Base, Told, Read
  PROVE  Told'
<1>1. /\ ring \in Seq(Texts) /\ Len(ring) \in Nat /\ Len(ring) > 0 /\ Len(ring') = Len(ring) - 1
      /\ \A i \in 1..(Len(ring) - 1) : ring'[i] = ring[i + 1]
      /\ UNCHANGED <<radio, linkReady, rx, cmd, missed, port, connecting, txq>>
      /\ \/ ring[1] = NewLine /\ HandleLine(partial) /\ partial' = << >>
         \/ ring[1] \in Said /\ partial' = Append(partial, ring[1]) /\ UNCHANGED <<view, heard>>
  BY ReadIs
<1>2. AfterFirst(ring, ring')
  BY <1>1 DEF AfterFirst
<1>3. /\ Len(partial) \in Nat /\ partial \in Seq(Said) /\ \A i \in 1..Len(ring) : ring[i] \in Texts
      /\ (partial = << >> <=> Len(partial) = 0)
      /\ Len(partial) # 0 => partial[1] \in Texts /\ partial[1] \in Said
      /\ conn \in BOOLEAN /\ linkReady \in BOOLEAN /\ view.connected \in BOOLEAN /\ view.ready \in BOOLEAN
  BY LengthsAre
<1> SUFFICES ASSUME Informed' PROVE Told'
  BY DEF Told
<1>4. Informed /\ WholeNow /\ ConnNow /\ ReadyNow
  BY <1>1 DEF Told, Informed, StatusComes, port
<1>5. NewLine \notin ConnTexts /\ NewLine \notin ReadyTexts
  BY TellsWhat DEF ConnTexts, ReadyTexts
<1>6. /\ \A j \in 1..Len(ring) : ring[j].line = "STATUS" => ring[j] \in ConnTexts
      /\ \A j \in 1..Len(ring) : ring[j].line = "STATUS" => ring[j] \in ReadyTexts
  BY <1>3 DEF ConnTexts, ReadyTexts, TellsConn, TellsReady
<1>7. conn' = conn /\ linkReady' = linkReady /\ cmd' = cmd
  BY <1>1 DEF radio
<1>8. CASE ring[1] = NewLine /\ HandleLine(partial) /\ partial' = << >>
  <2>1. Len(partial') = 0
    BY <1>8, EmptySeq
  <2>2. /\ partial = << >> => view' = view
        /\ Len(partial) = 1 =>
             /\ view'.connected = IF TellsConn(partial[1]) THEN ConnTold(partial[1]) ELSE view.connected
             /\ view'.ready = IF TellsReady(partial[1]) THEN ReadyTold(partial[1]) ELSE view.ready
    BY <1>8, HandleIs DEF Base, HostTypeOK
  <2>3. Len(partial) = 0 => view'.connected = view.connected /\ view'.ready = view.ready
    BY <1>3, <2>2
  <2>4. Len(partial) = 1 =>
          /\ view'.connected <=> IF partial[1] \in ConnTexts THEN partial[1] \in ConnYes ELSE view.connected
          /\ view'.ready <=> IF partial[1] \in ReadyTexts THEN partial[1] \in ReadyYes ELSE view.ready
    BY <1>3, <2>2, TellsWhat DEF ConnTexts, ConnYes, ReadyTexts, ReadyYes
  <2>9. /\ Heard(ConnTexts, ConnYes, partial, view.connected, view'.connected)
        /\ Heard(ReadyTexts, ReadyYes, partial, view.ready, view'.ready)
    BY <2>3, <2>4 DEF Heard
  <2>5. WholeFrom(ring', partial', cmd = <<NewLine>>)
    BY <1>2, <1>4, <1>8, <2>1, WholeRead DEF WholeNow
  <2>6. Follows(ConnTexts, ConnYes, ring', partial', conn, view'.connected)
    BY <1>2, <1>3, <1>4, <1>5, <1>6, <1>8, <2>1, <2>9, FollowsNewLine DEF WholeNow, ConnNow
  <2>7. Follows(ReadyTexts, ReadyYes, ring', partial', linkReady, view'.ready)
    BY <1>2, <1>3, <1>4, <1>5, <1>6, <1>8, <2>1, <2>9, FollowsNewLine DEF WholeNow, ReadyNow
  <2>8. QED
    BY <1>7, <2>5, <2>6, <2>7 DEF Told, WholeNow, ConnNow, ReadyNow
<1>9. CASE ring[1] \in Said /\ partial' = Append(partial, ring[1]) /\ UNCHANGED <<view, heard>>
  <2>1. ring[1] # NewLine
    BY <1>9, TextsAre
  <2>2. /\ Len(partial') = Len(partial) + 1
        /\ \A i \in 1..Len(partial) : partial'[i] = partial[i]
        /\ partial'[Len(partial) + 1] = ring[1]
    BY <1>3, <1>9, AppendIs
  <2>3. partial'[1] = (IF Len(partial) = 0 THEN ring[1] ELSE partial[1])
    <3>1. Len(partial) # 0 => 1 \in 1..Len(partial)
      BY <1>3
    <3>2. Len(partial) = 0 => Len(partial) + 1 = 1
      OBVIOUS
    <3>3. QED
      BY <2>2, <3>1, <3>2
  <2>4. WholeFrom(ring', partial', cmd = <<NewLine>>)
    BY <1>2, <1>3, <1>4, <2>1, <2>2, WholeRead DEF WholeNow
  <2>5. Follows(ConnTexts, ConnYes, ring', partial', conn, view.connected)
    BY <1>2, <1>3, <1>4, <1>5, <1>6, <2>1, <2>2, <2>3, FollowsText DEF WholeNow, ConnNow
  <2>6. Follows(ReadyTexts, ReadyYes, ring', partial', linkReady, view.ready)
    BY <1>2, <1>3, <1>4, <1>5, <1>6, <2>1, <2>2, <2>3, FollowsText DEF WholeNow, ReadyNow
  <2>7. view' = view
    BY <1>9
  <2>8. QED
    BY <1>7, <2>4, <2>5, <2>6, <2>7 DEF Told, WholeNow, ConnNow, ReadyNow
<1>10. QED
  BY <1>1, <1>8, <1>9

\* Steps after which the host is not, or not yet, to be informed.
LEMMA NotInformed ==
  ASSUME ~alive' \/ connecting' # "idle" \/ StatusComes'
  PROVE  Told'
  BY DEF Told, Informed

\* A STATUS request that got lost is known to have.
LEMMA OverflowKeepsTold ==
  ASSUME Base, Told, WriterWrites, Overflows
  PROVE  Told'
<1>1. /\ Len(txq) \in Nat /\ Len(txq) > 0 /\ Len(rx) \in Nat /\ txq' \in Seq(Items)
      /\ Len(txq') = Len(txq) - 1
      /\ \A i \in 1..(Len(txq) - 1) : txq'[i] = txq[i + 1]
      /\ UNCHANGED <<radio, linkReady, cmd, ring, port, connecting, view, partial>>
  BY WritesOn
<1>2. /\ (Len(rx') = Len(rx) \/ Len(rx') = Len(rx) + 1) /\ \A i \in 1..Len(rx) : rx'[i] = rx[i]
      /\ missed' = (missed \/ txq[1] = <<"STATUS">>)
  BY DEF Overflows, CutTo
<1>3. ASSUME ~missed', Contains(txq, <<"STATUS">>) PROVE StatusComes'
  <2>1. PICK i \in 1..Len(txq) : txq[i] = <<"STATUS">>
    BY <1>3 DEF Contains
  <2>2. i # 1
    BY <1>2, <1>3, <2>1
  <2>3. i - 1 \in 1..Len(txq') /\ i - 1 \in 1..(Len(txq) - 1) /\ (i - 1) + 1 = i
    BY <1>1, <2>2
  <2>4. txq'[i - 1] = <<"STATUS">>
    BY <1>1, <2>1, <2>3
  <2>5. QED
    BY <2>3, <2>4 DEF StatusComes, Contains
<1>4. ASSUME Contains(rx, <<"STATUS">>) PROVE StatusComes'
  <2>1. PICK i \in 1..Len(rx) : rx[i] = <<"STATUS">>
    BY <1>4 DEF Contains
  <2>2. i \in 1..Len(rx') /\ rx'[i] = <<"STATUS">>
    BY <1>1, <1>2, <2>1
  <2>3. QED
    BY <2>2 DEF StatusComes, Contains
<1>5. ~missed' /\ StatusComes => StatusComes'
  BY <1>1, <1>3, <1>4 DEF StatusComes
<1>6. Informed' => Informed
  BY <1>1, <1>2, <1>5 DEF Informed, port
<1>7. QED
  BY <1>1, <1>6, SameTold DEF radio

LEMMA LandingKeepsTold ==
  ASSUME Base, Told, WriterWrites, Landed
  PROVE  Told'
<1>1. /\ txq \in Seq(Items) /\ txq' \in Seq(Items)
      /\ Len(txq) \in Nat /\ Len(txq) > 0 /\ Len(rx) \in Nat /\ Len(txq') = Len(txq) - 1
      /\ \A i \in 1..(Len(txq) - 1) : txq'[i] = txq[i + 1]
      /\ UNCHANGED <<radio, linkReady, cmd, ring, port, connecting, view, partial>>
  BY WritesOn
<1>2. /\ Len(rx') = Len(rx) + 1
      /\ \A i \in 1..Len(rx) : rx'[i] = rx[i]
      /\ rx'[Len(rx) + 1] = txq[1] /\ UNCHANGED missed
  BY DEF Landed
<1>3. ASSUME Contains(txq, <<"STATUS">>) PROVE StatusComes'
  <2>1. PICK i \in 1..Len(txq) : txq[i] = <<"STATUS">>
    BY <1>3 DEF Contains
  <2>2. CASE i = 1
    <3>1. Len(rx) + 1 \in 1..Len(rx') /\ rx'[Len(rx) + 1] = <<"STATUS">>
      BY <1>1, <1>2, <2>1, <2>2
    <3>2. QED
      BY <3>1 DEF StatusComes, Contains
  <2>3. CASE i # 1
    <3>1. i - 1 \in 1..Len(txq') /\ i - 1 \in 1..(Len(txq) - 1) /\ (i - 1) + 1 = i
      BY <1>1, <2>3
    <3>2. txq'[i - 1] = <<"STATUS">>
      BY <1>1, <2>1, <3>1
    <3>3. QED
      BY <3>1, <3>2 DEF StatusComes, Contains
  <2>4. QED
    BY <2>2, <2>3
<1>4. ASSUME Contains(rx, <<"STATUS">>) PROVE StatusComes'
  <2>1. PICK i \in 1..Len(rx) : rx[i] = <<"STATUS">>
    BY <1>4 DEF Contains
  <2>2. i \in 1..Len(rx') /\ rx'[i] = <<"STATUS">>
    BY <1>1, <1>2, <2>1
  <2>3. QED
    BY <2>2 DEF StatusComes, Contains
<1>5. StatusComes => StatusComes'
  BY <1>1, <1>3, <1>4 DEF StatusComes
<1>6. Informed' => Informed
  BY <1>1, <1>2, <1>5 DEF Informed, port
<1>7. QED
  BY <1>1, <1>6, SameTold DEF radio

LEMMA KeyKeepsTold ==
  ASSUME Base, Told, NEW r \in Reports, NEW e \in Edges, NEW strict \in BOOLEAN, KeyEdge(r, e, strict)
  PROVE  Told'
<1>1. /\ (missed => missed')
      /\ UNCHANGED <<radio, linkReady, rx, cmd, ring, port, connecting, view, partial>>
  BY KeyIs
<1>2. StatusComes /\ ~missed' => StatusComes'
  <2>1. ASSUME Contains(txq, <<"STATUS">>), ~missed' PROVE Contains(txq', <<"STATUS">>)
    <3>1. PICK i \in 1..Len(txq) : txq[i] = <<"STATUS">>
      BY <2>1 DEF Contains
    <3>2. ASSUME txq \in Seq(Items), Len(txq) \in Nat, NEW d \in {0, 1}, Shifted(d, <<r, e>>)
          PROVE  Contains(txq', <<"STATUS">>)
      <4>1. /\ Len(txq') = Len(txq) + 1 - d /\ \A j \in 1..(Len(txq) - d) : txq'[j] = txq[j + d]
            /\ d = 1 => IsFrame(txq[1])
        BY <2>1, <3>2 DEF Shifted
      <4>2. d = 1 => i # 1
        BY <3>1, <4>1, ItemsAre
      <4>3. i - d \in 1..(Len(txq) - d) /\ (i - d) + d = i /\ i - d \in 1..Len(txq')
        BY <3>2, <4>1, <4>2
      <4>4. txq'[i - d] = <<"STATUS">>
        BY <3>1, <4>1, <4>3
      <4>5. QED
        BY <4>3, <4>4 DEF Contains
    <3>3. CASE UNCHANGED txq
      BY <2>1, <3>3
    <3>4. QED
      BY <3>2, <3>3, KeyIs
  <2>2. QED
    BY <1>1, <2>1 DEF StatusComes
<1>3. Informed' => Informed
  BY <1>1, <1>2 DEF Informed, port
<1>4. QED
  BY <1>1, <1>3, SameTold DEF radio

LEMMA ReleaseKeepsTold ==
  ASSUME Base, Told, ReleaseAll
  PROVE  Told'
<1>1. UNCHANGED <<dongle, port, connecting, view, partial>>
  BY DEF ReleaseAll
<1>2. Contains(txq, <<"STATUS">>) => Contains(txq', <<"STATUS">>)
  <2>1. CASE ~open
    BY <2>1 DEF ReleaseAll
  <2>2. CASE open
    <3>1. ASSUME Contains(txq, <<"STATUS">>) PROVE Contains(txq', <<"STATUS">>)
      <4>1. PICK i \in 1..Len(txq) : txq[i] = <<"STATUS">>
        BY <3>1 DEF Contains
      <4>2. DOMAIN txq = 1..Len(txq) /\ ~IsFrame(txq[i])
        BY <2>2, <4>1, ReleaseIs, ItemsAre
      <4>3. PICK n \in 0..2 : \E kept \in [1..n -> DOMAIN txq] : Kept(n, kept)
        BY <2>2, ReleaseIs
      <4>4. PICK kept \in [1..n -> DOMAIN txq] : Kept(n, kept)
        BY <4>3
      <4>5. PICK j \in 1..n : kept[j] = i
        BY <4>2, <4>4 DEF Kept
      <4>6. n <= Len(txq') /\ Len(txq') \in Nat /\ txq'[j] = <<"STATUS">>
        BY <2>2, <4>1, <4>4, <4>5, ReleaseIs DEF Kept
      <4>7. j \in 1..Len(txq')
        BY <4>6
      <4>8. QED
        BY <4>6, <4>7 DEF Contains
    <3>2. QED
      BY <3>1
  <2>3. QED
    BY <2>1, <2>2
<1>3. Informed' => Informed
  BY <1>1, <1>2 DEF Informed, StatusComes, port, dongle, firmware
<1>4. QED
  BY <1>1, <1>3, SameTold DEF dongle, firmware, radio

LEMMA AskKeepsTold ==
  ASSUME Base, HandshakeOk
  PROVE  Told'
<1>1. /\ WriteLine(<<"STATUS">>) /\ UNCHANGED port /\ <<"STATUS">> \in Requests /\ <<"STATUS">> \in Items
  BY ItemsAre DEF HandshakeOk, Items
<1>2. CASE open
  <2>1. txq' = Append(txq, <<"STATUS">>) /\ txq \in Seq(Items)
    BY <1>1, <1>2, AsksIs DEF Base, HostTypeOK
  <2>2. /\ Len(txq) \in Nat /\ Len(txq') = Len(txq) + 1 /\ txq'[Len(txq) + 1] = <<"STATUS">>
    BY <1>1, <2>1, AppendIs
  <2>3. Len(txq) + 1 \in 1..Len(txq')
    BY <2>2
  <2>4. StatusComes'
    BY <2>2, <2>3 DEF StatusComes, Contains
  <2>5. QED
    BY <2>4, NotInformed
<1>3. CASE ~open
  BY <1>1, <1>3, NotInformed DEF Base, PortOK, port
<1>4. QED
  BY <1>2, <1>3

LEMMA StepKeepsTold ==
  ASSUME Base, LinkReadyIsComputed, Told, [Next]_vars
  PROVE  Told'
<1>0. ASSUME UNCHANGED <<radio, linkReady, rx, cmd, ring, missed, partial, view, txq, alive, connecting>> PROVE Told'
  BY <1>0, SameTold DEF radio, Informed, StatusComes
<1>1. CASE RadioStep /\ UNCHANGED host
  BY <1>1, RadioKeepsTold
<1>2. CASE DongleCommand
  BY <1>2, TakesKeepTold, WritesKeepTold, MisreadKeepsTold DEF DongleCommand, CommandStep
<1>3. CASE DongleGone
  BY <1>3, NotInformed DEF DongleGone
<1>4. CASE Plug /\ UNCHANGED host
  BY <1>4, <1>0 DEF Plug, host, port
<1>5. CASE Connecting
  <2>1. CASE Open \/ SendPing \/ HandshakeTimeout \/ LinkDownSeen
    <3>1. connecting' # "idle"
      BY <2>1 DEF Open, SendPing, HandshakeTimeout, LinkDownSeen
    <3>2. QED
      BY <3>1, NotInformed
  <2>2. QED
    BY <1>5, <2>1, AskKeepsTold DEF Connecting
<1>6. CASE Writer
  <2>1. CASE WriterFails
    BY <2>1, NotInformed DEF WriterFails, ForceReconnect
  <2>2. CASE WriterWakes
    BY <2>2, <1>0 DEF WriterWakes, dongle, firmware, port
  <2>3. QED
    BY <1>6, <2>1, <2>2, WritesOn, LandingKeepsTold, OverflowKeepsTold DEF Writer
<1>7. CASE Reader
  <2>1. CASE ReadFails
    BY <2>1, <1>0 DEF ReadFails, dongle, firmware, port
  <2>2. QED
    BY <1>7, <2>1, ReadKeepsTold DEF Reader
<1>8. CASE ReadLossHandled
  BY <1>8, NotInformed DEF ReadLossHandled, ForceReconnect
<1>9. ASSUME NEW r \in Reports, NEW e \in Edges, NEW strict \in BOOLEAN, KeyEdge(r, e, strict)
      PROVE  Told'
  BY <1>9, KeyKeepsTold
<1>10. CASE ReleaseAll
  BY <1>10, ReleaseKeepsTold
<1>11. CASE Restart
  BY <1>11, NotInformed DEF Restart, HostStarts
<1>12. CASE UNCHANGED vars
  BY <1>12, <1>0 DEF vars, dongle, firmware, host, port
<1>13. QED
  BY <1>1, <1>2, <1>3, <1>4, <1>5, <1>6, <1>7, <1>8, <1>9, <1>10, <1>11, <1>12 DEF Next

\* Nothing under way: what was told has all been heard.
LEMMA QuietAgrees ==
  ASSUME Base, Told
  PROVE  HostAgrees
<1> SUFFICES ASSUME Quiet, ~missed PROVE view = [connected |-> conn, ready |-> linkReady]
  BY DEF HostAgrees
<1>1. /\ alive /\ connecting = "idle" /\ txq = << >> /\ rx = << >> /\ cmd = << >> /\ ring = << >> /\ partial = << >>
  BY DEF Quiet
<1>2. Len(<< >>) = 0 /\ 1..0 = {}
  BY EmptySeq
<1>3. ~StatusComes
  BY <1>1, <1>2 DEF StatusComes, Contains
<1>4. ConnNow /\ ReadyNow
  BY <1>1, <1>3 DEF Told, Informed
<1>5. (conn <=> view.connected) /\ (linkReady <=> view.ready)
  BY <1>1, <1>2, <1>4 DEF ConnNow, ReadyNow, Follows
<1>6. view \in View /\ conn \in BOOLEAN /\ linkReady \in BOOLEAN
  BY DEF Base, HostTypeOK, DongleTypeOK
<1>7. view = [connected |-> view.connected, ready |-> view.ready] /\ view.connected \in BOOLEAN /\ view.ready \in BOOLEAN
  BY <1>6 DEF View
<1>8. view.connected = conn /\ view.ready = linkReady
  BY <1>5, <1>6, <1>7
<1>9. QED
  BY <1>7, <1>8

(***************************************************************************)
(* Keys: a key-up stays behind what it ends, or is known to have escaped.  *)
(***************************************************************************)
KeyComes(r) ==
  /\ atv[r] = "down" /\ r \notin refused => Comes(rx, 1, r) \/ Comes(txq, 1, r)
  /\ DownsEnd(r)

LEMMA KeysAre == KeysFollow <=> \A r \in Reports \ escaped : asked[r] = "up" => KeyComes(r)
  BY DEF KeysFollow, KeyComes

LEMMA QueuesAre ==
  ASSUME Base
  PROVE  /\ rx \in Seq(Landing) /\ txq \in Seq(Items) /\ Len(rx) \in Nat /\ Len(txq) \in Nat
         /\ DOMAIN rx = 1..Len(rx) /\ DOMAIN txq = 1..Len(txq)
<1>1. rx \in Seq(Landing) /\ txq \in Seq(Items)
  BY RxIs DEF Base, HostTypeOK
<1>2. QED
  BY <1>1, LenProperties

LEMMA UpsAndDowns ==
  /\ \A r \in Reports : Up(r) # Down(r) /\ IsFrame(Up(r)) /\ IsFrame(Down(r)) /\ Up(r)[1] = r /\ Down(r)[1] = r
  /\ \A r, u \in Reports : u # r => Up(u) # Up(r) /\ Up(u) # Down(r) /\ Down(u) # Up(r) /\ Down(u) # Down(r)
  /\ \A x \in Requests : \A r \in Reports : x # Up(r) /\ x # Down(r)
  /\ \A x \in Frames : x = Up(x[1]) \/ x = Down(x[1])
<1>1. \A r \in Reports : Up(r) # Down(r)
  BY DEF Up, Down
<1>2. \A r \in Reports : Up(r) \in Frames /\ Down(r) \in Frames /\ Up(r)[1] = r /\ Down(r)[1] = r
  BY ItemsAre DEF Up, Down, Edges
<1>3. \A x \in Frames : IsFrame(x)
  BY ItemsAre
<1>4. \A x \in Requests : ~IsFrame(x)
  BY ItemsAre
<1>5. \A x \in Frames : x = Up(x[1]) \/ x = Down(x[1])
  BY ItemsAre DEF Up, Down, Edges
<1>6. QED
  BY <1>1, <1>2, <1>3, <1>4, <1>5

\* Neither queue changes, and the Apple TV sees no key go down.
LEMMA SameKey ==
  ASSUME NEW r \in Reports, KeyComes(r), UNCHANGED <<rx, txq>>,
         atv'[r] = "down" /\ r \notin refused' => atv[r] = "down" /\ r \notin refused
  PROVE  KeyComes(r)'
  BY DEF KeyComes, DownsEnd, Comes

LEMMA SameKeys ==
  ASSUME KeysFollow, UNCHANGED <<rx, txq, asked, refused>>, escaped \subseteq escaped',
         atv' = atv \/ atv' = [r \in Reports |-> "up"]
  PROVE  KeysFollow'
<1>1. ASSUME NEW r \in Reports, r \notin escaped', asked'[r] = "up" PROVE KeyComes(r)'
  <2>1. KeyComes(r)
    BY <1>1, KeysAre
  <2>2. atv'[r] = "down" /\ r \notin refused' => atv[r] = "down" /\ r \notin refused
    OBVIOUS
  <2>3. QED
    BY <2>1, <2>2, SameKey
<1>2. QED
  BY <1>1 DEF KeysFollow, KeyComes

\* A report whose key-up a scrap does not swallow, and as which it does not go out.
LEMMA MisreadKeepsKey ==
  ASSUME Base, NEW n \in 1..Len(rx), CommandMisreads(n), UNCHANGED txq,
         Escaped(UpsAmong(SubSeq(rx, 1, n)) \cup {u \in Reports : atv'[u] # atv[u]}),
         NEW r \in Reports, r \notin escaped', KeyComes(r)
  PROVE  KeyComes(r)'
<1>1. /\ rx \in Seq(Landing) /\ Len(rx) \in Nat /\ DOMAIN rx = 1..Len(rx) /\ n \in Nat /\ n <= Len(rx) /\ DongleTypeOK
  BY QueuesAre DEF Base
<1>2. PICK d \in {n, n - 1} : Bitten(n, d)
  BY <1>1, MisreadIs
<1>3. UNCHANGED refused
  BY <1>1, MisreadIs
<1>4. CASE r \in UpsAmong(SubSeq(rx, 1, n)) \/ atv'[r] # atv[r]
  <2>1. atv'[r] # "down" /\ ~Pending(r)'
    BY <1>4 DEF Escaped
  <2>2. /\ \A i \in DOMAIN rx' : rx'[i] # Down(r)
        /\ \A i \in DOMAIN txq' : txq'[i] # Down(r)
    BY <2>1, UpsAndDowns DEF Pending
  <2>3. QED
    BY <2>1, <2>2 DEF KeyComes, DownsEnd
<1>5. CASE r \notin UpsAmong(SubSeq(rx, 1, n)) /\ atv'[r] = atv[r]
  <2>1. ASSUME NEW j \in 1..n PROVE rx[j] # Up(r)
    <3>1. 1 \in Nat /\ 1 <= n + 1 /\ n - 1 + 1 = n /\ 1 + j - 1 = j
      BY <1>1
    <3>2. /\ Len(SubSeq(rx, 1, n)) = n - 1 + 1
          /\ \A i \in 1..(n - 1 + 1) : SubSeq(rx, 1, n)[i] = rx[1 + i - 1]
      BY <1>1, <3>1, PieceIs
    <3>3. Len(SubSeq(rx, 1, n)) = n /\ SubSeq(rx, 1, n)[j] = rx[j]
      BY <3>1, <3>2
    <3>4. QED
      BY <1>5, <3>3 DEF UpsAmong, Contains
  <2>2. ASSUME NEW i \in Nat, Comes(rx, i, r)
        PROVE  \E k \in DOMAIN rx' : k >= i - d /\ rx'[k] = Up(r)
    <3>1. PICK j \in 1..Len(rx) : j >= i /\ rx[j] = Up(r)
      BY <1>1, <2>2 DEF Comes
    <3>2. j \in (n + 1)..Len(rx)
      BY <1>1, <2>1, <3>1
    <3>3. j - d \in DOMAIN rx' /\ rx'[j - d] = Up(r)
      BY <1>2, <3>1, <3>2 DEF Bitten
    <3>4. j - d >= i - d
      BY <1>1, <3>1
    <3>5. QED
      BY <3>3, <3>4
  <2>3. Comes(rx, 1, r) => Comes(rx', 1, r)
    <3>1. SUFFICES ASSUME Comes(rx, 1, r) PROVE Comes(rx', 1, r)
      OBVIOUS
    <3>2. PICK k \in DOMAIN rx' : rx'[k] = Up(r)
      BY <2>2, <3>1
    <3>3. k >= 1
      BY <1>2, <3>2 DEF Bitten
    <3>4. QED
      BY <3>2, <3>3 DEF Comes
  <2>4. ASSUME NEW i \in DOMAIN rx', rx'[i] = Down(r) PROVE Comes(rx', i, r) \/ Comes(txq', 1, r)
    <3>1. i \in Nat /\ i + d \in DOMAIN rx /\ i + d \in Nat /\ (i + d) - d = i /\ rx[i + d] = Down(r)
      BY <1>1, <1>2, <2>4, LandingIs DEF Bitten
    <3>2. Comes(rx, i + d, r) \/ Comes(txq, 1, r)
      BY <3>1 DEF KeyComes, DownsEnd
    <3>3. Comes(rx, i + d, r) => Comes(rx', i, r)
      BY <2>2, <3>1 DEF Comes
    <3>4. QED
      BY <3>2, <3>3
  <2>5. QED
    BY <1>3, <1>5, <2>3, <2>4 DEF KeyComes, DownsEnd
<1>6. QED
  BY <1>4, <1>5

\* A sequence cut after n items, and perhaps closed by a scrap, still holds a key-up
\* whose report lost none, and no key-down that was not there.
LEMMA CutKeeps ==
  ASSUME NEW s, NEW t, NEW l \in Nat, NEW m \in Nat, NEW n \in Nat, NEW r \in Reports,
         DOMAIN s = 1..l, DOMAIN t = 1..m, n <= l, m = n \/ m = n + 1,
         \A i \in 1..n : t[i] = s[i],
         m = n + 1 => t[n + 1] = Scrap,
         \A j \in 1..l : j > n => s[j] # Up(r)
  PROVE  /\ \A i : Comes(s, i, r) => Comes(t, i, r)
         /\ \A i \in DOMAIN t : t[i] = Down(r) => i \in DOMAIN s /\ s[i] = Down(r)
<1>1. ASSUME NEW i, Comes(s, i, r) PROVE Comes(t, i, r)
  <2>1. PICK j \in 1..l : j >= i /\ s[j] = Up(r)
    BY <1>1 DEF Comes
  <2>2. ~(j > n)
    BY <2>1
  <2>3. j \in 1..n /\ j \in 1..m
    BY <2>2
  <2>4. t[j] = Up(r)
    BY <2>1, <2>3
  <2>5. QED
    BY <2>1, <2>3, <2>4 DEF Comes
<1>2. ASSUME NEW i \in DOMAIN t, t[i] = Down(r) PROVE i \in DOMAIN s /\ s[i] = Down(r)
  <2>1. i # n + 1
    <3>1. CASE m = n
      BY <3>1
    <3>2. CASE m = n + 1
      <4>1. t[n + 1] = Scrap /\ Scrap # Down(r)
        BY <3>2, LandingIs
      <4>2. QED
        BY <1>2, <4>1
    <3>3. QED
      BY <3>1, <3>2
  <2>2. i \in 1..m
    OBVIOUS
  <2>3. i \in 1..n /\ i \in 1..l
    BY <2>1, <2>2
  <2>4. QED
    BY <1>2, <2>3
<1>3. QED
  BY <1>1, <1>2

\* The end of the receive queue is lost, and no key-up of this report with it.
LEMMA CutKeepsRx ==
  ASSUME Base, NEW n \in 0..Len(rx), CutTo(n), NEW r \in Reports,
         \A j \in 1..Len(rx) : j > n => rx[j] # Up(r)
  PROVE  /\ \A i : Comes(rx, i, r) => Comes(rx', i, r)
         /\ \A i \in DOMAIN rx' : rx'[i] = Down(r) => i \in DOMAIN rx /\ rx[i] = Down(r)
<1>1. /\ Len(rx) \in Nat /\ DOMAIN rx = 1..Len(rx) /\ n \in Nat /\ n <= Len(rx)
      /\ DOMAIN rx' = 1..Len(rx') /\ (Len(rx') = n \/ Len(rx') = n + 1)
      /\ \A i \in 1..n : rx'[i] = rx[i]
      /\ Len(rx') = n + 1 => rx'[n + 1] = Scrap
  <2>1. Len(rx) \in Nat /\ DOMAIN rx = 1..Len(rx)
    BY QueuesAre
  <2>2. n \in Nat /\ n <= Len(rx)
    BY <2>1
  <2>3. QED
    BY <2>1, <2>2 DEF CutTo
<1>2. Len(rx') \in Nat
  <2>1. rx' \in Seq(Landing)
    BY Zenon DEF CutTo
  <2>2. QED
    BY <2>1, LenProperties
<1>3. PICK l, m, t : l = Len(rx) /\ m = Len(rx') /\ t = rx'
  OBVIOUS
<1>4. l \in Nat /\ m \in Nat /\ n \in Nat
  BY <1>1, <1>2, <1>3, Zenon
<1>5. DOMAIN rx = 1..l /\ DOMAIN t = 1..m
  BY <1>1, <1>3, Zenon
<1>6. n <= l /\ (m = n \/ m = n + 1)
  BY <1>1, <1>3, Zenon
<1>7. (\A i \in 1..n : t[i] = rx[i]) /\ (m = n + 1 => t[n + 1] = Scrap)
  BY <1>1, <1>3, Zenon
<1>8. \A j \in 1..l : j > n => rx[j] # Up(r)
  BY <1>3, Zenon
<1>9. /\ \A i : Comes(rx, i, r) => Comes(t, i, r)
      /\ \A i \in DOMAIN t : t[i] = Down(r) => i \in DOMAIN rx /\ rx[i] = Down(r)
  BY <1>4, <1>5, <1>6, <1>7, <1>8, CutKeeps
<1>10. QED
  BY <1>3, <1>9, Zenon

LEMMA OpenKeepsKeys ==
  ASSUME Base, KeysFollow, Open
  PROVE  KeysFollow'
<1>1. PICK n \in 0..Len(rx) : rx' \in Flushed(n) /\ escaped' = escaped \cup UpsAmong(SubSeq(rx, n + 1, Len(rx)))
  BY DEF Open
<1>2. CutTo(n)
  BY <1>1, FlushedIs DEF Base
<1>3. UNCHANGED <<txq, asked, atv, refused>>
  BY DEF Open
<1>4. ASSUME NEW r \in Reports, r \notin escaped', asked'[r] = "up" PROVE KeyComes(r)'
  <2>1. KeyComes(r)
    BY <1>1, <1>3, <1>4, KeysAre
  <2>2. ASSUME NEW j \in 1..Len(rx), j > n PROVE rx[j] # Up(r)
    <3>1. /\ rx \in Seq(Landing) /\ Len(rx) \in Nat /\ n \in Nat /\ n + 1 \in Nat /\ n + 1 >= 1 /\ n + 1 <= Len(rx) + 1
          /\ Len(rx) <= Len(rx)
      BY QueuesAre
    <3>2. /\ Len(SubSeq(rx, n + 1, Len(rx))) = Len(rx) - (n + 1) + 1
          /\ \A i \in 1..(Len(rx) - (n + 1) + 1) : SubSeq(rx, n + 1, Len(rx))[i] = rx[(n + 1) + i - 1]
      BY <3>1, PieceIs
    <3>3. j - n \in 1..(Len(rx) - (n + 1) + 1) /\ (n + 1) + (j - n) - 1 = j
      BY <2>2, <3>1
    <3>4. SubSeq(rx, n + 1, Len(rx))[j - n] = rx[j] /\ j - n \in 1..Len(SubSeq(rx, n + 1, Len(rx)))
      BY <3>2, <3>3
    <3>5. QED
      BY <1>1, <1>4, <3>4 DEF UpsAmong, Contains
  <2>3. /\ \A i : Comes(rx, i, r) => Comes(rx', i, r)
        /\ \A i \in DOMAIN rx' : rx'[i] = Down(r) => i \in DOMAIN rx /\ rx[i] = Down(r)
    BY <1>2, <2>2, CutKeepsRx
  <2>4. QED
    BY <1>3, <2>1, <2>3 DEF KeyComes, DownsEnd, Comes
<1>5. QED
  BY <1>4 DEF KeysFollow, KeyComes

LEMMA TakesKeepKeys ==
  ASSUME Base, KeysFollow, DongleCommand
  PROVE  KeysFollow'
<1>1. /\ UNCHANGED <<txq, asked>>
      /\ \A r \in escaped : r \notin escaped' => atv'[r] # "down" /\ ~Pending(r)'
      /\ DongleTypeOK /\ CmdOK /\ (cmd # << >> => talks)
  BY DEF DongleCommand, Escaped, Base, LinesEnd, CmdOK
<1>2. Base'
  BY CommandKeepsBase
<1>3. /\ rx \in Seq(Landing) /\ Len(rx) \in Nat /\ DOMAIN rx = 1..Len(rx)
      /\ txq \in Seq(Items) /\ Len(txq) \in Nat /\ DOMAIN txq = 1..Len(txq)
  BY QueuesAre
<1>4. ASSUME NEW r \in Reports, r \notin escaped', r \in escaped PROVE KeyComes(r)'
  <2>1. atv'[r] # "down" /\ ~Pending(r)'
    BY <1>1, <1>4
  <2>2. /\ \A i \in DOMAIN rx' : rx'[i] # Down(r)
        /\ \A i \in DOMAIN txq' : txq'[i] # Down(r)
    BY <2>1, UpsAndDowns DEF Pending
  <2>3. QED
    BY <2>1, <2>2 DEF KeyComes, DownsEnd
<1>5. ASSUME NEW r \in Reports, r \notin escaped', KeyComes(r) PROVE KeyComes(r)'
  <2>4. ASSUME NEW n \in 1..Len(rx), CommandMisreads(n),
               Escaped(UpsAmong(SubSeq(rx, 1, n)) \cup {u \in Reports : atv'[u] # atv[u]})
        PROVE  KeyComes(r)'
    BY <1>1, <1>2, <1>5, <2>4, MisreadKeepsKey
  <2>1. CASE CommandWrites
    <3>1. UNCHANGED <<rx, atv, refused>>
      BY <1>1, <2>1, WritesIs
    <3>2. QED
      BY <1>1, <1>5, <3>1, SameKey
  <2>2. CASE CommandTakes
    <3>1. /\ rx # << >> /\ rx' = Tail(rx)
          /\ \/ IsFrame(Head(rx)) /\ Head(rx) \in Frames /\ Report(Head(rx))
             \/ ~IsFrame(Head(rx)) /\ UNCHANGED <<atv, refused>>
      BY <1>1, <2>2, TakesIs
    <3>2. /\ Head(rx) = rx[1] /\ Len(rx) > 0 /\ DOMAIN rx' = 1..(Len(rx) - 1)
          /\ \A i \in 1..(Len(rx) - 1) : rx'[i] = rx[i + 1]
      BY <1>3, <3>1, TailIs
    <3>3. ASSUME NEW i \in Nat, i >= 1, Comes(rx, i, r), i > 1 \/ rx[1] # Up(r) PROVE Comes(rx', IF i > 1 THEN i - 1 ELSE 1, r)
      <4>1. PICK j \in 1..Len(rx) : j >= i /\ rx[j] = Up(r)
        BY <1>3, <3>3 DEF Comes
      <4>2. j > 1
        BY <3>3, <4>1
      <4>3. j - 1 \in 1..(Len(rx) - 1) /\ (j - 1) + 1 = j
        BY <1>3, <4>1, <4>2
      <4>4. rx'[j - 1] = Up(r) /\ j - 1 \in DOMAIN rx'
        BY <3>2, <4>1, <4>3
      <4>5. j - 1 >= IF i > 1 THEN i - 1 ELSE 1
        BY <3>3, <4>1, <4>2
      <4>6. QED
        BY <4>4, <4>5 DEF Comes
    <3>4. DownsEnd(r)'
      <4>1. ASSUME NEW i \in DOMAIN rx', rx'[i] = Down(r) PROVE Comes(rx', i, r) \/ Comes(txq', 1, r)
        <5>1. i \in Nat /\ i >= 1 /\ i + 1 \in DOMAIN rx /\ rx[i + 1] = Down(r)
          BY <1>3, <3>2, <4>1
        <5>2. Comes(rx, i + 1, r) \/ Comes(txq, 1, r)
          BY <1>5, <5>1 DEF KeyComes, DownsEnd
        <5>3. i + 1 \in Nat /\ i + 1 >= 1 /\ i + 1 > 1 /\ (i + 1) - 1 = i
          BY <5>1
        <5>4. Comes(rx, i + 1, r) => Comes(rx', i, r)
          BY <3>3, <5>3
        <5>5. QED
          BY <1>1, <5>2, <5>4
      <4>2. QED
        BY <1>1, <1>5, <4>1 DEF KeyComes, DownsEnd, Comes
    <3>5. ASSUME atv'[r] = "down", r \notin refused' PROVE Comes(rx', 1, r) \/ Comes(txq', 1, r)
      <4>1. rx[1] # Up(r)
        <5>1. SUFFICES ASSUME rx[1] = Up(r) PROVE FALSE
          OBVIOUS
        <5>2. Report(Up(r)) /\ Up(r)[1] = r /\ Up(r)[2] = "up"
          BY <3>1, <3>2, <5>1, UpsAndDowns DEF Up
        <5>3. atv'[r] = "up" \/ r \in refused'
          BY <1>1, <5>2 DEF Report, DongleTypeOK
        <5>4. QED
          BY <3>5, <5>3
      <4>2. Comes(rx, 1, r) \/ Comes(txq, 1, r)
        <5>1. CASE rx[1] = Down(r)
          <6>1. 1 \in DOMAIN rx
            BY <1>3, <3>2
          <6>2. QED
            BY <1>5, <5>1, <6>1 DEF KeyComes, DownsEnd
        <5>2. CASE rx[1] # Down(r)
          <6>1. atv'[r] = atv[r] /\ (r \in refused' <=> r \in refused)
            <7>1. CASE IsFrame(Head(rx)) /\ Head(rx) \in Frames /\ Report(Head(rx))
              <8>1. Head(rx)[1] # r /\ Head(rx)[1] \in Reports
                BY <3>2, <4>1, <5>2, <7>1, UpsAndDowns, ItemsAre
              <8>2. QED
                BY <1>1, <7>1, <8>1 DEF Report, DongleTypeOK
            <7>2. CASE UNCHANGED <<atv, refused>>
              BY <7>2
            <7>3. QED
              BY <3>1, <7>1, <7>2
          <6>2. QED
            BY <1>5, <3>5, <6>1 DEF KeyComes
        <5>3. QED
          BY <5>1, <5>2
      <4>3. Comes(rx, 1, r) => Comes(rx', 1, r)
        BY <3>3, <4>1
      <4>4. QED
        BY <1>1, <4>2, <4>3
    <3>6. QED
      BY <3>4, <3>5 DEF KeyComes
  <2>3. QED
    BY <2>1, <2>2, <2>4 DEF DongleCommand, CommandStep
<1>6. QED
  BY <1>1, <1>4, <1>5, KeysAre DEF KeysFollow, KeyComes

LEMMA GoneKeepsKeys ==
  ASSUME KeysFollow, DongleGone
  PROVE  KeysFollow'
<1>1. rx' = << >> /\ atv' = [r \in Reports |-> "up"] /\ UNCHANGED <<txq, asked, escaped>>
  BY DEF DongleGone, Unplug
<1>2. ASSUME NEW r \in Reports, KeyComes(r) PROVE KeyComes(r)'
  BY <1>1, <1>2 DEF KeyComes, DownsEnd, Comes
<1>3. QED
  BY <1>1, <1>2, KeysAre DEF KeysFollow, KeyComes

\* More in the queue hides nothing that is there.
LEMMA AskKeepsKeys ==
  ASSUME Base, KeysFollow, SendPing \/ HandshakeOk
  PROVE  KeysFollow'
<1>1. PICK request \in Requests : WriteLine(request)
  BY ItemsAre DEF SendPing, HandshakeOk
<1>2. UNCHANGED <<rx, atv, refused, asked, escaped, open>>
  BY DEF SendPing, HandshakeOk, dongle, firmware, port
<1>3. CASE ~open
  <2>1. txq' = txq
    BY <1>1, <1>3 DEF WriteLine
  <2>2. QED
    BY <1>2, <2>1, SameKeys
<1>4. CASE open
  <2>1. txq' = Append(txq, request) /\ txq \in Seq(Items) /\ request \in Items
    BY <1>1, <1>4, AsksIs, QueuesAre DEF Items
  <2>2. /\ DOMAIN txq = 1..Len(txq) /\ DOMAIN txq' = 1..(Len(txq) + 1) /\ Len(txq) \in Nat
        /\ \A i \in 1..Len(txq) : txq'[i] = txq[i]
        /\ txq'[Len(txq) + 1] = request
    BY <2>1, AppendIs
  <2>3. ASSUME NEW r \in Reports, NEW i, Comes(txq, i, r) PROVE Comes(txq', i, r)
    BY <2>2, <2>3 DEF Comes
  <2>4. ASSUME NEW r \in Reports, NEW i \in DOMAIN txq', txq'[i] = Down(r)
        PROVE  i \in DOMAIN txq /\ txq[i] = Down(r)
    <3>1. i # Len(txq) + 1
      BY <2>2, <2>4, UpsAndDowns
    <3>2. QED
      BY <2>2, <2>4, <3>1
  <2>5. ASSUME NEW r \in Reports, KeyComes(r) PROVE KeyComes(r)'
    BY <1>2, <2>3, <2>4, <2>5 DEF KeyComes, DownsEnd, Comes
  <2>6. QED
    BY <1>2, <2>5, KeysAre DEF KeysFollow, KeyComes
<1>5. QED
  BY <1>3, <1>4

\* What the ring did not take has escaped.
LEMMA OverflowKeepsKeys ==
  ASSUME Base, KeysFollow, WriterWrites, Overflows
  PROVE  KeysFollow'
<1>1. /\ Len(txq) \in Nat /\ Len(txq) > 0 /\ Len(rx) \in Nat /\ txq \in Seq(Items)
      /\ DOMAIN txq = 1..Len(txq) /\ DOMAIN txq' = 1..(Len(txq) - 1)
      /\ \A i \in 1..(Len(txq) - 1) : txq'[i] = txq[i + 1]
      /\ UNCHANGED <<atv, refused, asked>>
  BY WritesOn
<1>2. /\ CutTo(Len(rx)) /\ escaped \subseteq escaped'
      /\ \A r \in Reports : txq[1] = Up(r) => r \in escaped'
  BY DEF Overflows
<1>3. ASSUME NEW r \in Reports, r \notin escaped', asked'[r] = "up" PROVE KeyComes(r)'
  <2>1. KeyComes(r) /\ txq[1] # Up(r)
    BY <1>1, <1>2, <1>3, KeysAre
  <2>2. Len(rx) \in 0..Len(rx) /\ \A j \in 1..Len(rx) : j > Len(rx) => rx[j] # Up(r)
    BY <1>1
  <2>3. /\ \A i : Comes(rx, i, r) => Comes(rx', i, r)
        /\ \A i \in DOMAIN rx' : rx'[i] = Down(r) => i \in DOMAIN rx /\ rx[i] = Down(r)
    BY <1>2, <2>2, CutKeepsRx
  <2>4. ASSUME NEW i \in Nat, i >= 1, Comes(txq, i, r) PROVE \E k \in DOMAIN txq' : k >= i - 1 /\ txq'[k] = Up(r)
    <3>1. PICK j \in 1..Len(txq) : j >= i /\ txq[j] = Up(r)
      BY <1>1, <2>4 DEF Comes
    <3>2. j # 1
      BY <2>1, <3>1
    <3>3. j - 1 \in 1..(Len(txq) - 1) /\ (j - 1) + 1 = j /\ j - 1 >= i - 1
      BY <1>1, <2>4, <3>1, <3>2
    <3>4. j - 1 \in DOMAIN txq' /\ txq'[j - 1] = Up(r)
      BY <1>1, <3>1, <3>3
    <3>5. QED
      BY <3>3, <3>4
  <2>5. Comes(txq, 1, r) => Comes(txq', 1, r)
    <3>1. SUFFICES ASSUME Comes(txq, 1, r) PROVE Comes(txq', 1, r)
      OBVIOUS
    <3>2. PICK k \in DOMAIN txq' : txq'[k] = Up(r)
      BY <2>4, <3>1
    <3>3. k >= 1
      BY <1>1, <3>2
    <3>4. QED
      BY <3>2, <3>3 DEF Comes
  <2>6. ASSUME NEW i \in DOMAIN txq', txq'[i] = Down(r) PROVE Comes(txq', i, r)
    <3>1. i + 1 \in DOMAIN txq /\ txq[i + 1] = Down(r) /\ i + 1 \in Nat /\ i + 1 >= 1 /\ (i + 1) - 1 = i
      BY <1>1, <2>6
    <3>2. Comes(txq, i + 1, r)
      BY <2>1, <3>1 DEF KeyComes, DownsEnd
    <3>3. QED
      BY <2>4, <3>1, <3>2 DEF Comes
  <2>7. ASSUME NEW i \in DOMAIN rx', rx'[i] = Down(r) PROVE Comes(rx', i, r) \/ Comes(txq', 1, r)
    <3>1. Comes(rx, i, r) \/ Comes(txq, 1, r)
      BY <2>1, <2>3, <2>7 DEF KeyComes, DownsEnd
    <3>2. QED
      BY <2>3, <2>5, <3>1
  <2>8. atv'[r] = "down" /\ r \notin refused' => Comes(rx', 1, r) \/ Comes(txq', 1, r)
    BY <1>1, <2>1, <2>3, <2>5 DEF KeyComes
  <2>9. QED
    BY <2>6, <2>7, <2>8 DEF KeyComes, DownsEnd
<1>4. QED
  BY <1>3 DEF KeysFollow, KeyComes

LEMMA LandingKeepsKeys ==
  ASSUME Base, KeysFollow, WriterWrites, Landed
  PROVE  KeysFollow'
<1>1. /\ Len(txq) \in Nat /\ Len(txq) > 0 /\ Len(rx) \in Nat
      /\ DOMAIN txq = 1..Len(txq) /\ DOMAIN txq' = 1..(Len(txq) - 1)
      /\ \A i \in 1..(Len(txq) - 1) : txq'[i] = txq[i + 1]
      /\ DOMAIN rx = 1..Len(rx) /\ DOMAIN rx' = 1..(Len(rx) + 1)
      /\ \A i \in 1..Len(rx) : rx'[i] = rx[i]
      /\ rx'[Len(rx) + 1] = txq[1]
      /\ UNCHANGED <<atv, refused, asked, escaped>>
  BY WritesOn DEF Landed
<1>2. ASSUME NEW r \in Reports, NEW i, Comes(rx, i, r) PROVE Comes(rx', i, r)
  BY <1>1, <1>2 DEF Comes
<1>3. ASSUME NEW r \in Reports, NEW i \in 1..(Len(rx) + 1), Comes(txq, 1, r)
      PROVE  Comes(rx', i, r) \/ Comes(txq', 1, r)
  <2>1. PICK j \in 1..Len(txq) : txq[j] = Up(r)
    BY <1>1, <1>3 DEF Comes
  <2>2. CASE j = 1
    <3>1. Len(rx) + 1 \in DOMAIN rx' /\ Len(rx) + 1 >= i /\ rx'[Len(rx) + 1] = Up(r)
      BY <1>1, <2>1, <2>2
    <3>2. QED
      BY <3>1 DEF Comes
  <2>3. CASE j # 1
    <3>1. j - 1 \in 1..(Len(txq) - 1) /\ (j - 1) + 1 = j /\ j - 1 >= 1
      BY <1>1, <2>3
    <3>2. j - 1 \in DOMAIN txq' /\ txq'[j - 1] = Up(r)
      BY <1>1, <2>1, <3>1
    <3>3. QED
      BY <3>1, <3>2 DEF Comes
  <2>4. QED
    BY <2>2, <2>3
<1>4. ASSUME NEW r \in Reports, KeyComes(r) PROVE KeyComes(r)'
  <2>1. ASSUME NEW i \in DOMAIN rx', rx'[i] = Down(r) PROVE Comes(rx', i, r) \/ Comes(txq', 1, r)
    <3>1. CASE i \in 1..Len(rx)
      <4>1. rx[i] = Down(r) /\ i \in DOMAIN rx
        BY <1>1, <2>1, <3>1
      <4>2. Comes(rx, i, r) \/ Comes(txq, 1, r)
        BY <1>4, <4>1 DEF KeyComes, DownsEnd
      <4>3. i \in 1..(Len(rx) + 1)
        BY <1>1
      <4>4. QED
        BY <1>2, <1>3, <4>2, <4>3
    <3>2. CASE i = Len(rx) + 1
      <4>1. txq[1] = Down(r) /\ 1 \in DOMAIN txq
        BY <1>1, <2>1, <3>2
      <4>2. Comes(txq, 1, r)
        BY <1>4, <4>1 DEF KeyComes, DownsEnd
      <4>3. i \in 1..(Len(rx) + 1)
        BY <1>1
      <4>4. QED
        BY <1>3, <4>2, <4>3
    <3>3. QED
      BY <1>1, <3>1, <3>2
  <2>2. ASSUME NEW i \in DOMAIN txq', txq'[i] = Down(r) PROVE Comes(txq', i, r)
    <3>1. i + 1 \in DOMAIN txq /\ txq[i + 1] = Down(r) /\ i \in Nat
      BY <1>1, <2>2
    <3>2. Comes(txq, i + 1, r)
      BY <1>4, <3>1 DEF KeyComes, DownsEnd
    <3>3. PICK j \in 1..Len(txq) : j >= i + 1 /\ txq[j] = Up(r)
      BY <1>1, <3>2 DEF Comes
    <3>4. j - 1 \in 1..(Len(txq) - 1) /\ (j - 1) + 1 = j /\ j - 1 >= i
      BY <1>1, <2>2, <3>1, <3>3
    <3>5. j - 1 \in DOMAIN txq' /\ txq'[j - 1] = Up(r)
      BY <1>1, <3>3, <3>4
    <3>6. QED
      BY <3>4, <3>5 DEF Comes
  <2>3. ASSUME atv'[r] = "down", r \notin refused' PROVE Comes(rx', 1, r) \/ Comes(txq', 1, r)
    <3>1. Comes(rx, 1, r) \/ Comes(txq, 1, r)
      BY <1>1, <1>4, <2>3 DEF KeyComes
    <3>2. 1 \in 1..(Len(rx) + 1)
      BY <1>1
    <3>3. QED
      BY <1>2, <1>3, <3>1, <3>2
  <2>4. QED
    BY <2>1, <2>2, <2>3 DEF KeyComes, DownsEnd
<1>5. QED
  BY <1>1, <1>4, KeysAre DEF KeysFollow, KeyComes

\* Closing the port empties the queue, and its key-ups escape.
LEMMA ForceKeepsKeys ==
  ASSUME Base, KeysFollow, ForceReconnect, UNCHANGED <<firmware, asked>>
  PROVE  KeysFollow'
<1>1. txq' = << >> /\ escaped' = escaped \cup UpsAmong(txq) /\ UNCHANGED <<rx, atv, refused>>
  BY DEF ForceReconnect, firmware
<1>2. ASSUME NEW r \in Reports, r \notin escaped', KeyComes(r) PROVE KeyComes(r)'
  <2>1. ~Contains(txq, Up(r))
    BY <1>1, <1>2 DEF UpsAmong
  <2>2. ~Comes(txq, 1, r)
    BY <2>1, QueuesAre DEF Contains, Comes
  <2>3. QED
    BY <1>1, <1>2, <2>2 DEF KeyComes, DownsEnd, Comes
<1>3. QED
  BY <1>1, <1>2, KeysAre DEF KeysFollow, KeyComes

\* What a failing writer leaves of a frame hides nothing either.
LEMMA FailsKeepKeys ==
  ASSUME Base, KeysFollow, WriterFails
  PROVE  KeysFollow'
<1>1. /\ txq' = << >> /\ escaped' = escaped \cup UpsAmong(txq) /\ UNCHANGED <<asked, atv, refused>>
  BY DEF WriterFails, ForceReconnect
<1>2. CutTo(Len(rx))
  BY FailsCuts
<1>3. Len(txq') = 0 /\ DOMAIN txq' = {}
  BY <1>1, EmptySeq
<1>4. ASSUME NEW r \in Reports, r \notin escaped', asked'[r] = "up" PROVE KeyComes(r)'
  <2>1. KeyComes(r) /\ ~Contains(txq, Up(r))
    BY <1>1, <1>4, KeysAre DEF UpsAmong
  <2>2. ~Comes(txq, 1, r)
    BY <2>1, QueuesAre DEF Contains, Comes
  <2>0. Len(rx) \in Nat
    BY QueuesAre, Zenon
  <2>3. Len(rx) \in 0..Len(rx) /\ \A j \in 1..Len(rx) : j > Len(rx) => rx[j] # Up(r)
    BY <2>0, UpTo, Zenon
  <2>4. /\ \A i : Comes(rx, i, r) => Comes(rx', i, r)
        /\ \A i \in DOMAIN rx' : rx'[i] = Down(r) => i \in DOMAIN rx /\ rx[i] = Down(r)
    BY <1>2, <2>3, CutKeepsRx
  <2>5. QED
    BY <1>1, <1>3, <2>1, <2>2, <2>4 DEF KeyComes, DownsEnd
<1>5. QED
  BY <1>4 DEF KeysFollow, KeyComes

LEMMA KeyKeepsKeys ==
  ASSUME Base, KeysFollow, NEW u \in Reports, NEW e \in Edges, NEW strict \in BOOLEAN, KeyEdge(u, e, strict)
  PROVE  KeysFollow'
<1>1. /\ asked' = [asked EXCEPT ![u] = e] /\ escaped \subseteq escaped'
      /\ UNCHANGED <<rx, atv, refused>>
      /\ asked \in [Reports -> Edges]
  BY KeyIs DEF Base, HostTypeOK
<1>2. /\ rx \in Seq(Landing) /\ Len(rx) \in Nat /\ DOMAIN rx = 1..Len(rx)
      /\ txq \in Seq(Items) /\ Len(txq) \in Nat /\ DOMAIN txq = 1..Len(txq)
  BY QueuesAre
<1>3. ASSUME UNCHANGED txq, e = "up" => u \in escaped' PROVE KeysFollow'
  <2>1. ASSUME NEW r \in Reports, r \notin escaped', asked'[r] = "up" PROVE KeyComes(r)'
    <3>1. r # u
      BY <1>1, <1>3, <2>1
    <3>2. KeyComes(r)
      BY <1>1, <2>1, <3>1, KeysAre
    <3>3. QED
      BY <1>1, <1>3, <3>2, SameKey
  <2>2. QED
    BY <2>1 DEF KeysFollow, KeyComes
<1>4. ASSUME \A r \in Reports : Contains(txq, Up(r)) => Contains(txq', Up(r)) \/ r \in escaped',
             txq' \in Seq(Items), NEW d \in {0, 1}, Shifted(d, <<u, e>>)
      PROVE  KeysFollow'
  <2>1. /\ d <= Len(txq) /\ Len(txq') = Len(txq) + 1 - d /\ DOMAIN txq' = 1..(Len(txq) + 1 - d)
        /\ \A i \in 1..(Len(txq) - d) : txq'[i] = txq[i + d]
        /\ txq'[Len(txq) + 1 - d] = <<u, e>>
    BY <1>4 DEF Shifted
  <2>2. ASSUME NEW r \in Reports, r \notin escaped', Comes(txq, 1, r) PROVE Comes(txq', 1, r)
    <3>1. Contains(txq, Up(r))
      BY <1>2, <2>2 DEF Comes, Contains
    <3>2. Contains(txq', Up(r))
      BY <1>4, <2>2, <3>1
    <3>3. QED
      BY <2>1, <3>2 DEF Comes, Contains
  <2>3. ASSUME NEW r \in Reports, NEW i \in 1..(Len(txq) - d), Comes(txq, i + d, r) PROVE Comes(txq', i, r)
    <3>1. PICK j \in 1..Len(txq) : j >= i + d /\ txq[j] = Up(r)
      BY <1>2, <2>3 DEF Comes
    <3>2. j - d \in 1..(Len(txq) - d) /\ (j - d) + d = j /\ j - d >= i /\ j - d \in DOMAIN txq'
      BY <1>2, <2>1, <3>1
    <3>3. txq'[j - d] = Up(r)
      BY <2>1, <3>1, <3>2
    <3>4. QED
      BY <3>2, <3>3 DEF Comes
  <2>4. ASSUME NEW r \in Reports, r \notin escaped', asked'[r] = "up" PROVE KeyComes(r)'
    <3>1. CASE r = u
      <4>1. e = "up"
        BY <1>1, <2>4, <3>1
      <4>2. <<u, e>> = Up(r)
        BY <3>1, <4>1 DEF Up
      <4>3. Len(txq) + 1 - d \in DOMAIN txq' /\ \A i \in DOMAIN txq' : Len(txq) + 1 - d >= i
        BY <1>2, <2>1
      <4>4. \A i \in DOMAIN txq' : Comes(txq', i, r)
        BY <2>1, <4>2, <4>3 DEF Comes
      <4>5. Comes(txq', 1, r)
        BY <2>1, <4>2, <4>3 DEF Comes
      <4>6. QED
        BY <4>4, <4>5 DEF KeyComes, DownsEnd
    <3>2. CASE r # u
      <4>1. KeyComes(r)
        BY <1>1, <2>4, <3>2, KeysAre
      <4>2. ASSUME NEW i \in DOMAIN txq', txq'[i] = Down(r) PROVE Comes(txq', i, r)
        <5>1. <<u, e>> \in Frames /\ <<u, e>>[1] = u
          BY ItemsAre
        <5>2. i # Len(txq) + 1 - d
          BY <2>1, <3>2, <4>2, <5>1, UpsAndDowns
        <5>3. i \in 1..(Len(txq) - d) /\ i + d \in DOMAIN txq
          BY <1>2, <2>1, <5>2
        <5>4. txq[i + d] = Down(r)
          BY <2>1, <4>2, <5>3
        <5>5. Comes(txq, i + d, r)
          BY <4>1, <5>3, <5>4 DEF KeyComes, DownsEnd
        <5>6. QED
          BY <2>3, <5>3, <5>5
      <4>3. ASSUME NEW i \in DOMAIN rx', rx'[i] = Down(r) PROVE Comes(rx', i, r) \/ Comes(txq', 1, r)
        <5>1. Comes(rx, i, r) \/ Comes(txq, 1, r)
          BY <1>1, <4>1, <4>3 DEF KeyComes, DownsEnd
        <5>2. QED
          BY <1>1, <2>2, <2>4, <5>1
      <4>4. ASSUME atv'[r] = "down", r \notin refused' PROVE Comes(rx', 1, r) \/ Comes(txq', 1, r)
        <5>1. Comes(rx, 1, r) \/ Comes(txq, 1, r)
          BY <1>1, <4>1, <4>4 DEF KeyComes
        <5>2. QED
          BY <1>1, <2>2, <2>4, <5>1
      <4>5. QED
        BY <4>2, <4>3, <4>4 DEF KeyComes, DownsEnd
    <3>3. QED
      BY <3>1, <3>2
  <2>5. QED
    BY <2>4 DEF KeysFollow, KeyComes
<1>5. QED
  BY <1>3, <1>4, KeyIs

LEMMA ReleaseKeepsKeys ==
  ASSUME Base, KeysFollow, ReleaseAll
  PROVE  KeysFollow'
<1>1. UNCHANGED <<rx, atv, refused>>
  BY DEF ReleaseAll, dongle, firmware
<1>2. CASE ~open
  <2>1. escaped' = Reports
    BY <1>2 DEF ReleaseAll
  <2>2. QED
    BY <2>1 DEF KeysFollow
<1>3. CASE open
  <2>1. DOMAIN txq' = 1..Len(txq') /\ Len(txq') \in Nat
    BY <1>3, ReleaseIs
  <2>2. PICK n \in 0..2 : \E kept \in [1..n -> DOMAIN txq] : Kept(n, kept)
    BY <1>3, ReleaseIs
  <2>3. PICK kept \in [1..n -> DOMAIN txq] : Kept(n, kept)
    BY <2>2
  <2>4. ASSUME NEW r \in Reports PROVE KeyComes(r)'
    <3>1. ASSUME NEW i \in 1..Len(txq') PROVE txq'[i] # Down(r)
      <4>1. CASE i <= n
        <5>1. ~IsFrame(txq'[i])
          BY <2>3, <3>1, <4>1 DEF Kept
        <5>2. QED
          BY <5>1, UpsAndDowns
      <4>2. CASE i > n
        <5>1. \E s \in Reports : txq'[i] = Up(s)
          BY <2>3, <3>1, <4>2 DEF Kept
        <5>2. \A s \in Reports : Up(s) # Down(r)
          BY UpsAndDowns
        <5>3. QED
          BY <5>1, <5>2
      <4>3. QED
        BY <2>1, <4>1, <4>2
    <3>2. \E i \in 1..Len(txq') : txq'[i] = Up(r)
      BY <2>3 DEF Kept
    <3>3. Comes(txq', 1, r)
      BY <2>1, <3>2 DEF Comes
    <3>4. QED
      BY <2>1, <3>1, <3>3 DEF KeyComes, DownsEnd
  <2>5. QED
    BY <2>4 DEF KeysFollow, KeyComes
<1>4. QED
  BY <1>2, <1>3

LEMMA StepKeepsKeys ==
  ASSUME Base, KeysFollow, [Next]_vars
  PROVE  KeysFollow'
<1>1. CASE RadioStep /\ UNCHANGED host
  <2>1. RadioSays
    BY <1>1, RadioIs DEF Base
  <2>2. QED
    BY <1>1, <2>1, SameKeys DEF RadioSays, host
<1>2. CASE DongleCommand
  BY <1>2, TakesKeepKeys
<1>3. CASE DongleGone
  BY <1>3, GoneKeepsKeys
<1>4. CASE Plug /\ UNCHANGED host
  BY <1>4, SameKeys DEF Plug, host
<1>5. CASE Connecting
  <2>1. CASE Open
    BY <2>1, OpenKeepsKeys
  <2>2. CASE HandshakeTimeout
    BY <2>2, ForceKeepsKeys DEF HandshakeTimeout
  <2>3. CASE LinkDownSeen
    BY <2>3, SameKeys DEF LinkDownSeen, dongle, firmware
  <2>4. QED
    BY <1>5, <2>1, <2>2, <2>3, AskKeepsKeys DEF Connecting
<1>6. CASE Writer
  <2>1. CASE WriterFails
    BY <2>1, FailsKeepKeys
  <2>2. CASE WriterWakes
    BY <2>2, SameKeys DEF WriterWakes, dongle, firmware
  <2>3. QED
    BY <1>6, <2>1, <2>2, WritesOn, LandingKeepsKeys, OverflowKeepsKeys DEF Writer
<1>7. CASE Reader
  <2>1. CASE Read
    BY <2>1, SameKeys DEF Read
  <2>2. CASE ReadFails
    BY <2>2, SameKeys DEF ReadFails, dongle, firmware
  <2>3. QED
    BY <1>7, <2>1, <2>2 DEF Reader
<1>8. CASE ReadLossHandled
  BY <1>8, ForceKeepsKeys DEF ReadLossHandled, dongle
<1>9. ASSUME NEW r \in Reports, NEW e \in Edges, NEW strict \in BOOLEAN, KeyEdge(r, e, strict)
      PROVE  KeysFollow'
  BY <1>9, KeyKeepsKeys
<1>10. CASE ReleaseAll
  BY <1>10, ReleaseKeepsKeys
<1>11. CASE Restart
  BY <1>11 DEF Restart, KeysFollow
<1>12. CASE UNCHANGED vars
  BY <1>12, SameKeys DEF vars, dongle, firmware, host
<1>13. QED
  BY <1>1, <1>2, <1>3, <1>4, <1>5, <1>6, <1>7, <1>8, <1>9, <1>10, <1>11, <1>12 DEF Next

(***************************************************************************)
(* The four theorems, and that the invariant TLC checks is the one used.   *)
(***************************************************************************)
\* Whoever changes what readiness is computed from leaves it computed.
LEMMA StepKeepsReadyComputed ==
    ASSUME LinkReadyIsComputed, [Next]_vars
    PROVE  LinkReadyIsComputed'
<1> USE DEF LinkReadyIsComputed
<1>0. ASSUME UNCHANGED <<radio, linkReady>> PROVE LinkReadyIsComputed'
  BY <1>0 DEF radio, CanCarryKeys
<1>1. CASE RadioStep /\ UNCHANGED host
  <2>1. CASE Connected
    BY <2>1 DEF Connected, UpdateLinkReady
  <2>2. CASE Disconnected
    BY <2>2 DEF Disconnected, UpdateLinkReady
  <2>3. CASE SecurityChanged
    BY <2>3 DEF SecurityChanged, UpdateLinkReady
  <2>4. CASE CtrlPoint
    BY <2>4 DEF CtrlPoint, UpdateLinkReady
  <2>5. ASSUME NEW r \in Reports, CccChanged(r) PROVE LinkReadyIsComputed'
    BY <2>5 DEF CccChanged, UpdateLinkReady
  <2>. QED  BY <1>1, <2>1, <2>2, <2>3, <2>4, <2>5 DEF RadioStep
<1>2. CASE DongleCommand
  BY <1>2, <1>0 DEF DongleCommand, CommandStep, CommandTakes, CommandWrites, CommandMisreads
<1>3. CASE DongleGone
  BY <1>3 DEF DongleGone, Unplug, CanCarryKeys
<1>4. CASE Plug /\ UNCHANGED host
  BY <1>4, <1>0 DEF Plug
<1>5. CASE Connecting
  BY <1>5, <1>0 DEF Connecting, Open, SendPing, HandshakeOk, HandshakeTimeout, LinkDownSeen,
                       dongle, firmware
<1>6. CASE Writer
  BY <1>6, <1>0 DEF Writer, WriterWrites, WriterFails, WriterWakes, dongle, firmware
<1>7. CASE Reader
  BY <1>7, <1>0 DEF Reader, Read, ReadFails, dongle, firmware
<1>8. CASE ReadLossHandled
  BY <1>8, <1>0 DEF ReadLossHandled, dongle, firmware
<1>9. ASSUME NEW r \in Reports, NEW e \in Edges, NEW strict \in BOOLEAN, KeyEdge(r, e, strict)
      PROVE  LinkReadyIsComputed'
  BY <1>9, <1>0 DEF KeyEdge
<1>10. CASE ReleaseAll
  BY <1>10, <1>0 DEF ReleaseAll, dongle, firmware
<1>11. CASE Restart
  BY <1>11, <1>0 DEF Restart, firmware
<1>12. CASE UNCHANGED vars
  BY <1>12, <1>0 DEF vars, dongle, firmware
<1>. QED
  BY <1>1, <1>2, <1>3, <1>4, <1>5, <1>6, <1>7, <1>8, <1>9, <1>10, <1>11, <1>12 DEF Next

\* main.c, update_link_ready and its callers: link_ready, which STATUS replies
\* with, is what compute_link_ready would return, between any two callbacks.
THEOREM ReadyIsComputed == Spec => []LinkReadyIsComputed
<1>1. Init => LinkReadyIsComputed
  BY DEF Init, DongleInit, LinkReadyIsComputed
<1>2. LinkReadyIsComputed /\ [Next]_vars => LinkReadyIsComputed'
  BY StepKeepsReadyComputed
<1>. QED  BY <1>1, <1>2, PTL DEF Spec

LEMMA InitHasTold ==
  ASSUME Init
  PROVE  Told
  BY DEF Init, Told, Informed

LEMMA InitHasKeys ==
  ASSUME Init
  PROVE  KeysFollow
<1>1. rx = << >> /\ txq = << >> /\ \A r \in Reports : atv[r] = "up"
  BY DEF Init, DongleInit
<1>2. DOMAIN rx = {} /\ DOMAIN txq = {}
  BY <1>1
<1>3. \A r \in Reports : DownsEnd(r)
  BY <1>2 DEF DownsEnd
<1>4. QED
  BY <1>1, <1>3 DEF KeysFollow

\* ble_dongle.py, _handle_line and _handle_evt, and the firmware's
\* cmd_emit_status_line, cmd_evt_conn and cmd_evt_ready: when all that was said
\* has been heard, the hub's view of the link is the dongle's, unless lines were
\* pushed out of the ring or the hub started again; also when the Bluetooth
\* callbacks ran between a STATUS reply being made and its being written.
THEOREM ViewAgrees == Spec => []HostAgrees
<1> DEFINE Held == Base /\ LinkReadyIsComputed /\ Told
<1>1. Init => Held
  BY InitHasBase, InitHasTold DEF Init, DongleInit, LinkReadyIsComputed
<1>2. Held /\ [Next]_vars => Held'
  BY StepKeepsBase, StepKeepsReadyComputed, StepKeepsTold
<1>3. Held => HostAgrees
  BY QuietAgrees
<1>. QED  BY <1>1, <1>2, <1>3, PTL DEF Spec

\* ble_dongle.py, release_all and _enqueue_priority_frames, key edges and the
\* writer: a key whose release was asked for, and got past the queue, comes up
\* on the Apple TV after all that was queued before it, however releases and
\* edges from several callers interleave with the writer and with reconnects.
THEOREM KeysAreReleased == Spec => []KeysComeUp
<1> DEFINE Held == Base /\ KeysFollow
<1>1. Init => Held
  BY InitHasBase, InitHasKeys
<1>2. Held /\ [Next]_vars => Held'
  BY StepKeepsBase, StepKeepsKeys
<1>3. Held => KeysComeUp
  BY DEF KeysFollow, KeysComeUp
<1>. QED  BY <1>1, <1>2, <1>3, PTL DEF Spec

\* The whole inductive invariant, in the form TLC checks it.
THEOREM Invariant == Spec => []IInv
<1> DEFINE Held == Base /\ LinkReadyIsComputed /\ Told /\ KeysFollow
<1>1. Init => Held
  BY InitHasBase, InitHasTold, InitHasKeys DEF Init, DongleInit, LinkReadyIsComputed
<1>2. Held /\ [Next]_vars => Held'
  BY StepKeepsBase, StepKeepsReadyComputed, StepKeepsTold, StepKeepsKeys
<1>3. Held => IInv
  BY TypesAre, ViewIs DEF Base, IInv, ViewFollows
<1>. QED  BY <1>1, <1>2, <1>3, PTL DEF Spec
=============================================================================
