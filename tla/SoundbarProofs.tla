--------------------------- MODULE SoundbarProofs ---------------------------
(***************************************************************************)
(* A release ends the session it was called for, the hub knows whether the *)
(* bar is in use once all is heard, and a listen signal tells of a session *)
(* that began, for any number of uses, commands and failures.              *)
(***************************************************************************)
EXTENDS Soundbar, SequenceTheorems, WellFoundedInduction, TLAPS

USE SoundbarBounds DEF TypeOK

(***************************************************************************)
(* What is posted.                                                         *)
(***************************************************************************)
LEMMA PostsAre ==
  /\ Status \in Posts
  /\ \A c \in Conns, p \in Players : Media(c, p) \in Posts
  /\ \A f \in {"on", "off", "none"} : Flags(f) \in Posts
  BY DEF Posts

\* A post by its kind.
LEMMA PostIs ==
  ASSUME NEW x \in Posts
  PROVE  /\ x.kind \in {"status", "media", "flags"}
         /\ x.kind = "status" => x = Status
         /\ x.kind = "media" => x.by \in Conns /\ x.player \in Players /\ x = Media(x.by, x.player)
         /\ x.kind = "flags" => x.air \in {"on", "off", "none"} /\ x = Flags(x.air)
  BY DEF Posts, Status, Media, Flags

LEMMA KindsAre ==
  /\ Status.kind = "status"
  /\ \A c, p : Media(c, p).kind = "media" /\ Media(c, p).by = c /\ Media(c, p).player = p
  /\ \A f : Flags(f).kind = "flags" /\ Flags(f).air = f
  BY DEF Status, Media, Flags

LEMMA PlayersAre ==
  /\ \A d \in Doings : PlayerOf(d) \in Players
  /\ \A d, e \in Doings : PlayerOf(d) = PlayerOf(e) => HasApp(d) = HasApp(e)
  /\ \A d \in Doings : ~HasAir(d) => (Plays(d) <=> PlayerOf(d) = "playing")
  /\ \A d \in Doings : ~HasApp(d) <=> PlayerOf(d) = "none"
<1>1. ASSUME NEW d \in Doings
      PROVE  /\ PlayerOf(d) \in Players
             /\ ~HasApp(d) <=> PlayerOf(d) = "none"
             /\ ~HasAir(d) => (Plays(d) <=> PlayerOf(d) = "playing")
  <2>1. CASE d = "playing"
    BY <2>1 DEF PlayerOf, HasApp, HasAir, Players, Plays
  <2>2. CASE d = "idle"
    BY <2>2 DEF PlayerOf, HasApp, HasAir, Players, Plays
  <2>3. CASE d = "both"
    BY <2>3 DEF PlayerOf, HasApp, HasAir, Players, Plays
  <2>4. CASE d \in {"tv", "airplay"}
    BY <2>4 DEF PlayerOf, HasApp, HasAir, Players, Plays
  <2>5. QED
    BY <2>1, <2>2, <2>3, <2>4 DEF Doings
<1>2. ASSUME NEW d \in Doings, NEW e \in Doings, PlayerOf(d) = PlayerOf(e) PROVE HasApp(d) = HasApp(e)
  <2>1. HasApp(d) \in BOOLEAN /\ HasApp(e) \in BOOLEAN /\ (HasApp(d) <=> HasApp(e))
    BY <1>1, <1>2 DEF HasApp
  <2>2. QED
    BY <2>1
<1>3. QED
  BY <1>1, <1>2

\* The loop takes the oldest post.
LEMMA TailIs ==
  ASSUME posted \in Seq(Posts), posted # << >>, posted' = Tail(posted)
  PROVE  /\ posted' \in Seq(Posts)
         /\ Len(posted) \in Nat /\ Len(posted) > 0
         /\ DOMAIN posted = 1..Len(posted) /\ DOMAIN posted' = 1..(Len(posted) - 1)
         /\ Head(posted) = posted[1] /\ posted[1] \in Posts
         /\ \A i \in DOMAIN posted' : posted'[i] = posted[i + 1]
  BY HeadTailProperties, LenProperties, EmptySeq

LEMMA AppendIs ==
  ASSUME posted \in Seq(Posts), NEW x \in Posts, posted' = Append(posted, x)
  PROVE  /\ posted' \in Seq(Posts)
         /\ Len(posted) \in Nat /\ Len(posted') = Len(posted) + 1
         /\ DOMAIN posted = 1..Len(posted) /\ DOMAIN posted' = 1..(Len(posted) + 1)
         /\ \A i \in DOMAIN posted : posted'[i] = posted[i]
         /\ posted'[Len(posted) + 1] = x
<1>1. /\ posted' \in Seq(Posts) /\ Len(posted') = Len(posted) + 1
      /\ \A i \in 1..Len(posted) : posted'[i] = posted[i]
      /\ posted'[Len(posted) + 1] = x
  BY AppendProperties
<1>2. QED
  BY <1>1, LenProperties

\* A connection that is listened to and knows what the bar does.
Hears(c) == phase[c] = "live" /\ ~Lost(c)

\* What a connection says when the bar does something else.
LEMMA SaysIs ==
  ASSUME NEW c \in Conns, NEW d \in Doings
  PROVE  /\ Says(c, d) \in Seq(Posts) /\ Len(Says(c, d)) \in 0..2
         /\ \A i \in 1..Len(Says(c, d)) :
              \/ Says(c, d)[i] = Status /\ HasApp(d) # HasApp(bar)
              \/ Says(c, d)[i] = Media(c, PlayerOf(d))
         /\ ~Hears(c) \/ (HasApp(d) = HasApp(bar) /\ PlayerOf(d) = PlayerOf(bar)) => Says(c, d) = << >>
         /\ Hears(c) /\ PlayerOf(d) # PlayerOf(bar) =>
              \E i \in 1..Len(Says(c, d)) :
                 /\ Says(c, d)[i] = Media(c, PlayerOf(d))
                 /\ HasApp(d) # HasApp(bar) => i = 2 /\ Says(c, d)[1] = Status
<1> DEFINE app == IF HasApp(d) = HasApp(bar) THEN << >> ELSE <<Status>>
           media == IF PlayerOf(d) = PlayerOf(bar) THEN << >> ELSE <<Media(c, PlayerOf(d))>>
<1>1. Status \in Posts /\ Media(c, PlayerOf(d)) \in Posts
  BY PostsAre, PlayersAre
<1>2. /\ app \in Seq(Posts) /\ Len(app) = (IF HasApp(d) = HasApp(bar) THEN 0 ELSE 1)
      /\ HasApp(d) # HasApp(bar) => app[1] = Status
  BY <1>1
<1>3. /\ media \in Seq(Posts) /\ Len(media) = (IF PlayerOf(d) = PlayerOf(bar) THEN 0 ELSE 1)
      /\ PlayerOf(d) # PlayerOf(bar) => media[1] = Media(c, PlayerOf(d))
  BY <1>1
<1> HIDE DEF app, media
<1>4. /\ app \o media \in Seq(Posts) /\ Len(app \o media) = Len(app) + Len(media)
      /\ \A i \in 1..Len(app) + Len(media) :
           (app \o media)[i] = IF i <= Len(app) THEN app[i] ELSE media[i - Len(app)]
  BY <1>2, <1>3, ConcatProperties
<1>5. CASE ~Hears(c)
  <2>1. Says(c, d) = << >>
    BY <1>5 DEF Says, Hears
  <2>2. << >> \in Seq(Posts) /\ Len(<< >>) = 0
    BY EmptySeq
  <2>3. QED
    BY <1>5, <2>1, <2>2
<1>6. CASE Hears(c)
  <2>1. Says(c, d) = app \o media
    BY <1>6 DEF Says, Hears, app, media
  <2>2. HasApp(d) = HasApp(bar) /\ PlayerOf(d) = PlayerOf(bar) => app \o media = << >>
    BY <1>2, <1>3, <1>4, EmptySeq
  <2>3. \A i \in 1..Len(app \o media) :
              \/ (app \o media)[i] = Status /\ HasApp(d) # HasApp(bar)
              \/ (app \o media)[i] = Media(c, PlayerOf(d))
    BY <1>2, <1>3, <1>4
  <2>4. ASSUME PlayerOf(d) # PlayerOf(bar)
        PROVE  \E i \in 1..Len(app \o media) :
                 /\ (app \o media)[i] = Media(c, PlayerOf(d))
                 /\ HasApp(d) # HasApp(bar) => i = 2 /\ (app \o media)[1] = Status
    <3>1. CASE HasApp(d) = HasApp(bar)
      <4>1. Len(app \o media) = 1 /\ (app \o media)[1] = Media(c, PlayerOf(d))
        BY <1>2, <1>3, <1>4, <2>4, <3>1
      <4>2. QED
        BY <3>1, <4>1
    <3>2. CASE HasApp(d) # HasApp(bar)
      <4>1. Len(app \o media) = 2 /\ (app \o media)[2] = Media(c, PlayerOf(d)) /\ (app \o media)[1] = Status
        BY <1>2, <1>3, <1>4, <2>4, <3>2
      <4>2. QED
        BY <4>1
    <3>3. QED
      BY <3>1, <3>2
  <2>5. Len(app \o media) \in 0..2
    BY <1>2, <1>3, <1>4
  <2>6. QED
    BY <1>4, <1>6, <2>1, <2>2, <2>3, <2>4, <2>5
<1>7. QED
  BY <1>5, <1>6

LEMMA BecomesIs ==
  ASSUME TypeOK, NEW d \in Doings, Becomes(d)
  PROVE  /\ posted' \in Seq(Posts)
         /\ Len(posted) \in Nat /\ Len(posted') \in Nat /\ Len(posted) <= Len(posted')
         /\ DOMAIN posted = 1..Len(posted) /\ DOMAIN posted' = 1..Len(posted')
         /\ \A i \in DOMAIN posted : posted'[i] = posted[i]
         /\ PlayerOf(d) = PlayerOf(bar) => posted' = posted /\ HasApp(d) = HasApp(bar)
         /\ \A i \in DOMAIN posted' : i > Len(posted) =>
              \/ posted'[i] = Status /\ HasApp(d) # HasApp(bar)
              \/ \E c \in Conns : Hears(c) /\ posted'[i] = Media(c, PlayerOf(d))
         /\ PlayerOf(d) # PlayerOf(bar) => \A c \in Conns : Hears(c) =>
              \E i \in DOMAIN posted' :
                 /\ i > Len(posted) /\ posted'[i] = Media(c, PlayerOf(d))
                 /\ HasApp(d) # HasApp(bar) => i - 1 > Len(posted) /\ posted'[i - 1] = Status
<1> DEFINE r == Says("runner", d)
           k == Says("command", d)
           n == Len(posted)
<1>1. "runner" \in Conns /\ "command" \in Conns /\ \A c \in Conns : c \in {"runner", "command"}
  BY DEF Conns
<1>2. /\ r \in Seq(Posts) /\ Len(r) \in 0..2
      /\ \A i \in 1..Len(r) : \/ r[i] = Status /\ HasApp(d) # HasApp(bar)
                              \/ r[i] = Media("runner", PlayerOf(d))
      /\ ~Hears("runner") \/ (HasApp(d) = HasApp(bar) /\ PlayerOf(d) = PlayerOf(bar)) => r = << >>
      /\ Hears("runner") /\ PlayerOf(d) # PlayerOf(bar) =>
              \E i \in 1..Len(r) : /\ r[i] = Media("runner", PlayerOf(d))
                                   /\ HasApp(d) # HasApp(bar) => i = 2 /\ r[1] = Status
  BY <1>1, SaysIs
<1>3. /\ k \in Seq(Posts) /\ Len(k) \in 0..2
      /\ \A i \in 1..Len(k) : \/ k[i] = Status /\ HasApp(d) # HasApp(bar)
                              \/ k[i] = Media("command", PlayerOf(d))
      /\ ~Hears("command") \/ (HasApp(d) = HasApp(bar) /\ PlayerOf(d) = PlayerOf(bar)) => k = << >>
      /\ Hears("command") /\ PlayerOf(d) # PlayerOf(bar) =>
              \E i \in 1..Len(k) : /\ k[i] = Media("command", PlayerOf(d))
                                   /\ HasApp(d) # HasApp(bar) => i = 2 /\ k[1] = Status
  BY <1>1, SaysIs
<1>4. posted' = posted \o r \o k /\ posted \in Seq(Posts) /\ n \in Nat /\ DOMAIN posted = 1..n /\ bar \in Doings
  BY LenProperties DEF Becomes, DevicesOK
<1> HIDE DEF r, k
<1>5. /\ posted \o r \in Seq(Posts) /\ Len(posted \o r) = n + Len(r)
      /\ \A i \in 1..n + Len(r) : (posted \o r)[i] = IF i <= n THEN posted[i] ELSE r[i - n]
  BY <1>2, <1>4, ConcatProperties
<1>6. /\ posted' \in Seq(Posts) /\ Len(posted') = n + Len(r) + Len(k)
      /\ \A i \in 1..n + Len(r) + Len(k) :
           posted'[i] = IF i <= n + Len(r) THEN (posted \o r)[i] ELSE k[i - (n + Len(r))]
  BY <1>3, <1>4, <1>5, ConcatProperties
<1>7. DOMAIN posted' = 1..Len(posted') /\ Len(posted') \in Nat /\ n <= Len(posted')
  BY <1>2, <1>3, <1>4, <1>6, LenProperties
<1>8. /\ \A i \in 1..n : posted'[i] = posted[i]
      /\ \A i \in 1..Len(r) : posted'[n + i] = r[i]
      /\ \A i \in 1..Len(k) : posted'[n + Len(r) + i] = k[i]
  <2>1. ASSUME NEW i \in 1..n PROVE posted'[i] = posted[i]
    BY <1>2, <1>3, <1>4, <1>5, <1>6
  <2>2. ASSUME NEW i \in 1..Len(r) PROVE posted'[n + i] = r[i]
    <3>1. n + i \in 1..n + Len(r) /\ n + i \in 1..n + Len(r) + Len(k) /\ ~(n + i <= n) /\ n + i - n = i /\ n + i <= n + Len(r)
      BY <1>2, <1>3, <1>4
    <3>2. QED
      BY <3>1, <1>5, <1>6
  <2>3. ASSUME NEW i \in 1..Len(k) PROVE posted'[n + Len(r) + i] = k[i]
    <3>1. n + Len(r) + i \in 1..n + Len(r) + Len(k) /\ ~(n + Len(r) + i <= n + Len(r)) /\ n + Len(r) + i - (n + Len(r)) = i
      BY <1>2, <1>3, <1>4
    <3>2. QED
      BY <3>1, <1>6
  <2>4. QED
    BY <2>1, <2>2, <2>3
<1>9. ASSUME PlayerOf(d) = PlayerOf(bar) PROVE posted' = posted /\ HasApp(d) = HasApp(bar)
  <2>1. HasApp(d) = HasApp(bar)
    BY <1>4, <1>9, PlayersAre
  <2>2. r = << >> /\ k = << >>
    BY <1>2, <1>3, <1>9, <2>1
  <2>3. posted \o << >> = posted
    BY <1>4, ConcatEmptySeq
  <2>4. QED
    BY <1>4, <2>1, <2>2, <2>3
<1>10. ASSUME NEW i \in DOMAIN posted', i > n
       PROVE  \/ posted'[i] = Status /\ HasApp(d) # HasApp(bar)
              \/ \E c \in Conns : Hears(c) /\ posted'[i] = Media(c, PlayerOf(d))
  <2>1. CASE i <= n + Len(r)
    <3>1. i - n \in 1..Len(r) /\ n + (i - n) = i
      BY <1>2, <1>4, <1>7, <1>10, <2>1
    <3>2. posted'[i] = r[i - n]
      BY <3>1, <1>8
    <3>3. r # << >>
      BY <3>1, <1>2, EmptySeq
    <3>4. QED
      BY <3>1, <3>2, <3>3, <1>1, <1>2
  <2>2. CASE ~(i <= n + Len(r))
    <3>1. i - (n + Len(r)) \in 1..Len(k) /\ n + Len(r) + (i - (n + Len(r))) = i
      BY <1>2, <1>3, <1>4, <1>6, <1>7, <1>10, <2>2
    <3>2. posted'[i] = k[i - (n + Len(r))]
      BY <3>1, <1>8
    <3>3. k # << >>
      BY <3>1, <1>3, EmptySeq
    <3>4. QED
      BY <3>1, <3>2, <3>3, <1>1, <1>3
  <2>3. QED
    BY <2>1, <2>2
<1>11. ASSUME PlayerOf(d) # PlayerOf(bar), NEW c \in Conns, Hears(c)
       PROVE  \E i \in DOMAIN posted' :
                 /\ i > n /\ posted'[i] = Media(c, PlayerOf(d))
                 /\ HasApp(d) # HasApp(bar) => i - 1 > n /\ posted'[i - 1] = Status
  <2>1. CASE c = "runner"
    <3>1. PICK i \in 1..Len(r) : /\ r[i] = Media(c, PlayerOf(d))
                                 /\ HasApp(d) # HasApp(bar) => i = 2 /\ r[1] = Status
      BY <1>2, <1>11, <2>1
    <3>2. n + i \in DOMAIN posted' /\ n + i > n /\ posted'[n + i] = Media(c, PlayerOf(d))
      BY <3>1, <1>2, <1>3, <1>4, <1>6, <1>7, <1>8
    <3>3. HasApp(d) # HasApp(bar) => n + i - 1 > n /\ posted'[n + i - 1] = Status
      BY <3>1, <1>2, <1>4, <1>8
    <3>4. PICK m \in DOMAIN posted' : m = n + i
      BY <3>2
    <3>5. QED
      BY <3>2, <3>3, <3>4
  <2>2. CASE c = "command"
    <3>1. PICK i \in 1..Len(k) : /\ k[i] = Media(c, PlayerOf(d))
                                 /\ HasApp(d) # HasApp(bar) => i = 2 /\ k[1] = Status
      BY <1>3, <1>11, <2>2
    <3>2. n + Len(r) + i \in DOMAIN posted' /\ n + Len(r) + i > n /\ posted'[n + Len(r) + i] = Media(c, PlayerOf(d))
      BY <3>1, <1>2, <1>3, <1>4, <1>6, <1>7, <1>8
    <3>3. HasApp(d) # HasApp(bar) => n + Len(r) + i - 1 > n /\ posted'[n + Len(r) + i - 1] = Status
      BY <3>1, <1>2, <1>3, <1>4, <1>8
    <3>4. PICK m \in DOMAIN posted' : m = n + Len(r) + i
      BY <3>2
    <3>5. QED
      BY <3>2, <3>3, <3>4
  <2>3. QED
    BY <1>1, <2>1, <2>2
<1>12. QED
  BY <1>4, <1>6, <1>7, <1>8, <1>9, <1>10, <1>11

(***************************************************************************)
(* Types.                                                                  *)
(***************************************************************************)
LEMMA BecomesTypes ==
  ASSUME TypeOK, NEW d \in Doings, Becomes(d)
  PROVE  /\ bar' \in Doings /\ posted' \in Seq(Posts) /\ resolve' \in BOOLEAN
         /\ deaf' \in [Conns -> BOOLEAN] /\ staleApp' \in BOOLEAN /\ session' \in Nat /\ begun' \in Nat
<1>1. posted' \in Seq(Posts)
  BY BecomesIs
<1>2. bar' \in Doings /\ session' \in Nat /\ begun' \in Nat
  BY DEF Becomes, HistoryOK
<1>3. resolve' \in BOOLEAN
  BY DEF Becomes, DevicesOK
<1>4. deaf' \in [Conns -> BOOLEAN]
  BY DEF Becomes, HistoryOK, Lost
<1>5. staleApp' \in BOOLEAN
  BY DEF Becomes, HistoryOK, Lost
<1>6. QED
  BY <1>1, <1>2, <1>3, <1>4, <1>5

\* What a connection says when the library has dialled again.
LEMMA RetellsIs ==
  ASSUME TypeOK, NEW c \in Conns, LinkBack(c)
  PROVE  /\ posted' \in Seq(Posts)
         /\ Len(posted) \in Nat /\ Len(posted') \in Nat /\ Len(posted) <= Len(posted')
         /\ DOMAIN posted = 1..Len(posted) /\ DOMAIN posted' = 1..Len(posted')
         /\ \A i \in DOMAIN posted : posted'[i] = posted[i]
         /\ \A i \in DOMAIN posted' : i > Len(posted) =>
              /\ phase[c] = "live"
              /\ posted'[i] = Status \/ (posted'[i] = Media(c, "none") /\ ~HasApp(bar))
         /\ phase[c] = "live" /\ ~HasApp(bar) =>
              \E i \in DOMAIN posted' : i > Len(posted) /\ posted'[i] = Media(c, "none")
<1> DEFINE n == Len(posted)
           r == Retells(c)
<1>1. Status \in Posts /\ Media(c, "none") \in Posts
  BY PostsAre DEF Players
<1>2. /\ r \in Seq(Posts) /\ Len(r) \in 0..2
      /\ \A i \in 1..Len(r) : /\ phase[c] = "live"
                              /\ r[i] = Status \/ (r[i] = Media(c, "none") /\ ~HasApp(bar))
      /\ phase[c] = "live" /\ ~HasApp(bar) => Len(r) = 2 /\ r[2] = Media(c, "none")
  <2>1. CASE phase[c] # "live"
    <3>1. r = << >>
      BY <2>1 DEF Retells
    <3>2. QED
      BY <2>1, <3>1, EmptySeq
  <2>2. CASE phase[c] = "live" /\ HasApp(bar)
    <3>1. r = <<Status>> \o << >>
      BY <2>2 DEF Retells
    <3>2. r = <<Status>>
      BY <1>1, <3>1, ConcatEmptySeq
    <3>3. r \in Seq(Posts) /\ Len(r) = 1 /\ r[1] = Status
      BY <1>1, <3>2
    <3>4. QED
      BY <2>2, <3>3
  <2>3. CASE phase[c] = "live" /\ ~HasApp(bar)
    <3>1. r = <<Status>> \o <<Media(c, "none")>>
      BY <2>3 DEF Retells
    <3>2. PICK a : a = <<Status>>
      OBVIOUS
    <3>3. PICK m : m = <<Media(c, "none")>>
      OBVIOUS
    <3>4. a \in Seq(Posts) /\ Len(a) = 1 /\ a[1] = Status
      BY <1>1, <3>2
    <3>5. m \in Seq(Posts) /\ Len(m) = 1 /\ m[1] = Media(c, "none")
      BY <1>1, <3>3
    <3>6. /\ a \o m \in Seq(Posts) /\ Len(a \o m) = 2
          /\ (a \o m)[1] = a[1] /\ (a \o m)[2] = m[1]
      BY <3>4, <3>5, ConcatProperties
    <3>7. r \in Seq(Posts) /\ Len(r) = 2 /\ r[1] = Status /\ r[2] = Media(c, "none")
      BY <3>1, <3>2, <3>3, <3>6, <3>4, <3>5
    <3>8. QED
      BY <2>3, <3>7
  <2>4. QED
    BY <2>1, <2>2, <2>3
<1>3. posted' = posted \o r /\ posted \in Seq(Posts) /\ n \in Nat /\ DOMAIN posted = 1..n
  BY LenProperties DEF LinkBack, DevicesOK
<1> HIDE DEF r
<1>4. /\ posted' \in Seq(Posts) /\ Len(posted') = n + Len(r)
      /\ \A i \in 1..n + Len(r) : posted'[i] = IF i <= n THEN posted[i] ELSE r[i - n]
  BY <1>2, <1>3, ConcatProperties
<1>5. DOMAIN posted' = 1..Len(posted') /\ Len(posted') \in Nat /\ n <= Len(posted')
  BY <1>2, <1>3, <1>4, LenProperties
<1>6. \A i \in DOMAIN posted : posted'[i] = posted[i]
  BY <1>2, <1>3, <1>4
<1>7. ASSUME NEW i \in DOMAIN posted', i > n
      PROVE  /\ phase[c] = "live"
             /\ posted'[i] = Status \/ (posted'[i] = Media(c, "none") /\ ~HasApp(bar))
  <2>1. i - n \in 1..Len(r) /\ i \in 1..n + Len(r) /\ ~(i <= n)
    BY <1>2, <1>3, <1>4, <1>5, <1>7
  <2>2. posted'[i] = r[i - n]
    BY <1>4, <2>1
  <2>3. QED
    BY <1>2, <2>1, <2>2
<1>8. ASSUME phase[c] = "live", ~HasApp(bar)
      PROVE  \E i \in DOMAIN posted' : i > n /\ posted'[i] = Media(c, "none")
  <2>1. Len(r) = 2 /\ r[2] = Media(c, "none")
    BY <1>2, <1>8
  <2>2. n + 2 \in 1..n + Len(r) /\ ~(n + 2 <= n) /\ n + 2 - n = 2 /\ n + 2 > n
    BY <1>3, <2>1
  <2>3. n + 2 \in DOMAIN posted'
    BY <1>4, <1>5, <2>2
  <2>4. posted'[n + 2] = r[n + 2 - n]
    BY <1>4, <2>2
  <2>5. QED
    BY <2>2, <2>4, <2>1, <2>3
<1>9. QED
  BY <1>3, <1>4, <1>5, <1>6, <1>7, <1>8

LEMMA ListenEdgeTypes ==
  ASSUME TypeOK, NEW by \in {"cast", "air"}, NEW known, ListenEdge(by, known)
  PROVE  begun' \in Nat /\ alarms' \subseteq {"cast", "air"}
<1>1. begun \in Nat /\ alarms \subseteq {"cast", "air"}
  BY DEF HistoryOK
<1>2. begun' = begun \/ (begun' = begun - 1 /\ begun # 0)
  BY DEF ListenEdge, told
<1>3. alarms' = alarms \/ alarms' = alarms \cup {by}
  BY DEF ListenEdge, told
<1>4. begun' \in Nat
  BY <1>1, <1>2
<1>5. alarms' \subseteq {"cast", "air"}
  BY <1>1, <1>3
<1>6. QED
  BY <1>4, <1>5

LEMMA HandlesTypes ==
  ASSUME TypeOK, NEW kind, Handles(kind)
  PROVE  /\ posted # << >> /\ posted' = Tail(posted) /\ posted' \in Seq(Posts)
         /\ Head(posted) \in Posts /\ Head(posted).kind = kind
  BY HeadTailProperties DEF DevicesOK, Handles

LEMMA CallsTypes ==
  ASSUME TypeOK, calls # << >>
  PROVE  Tail(calls) \in Seq(Calls) /\ Head(calls) \in Calls
  BY HeadTailProperties DEF OrderOK

\* The devices and the threads.
LEMMA DevicesTyped ==
  ASSUME TypeOK, Outside \/ Threads \/ \E c \in Conns : ConnectionKept(c)
  PROVE  TypeOK'
<1> USE DEF vars, devices, view, initial, order, told, lapses, gaps
<1>1. CASE Used
  <2>1. PICK d \in Doings : Becomes(d)
    BY <1>1 DEF Used
  <2>11. DevicesOK'
    BY <1>1, <2>1, BecomesTypes DEF Used, Event, DevicesOK
  <2>12. ViewOK'
    BY <1>1 DEF Used, Event, ViewOK
  <2>13. OrderOK'
    BY <1>1 DEF Used, Event, OrderOK
  <2>14. HistoryOK'
    BY <1>1, <2>1, BecomesTypes DEF Used, Event, HistoryOK
  <2>15. ConnectionsOK'
    BY <1>1 DEF Used, Event, ConnectionsOK
  <2>20. QED
    BY <2>11, <2>12, <2>13, <2>14, <2>15
<1>2. CASE RecordRemoved
  <2>11. DevicesOK'
    BY <1>2, PostsAre, AppendProperties DEF RecordRemoved, Event, DevicesOK
  <2>12. ViewOK'
    BY <1>2 DEF RecordRemoved, Event, ViewOK
  <2>13. OrderOK'
    BY <1>2 DEF RecordRemoved, Event, OrderOK
  <2>14. HistoryOK'
    BY <1>2 DEF RecordRemoved, Event, HistoryOK
  <2>15. ConnectionsOK'
    BY <1>2 DEF RecordRemoved, Event, ConnectionsOK
  <2>20. QED
    BY <2>11, <2>12, <2>13, <2>14, <2>15
<1>3. CASE ResolveFails
  <2>11. DevicesOK'
    BY <1>3 DEF ResolveFails, Event, DevicesOK
  <2>12. ViewOK'
    BY <1>3 DEF ResolveFails, Event, ViewOK
  <2>13. OrderOK'
    BY <1>3 DEF ResolveFails, Event, OrderOK
  <2>14. HistoryOK'
    BY <1>3 DEF ResolveFails, Event, HistoryOK
  <2>15. ConnectionsOK'
    BY <1>3 DEF ResolveFails, Event, ConnectionsOK
  <2>20. QED
    BY <2>11, <2>12, <2>13, <2>14, <2>15
<1>4. CASE Resolved
  <2>1. Flags(IF HasAir(bar) THEN "on" ELSE "off") \in Posts
    BY PostsAre
  <2>11. DevicesOK'
    BY <1>4, <2>1, AppendProperties DEF Resolved, DevicesOK
  <2>12. ViewOK'
    BY <1>4 DEF Resolved, ViewOK
  <2>13. OrderOK'
    BY <1>4 DEF Resolved, OrderOK
  <2>14. HistoryOK'
    BY <1>4 DEF Resolved, HistoryOK
  <2>15. ConnectionsOK'
    BY <1>4 DEF Resolved, ConnectionsOK
  <2>20. QED
    BY <2>11, <2>12, <2>13, <2>14, <2>15
<1>5. ASSUME NEW c \in Conns, MediaAnswers(c) PROVE TypeOK'
  <2>1. Media(c, PlayerOf(bar)) \in Posts
    BY PostsAre, PlayersAre DEF DevicesOK
  <2>11. DevicesOK'
    BY <1>5, <2>1, AppendProperties DEF MediaAnswers, DevicesOK
  <2>12. ViewOK'
    BY <1>5 DEF MediaAnswers, ViewOK
  <2>13. OrderOK'
    BY <1>5 DEF MediaAnswers, OrderOK
  <2>14. HistoryOK'
    BY <1>5 DEF MediaAnswers, HistoryOK
  <2>15. ConnectionsOK'
    BY <1>5 DEF MediaAnswers, ConnectionsOK
  <2>20. QED
    BY <2>11, <2>12, <2>13, <2>14, <2>15
<1>6. ASSUME NEW c \in Conns, ConnectionMade(c) PROVE TypeOK'
  <2>11. DevicesOK'
    BY <1>6 DEF ConnectionMade, Conns, HasApp, DevicesOK
  <2>12. ViewOK'
    BY <1>6 DEF ConnectionMade, Conns, HasApp, ViewOK
  <2>13. OrderOK'
    BY <1>6 DEF ConnectionMade, Conns, HasApp, OrderOK
  <2>14. HistoryOK'
    BY <1>6 DEF ConnectionMade, Conns, HasApp, HistoryOK
  <2>15. ConnectionsOK'
    BY <1>6 DEF ConnectionMade, Conns, HasApp, DevicesOK, ConnectionsOK
  <2>20. QED
    BY <2>11, <2>12, <2>13, <2>14, <2>15
<1>7. ASSUME NEW c \in Conns, ConnectionKept(c) PROVE TypeOK'
  <2>11. DevicesOK'
    BY <1>7 DEF ConnectionKept, Conns, DevicesOK
  <2>12. ViewOK'
    BY <1>7 DEF ConnectionKept, Conns, ViewOK
  <2>13. OrderOK'
    BY <1>7 DEF ConnectionKept, Conns, OrderOK
  <2>14. HistoryOK'
    BY <1>7 DEF ConnectionKept, Conns, HistoryOK
  <2>15. ConnectionsOK'
    BY <1>7 DEF ConnectionKept, Conns, DevicesOK, ConnectionsOK
  <2>20. QED
    BY <2>11, <2>12, <2>13, <2>14, <2>15
<1>8. ASSUME NEW c \in Conns, LinkLost(c) PROVE TypeOK'
  <2>11. DevicesOK'
    BY <1>8 DEF LinkLost, Event, DevicesOK
  <2>12. ViewOK'
    BY <1>8 DEF LinkLost, Event, ViewOK
  <2>13. OrderOK'
    BY <1>8 DEF LinkLost, Event, OrderOK
  <2>14. HistoryOK'
    BY <1>8 DEF LinkLost, Event, DevicesOK, HistoryOK
  <2>15. ConnectionsOK'
    BY <1>8 DEF LinkLost, Event, ConnectionsOK
  <2>20. QED
    BY <2>11, <2>12, <2>13, <2>14, <2>15
<1>9. ASSUME NEW c \in Conns, LinkBack(c) PROVE TypeOK'
  <2>1. posted' \in Seq(Posts)
    BY <1>9, RetellsIs
  <2>2. HasApp(bar) \in BOOLEAN
    BY DEF HasApp
  <2>11. DevicesOK'
    BY <1>9, <2>1, <2>2 DEF LinkBack, DevicesOK
  <2>12. ViewOK'
    BY <1>9 DEF LinkBack, ViewOK
  <2>13. OrderOK'
    BY <1>9 DEF LinkBack, OrderOK
  <2>14. HistoryOK'
    BY <1>9 DEF LinkBack, HistoryOK
  <2>15. ConnectionsOK'
    BY <1>9 DEF LinkBack, ConnectionsOK
  <2>20. QED
    BY <2>11, <2>12, <2>13, <2>14, <2>15
<1>10. QED
  BY <1>1, <1>2, <1>3, <1>4, <1>5, <1>6, <1>7, <1>8, <1>9 DEF Outside, Threads

\* What the loop makes of it, and the deadlines.
LEMMA ViewTyped ==
  ASSUME TypeOK, Handlers \/ Deadlines
  PROVE  TypeOK'
<1> USE DEF vars, devices, view, initial, order, told, lapses, gaps
<1>1. CASE HandleCastStatus
  <2>1. AppOf(cast) \in BOOLEAN /\ "none" \in Players
    BY DEF AppOf, HasApp, Players
  <2>2. begun' \in Nat /\ alarms' \subseteq {"cast", "air"}
    BY <1>1, ListenEdgeTypes DEF HandleCastStatus, ApplyCast
  <2>11. DevicesOK'
    BY <1>1, HandlesTypes DEF HandleCastStatus, ApplyCast, DevicesOK
  <2>12. ViewOK'
    BY <1>1, <2>1 DEF HandleCastStatus, ApplyCast, ViewOK
  <2>13. OrderOK'
    BY <1>1 DEF HandleCastStatus, ApplyCast, OrderOK
  <2>14. HistoryOK'
    BY <1>1, <2>2 DEF HandleCastStatus, ApplyCast, HistoryOK
  <2>15. ConnectionsOK'
    BY <1>1 DEF HandleCastStatus, ApplyCast, ConnectionsOK
  <2>20. QED
    BY <2>11, <2>12, <2>13, <2>14, <2>15
<1>2. CASE HandleCastMedia
  <2>1. Head(posted).player \in Players
    BY <1>2, HandlesTypes, PostIs DEF HandleCastMedia
  <2>2. begun' \in Nat /\ alarms' \subseteq {"cast", "air"}
    <3>1. CASE Head(posted).by # cast
      BY <1>2, <3>1 DEF HandleCastMedia, HistoryOK
    <3>2. CASE Head(posted).by = cast
      BY <1>2, <3>2, ListenEdgeTypes DEF HandleCastMedia
    <3>3. QED
      BY <3>1, <3>2
  <2>11. DevicesOK'
    BY <1>2, HandlesTypes DEF HandleCastMedia, SayStatus, DevicesOK
  <2>12. ViewOK'
    BY <1>2, <2>1 DEF HandleCastMedia, SayStatus, ViewOK
  <2>13. OrderOK'
    BY <1>2 DEF HandleCastMedia, SayStatus, OrderOK
  <2>14. HistoryOK'
    BY <1>2, <2>2 DEF HandleCastMedia, SayStatus, HistoryOK
  <2>15. ConnectionsOK'
    BY <1>2 DEF HandleCastMedia, SayStatus, ConnectionsOK
  <2>20. QED
    BY <2>11, <2>12, <2>13, <2>14, <2>15
<1>3. CASE HandleAirplay
  <2>1. Head(posted).air \in {"none", "on", "off"}
    BY <1>3, HandlesTypes, PostIs DEF HandleAirplay
  <2>2. begun' \in Nat /\ alarms' \subseteq {"cast", "air"}
    BY <1>3, ListenEdgeTypes DEF HandleAirplay
  <2>11. DevicesOK'
    BY <1>3, HandlesTypes DEF HandleAirplay, DevicesOK
  <2>12. ViewOK'
    BY <1>3, <2>1 DEF HandleAirplay, ViewOK
  <2>13. OrderOK'
    BY <1>3 DEF HandleAirplay, OrderOK
  <2>14. HistoryOK'
    BY <1>3, <2>2 DEF HandleAirplay, HistoryOK
  <2>15. ConnectionsOK'
    BY <1>3 DEF HandleAirplay, ConnectionsOK
  <2>20. QED
    BY <2>11, <2>12, <2>13, <2>14, <2>15
<1>4. CASE Deadlines
  <2>11. DevicesOK'
    BY <1>4 DEF Deadlines, StatusWaitDeadline, AirplayInitialDeadline, MarkFailed, DevicesOK
  <2>12. ViewOK'
    BY <1>4 DEF Deadlines, StatusWaitDeadline, AirplayInitialDeadline, MarkFailed, ViewOK
  <2>13. OrderOK'
    BY <1>4 DEF Deadlines, StatusWaitDeadline, AirplayInitialDeadline, MarkFailed, OrderOK
  <2>14. HistoryOK'
    <3>1. begun' = begun \/ begun' = begun + 1
      BY <1>4 DEF Deadlines, StatusWaitDeadline, AirplayInitialDeadline, MarkFailed
    <3>2. UNCHANGED <<alarms, session, unreleased, gaps, events>>
      BY <1>4 DEF Deadlines, StatusWaitDeadline, AirplayInitialDeadline
    <3>3. QED
      BY <3>1, <3>2 DEF HistoryOK
  <2>15. ConnectionsOK'
    BY <1>4 DEF Deadlines, StatusWaitDeadline, AirplayInitialDeadline, MarkFailed, ConnectionsOK
  <2>20. QED
    BY <2>11, <2>12, <2>13, <2>14, <2>15
<1>5. QED
  BY <1>1, <1>2, <1>3, <1>4 DEF Handlers

LEMMA WatchdogTyped ==
  ASSUME TypeOK, Watchdog
  PROVE  TypeOK'
<1> USE DEF vars, devices, view, initial, order, told, lapses, gaps
<1>1. CASE RunnerConnects
  <2>11. DevicesOK'
    BY <1>1 DEF RunnerConnects, Conns, DevicesOK
  <2>12. ViewOK'
    BY <1>1 DEF RunnerConnects, Conns, ViewOK
  <2>13. OrderOK'
    BY <1>1 DEF RunnerConnects, Conns, OrderOK
  <2>14. HistoryOK'
    BY <1>1 DEF RunnerConnects, Conns, HistoryOK
  <2>15. ConnectionsOK'
    BY <1>1 DEF RunnerConnects, Conns, DevicesOK, ConnectionsOK
  <2>20. QED
    BY <2>11, <2>12, <2>13, <2>14, <2>15
<1>2. CASE RunnerConnectFails
  <2>11. DevicesOK'
    BY <1>2 DEF RunnerConnectFails, Event, MarkFailed, Conns, DevicesOK
  <2>12. ViewOK'
    BY <1>2 DEF RunnerConnectFails, Event, MarkFailed, Conns, ViewOK
  <2>13. OrderOK'
    BY <1>2 DEF RunnerConnectFails, Event, MarkFailed, Conns, OrderOK
  <2>14. HistoryOK'
    BY <1>2 DEF RunnerConnectFails, Event, MarkFailed, Conns, HistoryOK
  <2>15. ConnectionsOK'
    BY <1>2 DEF RunnerConnectFails, Event, MarkFailed, Conns, DevicesOK, ConnectionsOK
  <2>20. QED
    BY <2>11, <2>12, <2>13, <2>14, <2>15
<1>3. CASE RunnerReads
  <2>11. DevicesOK'
    BY <1>3 DEF RunnerReads, HasApp, DevicesOK
  <2>12. ViewOK'
    BY <1>3 DEF RunnerReads, AppOf, HasApp, ViewOK
  <2>13. OrderOK'
    BY <1>3 DEF RunnerReads, HasApp, OrderOK
  <2>14. HistoryOK'
    BY <1>3 DEF RunnerReads, HasApp, HistoryOK
  <2>15. ConnectionsOK'
    BY <1>3 DEF RunnerReads, HasApp, ConnectionsOK
  <2>20. QED
    BY <2>11, <2>12, <2>13, <2>14, <2>15
<1>4. CASE RunnerApplies
  <2>1. "none" \in Players
    BY DEF Players
  <2>2. begun' \in Nat /\ alarms' \subseteq {"cast", "air"}
    BY <1>4, ListenEdgeTypes DEF RunnerApplies, ApplyCast
  <2>11. DevicesOK'
    BY <1>4 DEF RunnerApplies, ApplyCast, SayStatus, DevicesOK
  <2>12. ViewOK'
    BY <1>4, <2>1 DEF RunnerApplies, ApplyCast, SayStatus, ViewOK
  <2>13. OrderOK'
    BY <1>4 DEF RunnerApplies, ApplyCast, SayStatus, OrderOK
  <2>14. HistoryOK'
    BY <1>4, <2>2 DEF RunnerApplies, ApplyCast, SayStatus, HistoryOK
  <2>15. ConnectionsOK'
    BY <1>4 DEF RunnerApplies, ApplyCast, SayStatus, ConnectionsOK
  <2>20. QED
    BY <2>11, <2>12, <2>13, <2>14, <2>15
<1>5. CASE WatchdogWakes
  <2>11. DevicesOK'
    BY <1>5 DEF WatchdogWakes, Event, DevicesOK
  <2>12. ViewOK'
    BY <1>5 DEF WatchdogWakes, Event, ViewOK
  <2>13. OrderOK'
    BY <1>5 DEF WatchdogWakes, Event, OrderOK
  <2>14. HistoryOK'
    BY <1>5 DEF WatchdogWakes, Event, HistoryOK
  <2>15. ConnectionsOK'
    BY <1>5 DEF WatchdogWakes, Event, ConnectionsOK
  <2>20. QED
    BY <2>11, <2>12, <2>13, <2>14, <2>15
<1>6. QED
  BY <1>1, <1>2, <1>3, <1>4, <1>5 DEF Watchdog

LEMMA CommandsTyped ==
  ASSUME TypeOK, CallsOK, Commanded
  PROVE  TypeOK'
<1> USE DEF vars, devices, view, initial, order, told, lapses, gaps
<1>1. CASE CommandCalled
  <2>1. PICK k \in Commands : calls' = Append(calls, [kind |-> k, airplay |-> airView = "on",
                                 known |-> IF k = "release" THEN KnownSession ELSE 0])
    BY <1>1 DEF CommandCalled
  <2>2. [kind |-> k, airplay |-> airView = "on", known |-> IF k = "release" THEN KnownSession ELSE 0] \in Calls
    BY DEF Calls, KnownSession, HistoryOK
  <2>3. calls' \in Seq(Calls)
    BY <2>1, <2>2, AppendProperties DEF OrderOK
  <2>11. DevicesOK'
    BY <1>1 DEF CommandCalled, Event, DevicesOK
  <2>12. ViewOK'
    BY <1>1 DEF CommandCalled, Event, ViewOK
  <2>13. OrderOK'
    BY <1>1, <2>3 DEF CommandCalled, Event, OrderOK
  <2>14. HistoryOK'
    BY <1>1 DEF CommandCalled, Event, HistoryOK
  <2>15. ConnectionsOK'
    BY <1>1 DEF CommandCalled, Event, ConnectionsOK
  <2>20. QED
    BY <2>11, <2>12, <2>13, <2>14, <2>15
<1>2. CASE CommandConnects
  <2>11. DevicesOK'
    BY <1>2 DEF CommandConnects, Conns, DevicesOK
  <2>12. ViewOK'
    BY <1>2 DEF CommandConnects, Conns, ViewOK
  <2>13. OrderOK'
    BY <1>2 DEF CommandConnects, Conns, OrderOK
  <2>14. HistoryOK'
    BY <1>2 DEF CommandConnects, Conns, HistoryOK
  <2>15. ConnectionsOK'
    BY <1>2 DEF CommandConnects, Conns, DevicesOK, ConnectionsOK
  <2>20. QED
    BY <2>11, <2>12, <2>13, <2>14, <2>15
<1>3. CASE CommandConnectFails
  <2>1. calls # << >>
    BY <1>3 DEF CommandConnectFails, CallsOK, ConnectionsOK
  <2>11. DevicesOK'
    BY <1>3 DEF CommandConnectFails, Event, Conns, DevicesOK
  <2>12. ViewOK'
    BY <1>3 DEF CommandConnectFails, Event, Conns, ViewOK
  <2>13. OrderOK'
    BY <1>3, <2>1, CallsTypes DEF CommandConnectFails, Event, Conns, OrderOK
  <2>14. HistoryOK'
    BY <1>3 DEF CommandConnectFails, Event, Conns, HistoryOK
  <2>15. ConnectionsOK'
    BY <1>3 DEF CommandConnectFails, Event, Conns, DevicesOK, ConnectionsOK
  <2>20. QED
    BY <2>11, <2>12, <2>13, <2>14, <2>15
<1>4. CASE PlayUrl
  <2>1. "playing" \in Doings /\ Becomes("playing")
    BY <1>4 DEF PlayUrl, Doings
  <2>11. DevicesOK'
    BY <1>4, <2>1, BecomesTypes DEF PlayUrl, Runs, Holds, DevicesOK
  <2>12. ViewOK'
    BY <1>4 DEF PlayUrl, Runs, Holds, ViewOK
  <2>13. OrderOK'
    BY <1>4, CallsTypes DEF PlayUrl, Runs, Holds, OrderOK
  <2>14. HistoryOK'
    BY <1>4, <2>1, BecomesTypes DEF PlayUrl, Runs, Holds, HistoryOK
  <2>15. ConnectionsOK'
    BY <1>4 DEF PlayUrl, Runs, Holds, ConnectionsOK
  <2>20. QED
    BY <2>11, <2>12, <2>13, <2>14, <2>15
<1>5. CASE StartApp
  <2>1. "idle" \in Doings /\ Becomes("idle")
    BY <1>5 DEF StartApp, Doings
  <2>11. DevicesOK'
    BY <1>5, <2>1, BecomesTypes DEF StartApp, Runs, Holds, DevicesOK
  <2>12. ViewOK'
    BY <1>5 DEF StartApp, Runs, Holds, ViewOK
  <2>13. OrderOK'
    BY <1>5 DEF StartApp, Runs, Holds, OrderOK
  <2>14. HistoryOK'
    BY <1>5, <2>1, BecomesTypes DEF StartApp, Runs, Holds, HistoryOK
  <2>15. ConnectionsOK'
    BY <1>5 DEF StartApp, Runs, Holds, ConnectionsOK
  <2>20. QED
    BY <2>11, <2>12, <2>13, <2>14, <2>15
<1>6. CASE QuitApp
  <2>1. PICK d \in Doings : Becomes(d)
    BY <1>6 DEF QuitApp, Doings
  <2>11. DevicesOK'
    BY <1>6, <2>1, BecomesTypes DEF QuitApp, Runs, Holds, Returns, Plays, DevicesOK
  <2>12. ViewOK'
    BY <1>6 DEF QuitApp, Runs, Holds, Returns, Plays, ViewOK
  <2>13. OrderOK'
    BY <1>6, CallsTypes DEF QuitApp, Runs, Holds, Returns, Plays, OrderOK
  <2>14. HistoryOK'
    BY <1>6, <2>1, BecomesTypes DEF QuitApp, Runs, Holds, Returns, Plays, HistoryOK
  <2>15. ConnectionsOK'
    BY <1>6 DEF QuitApp, Runs, Holds, Returns, Plays, ConnectionsOK
  <2>20. QED
    BY <2>11, <2>12, <2>13, <2>14, <2>15
<1>7. CASE NothingToRelease
  <2>11. DevicesOK'
    BY <1>7 DEF NothingToRelease, Runs, Holds, Returns, Plays, DevicesOK
  <2>12. ViewOK'
    BY <1>7 DEF NothingToRelease, Runs, Holds, Returns, Plays, ViewOK
  <2>13. OrderOK'
    BY <1>7, CallsTypes DEF NothingToRelease, Runs, Holds, Returns, Plays, OrderOK
  <2>14. HistoryOK'
    BY <1>7 DEF NothingToRelease, Runs, Holds, Returns, Plays, HistoryOK
  <2>15. ConnectionsOK'
    BY <1>7 DEF NothingToRelease, Runs, Holds, Returns, Plays, ConnectionsOK
  <2>20. QED
    BY <2>11, <2>12, <2>13, <2>14, <2>15
<1>8. CASE CommandFails
  <2>11. DevicesOK'
    BY <1>8 DEF CommandFails, Event, DevicesOK
  <2>12. ViewOK'
    BY <1>8 DEF CommandFails, Event, ViewOK
  <2>13. OrderOK'
    BY <1>8, CallsTypes DEF CommandFails, Event, OrderOK
  <2>14. HistoryOK'
    BY <1>8 DEF CommandFails, Event, HistoryOK
  <2>15. ConnectionsOK'
    BY <1>8 DEF CommandFails, Event, ConnectionsOK
  <2>20. QED
    BY <2>11, <2>12, <2>13, <2>14, <2>15
<1>9. QED
  BY <1>1, <1>2, <1>3, <1>4, <1>5, <1>6, <1>7, <1>8 DEF Commanded

(***************************************************************************)
(* Releases.                                                               *)
(***************************************************************************)
LEMMA CallsAre ==
  ASSUME TypeOK
  PROVE  /\ DOMAIN calls = 1..Len(calls) /\ Len(calls) \in Nat /\ session \in Nat
         /\ \A i \in DOMAIN calls : calls[i].known \in Nat
         /\ calls # << >> => Len(calls) > 0 /\ Head(calls) = calls[1] /\ 1 \in DOMAIN calls
<1>1. calls \in Seq(Calls)
  BY DEF OrderOK
<1>2. DOMAIN calls = 1..Len(calls) /\ Len(calls) \in Nat
  BY <1>1, LenProperties
<1>3. ASSUME NEW i \in DOMAIN calls PROVE calls[i].known \in Nat
  <2>1. calls[i] \in Calls
    BY <1>1, <1>2, ElementOfSeq
  <2>2. QED
    BY <2>1 DEF Calls
<1>4. calls # << >> => Len(calls) > 0
  BY <1>1, EmptySeq
<1>5. QED
  BY <1>1, <1>2, <1>3, <1>4 DEF HistoryOK

\* With a call less, what was so of the others is so.
LEMMA CallsTail ==
  ASSUME TypeOK, calls # << >>, calls' = Tail(calls)
  PROVE  \A i \in DOMAIN calls' : i + 1 \in DOMAIN calls /\ calls'[i] = calls[i + 1]
  BY HeadTailProperties, LenProperties, EmptySeq DEF OrderOK

\* A release that plays on plays something that has begun since it was called.
LEMMA BecomesReleases ==
  ASSUME TypeOK, ReleasesOK, NEW d \in Doings, Becomes(d)
  PROVE  /\ \A i \in DOMAIN calls : calls[i].known <= session'
         /\ \A i \in DOMAIN calls :
              calls[i].known # 0 /\ calls[i].known = session' /\ ~calls[i].airplay => ~HasAir(bar')
         /\ stage = "takeover" /\ Plays(bar') => Head(calls).known < session'
<1>1. bar' = d /\ session' = (IF Begins(d) THEN session + 1 ELSE session)
  BY DEF Becomes
<1>2. session \in Nat /\ session' \in Nat /\ session' >= session
  BY <1>1 DEF HistoryOK
<1>3. ASSUME NEW i \in DOMAIN calls PROVE calls[i].known <= session'
  <2>1. calls[i].known \in Nat
    BY CallsAre
  <2>2. calls[i].known <= session
    BY DEF ReleasesOK, CallsOK
  <2>3. QED
    BY <1>2, <2>1, <2>2
<1>4. ASSUME NEW i \in DOMAIN calls, calls[i].known # 0, calls[i].known = session', ~calls[i].airplay
      PROVE  ~HasAir(bar')
  <2>1. calls[i].known \in Nat /\ calls[i].known <= session
    BY CallsAre DEF ReleasesOK, CallsOK
  <2>2. calls[i].known = session /\ ~Begins(d)
    BY <1>1, <1>2, <1>4, <2>1
  <2>3. ~HasAir(bar)
    BY <1>4, <2>2 DEF ReleasesOK, OnlyLaterSessions
  <2>4. QED
    BY <1>1, <2>2, <2>3 DEF Begins
<1>5. ASSUME stage = "takeover", Plays(bar') PROVE Head(calls).known < session'
  <2>1. calls # << >>
    BY <1>5 DEF ReleasesOK, CallsOK
  <2>2. Head(calls).known \in Nat /\ Head(calls).known <= session
    BY <2>1, CallsAre DEF ReleasesOK, CallsOK
  <2>3. CASE Plays(bar)
    <3>1. Head(calls).known < session
      BY <1>5, <2>3 DEF ReleasesOK, OnlyLaterSessions
    <3>2. QED
      BY <1>2, <2>2, <3>1
  <2>4. CASE ~Plays(bar)
    <3>1. Begins(d)
      BY <1>1, <1>5, <2>4 DEF Plays, Begins
    <3>2. QED
      BY <1>1, <1>2, <2>2, <3>1
  <2>5. QED
    BY <2>3, <2>4
<1>6. QED
  BY <1>3, <1>4, <1>5

\* Whatever leaves the bar and the calls alone.
LEMMA OthersRelease ==
  ASSUME ReleasesOK, UNCHANGED <<bar, session, calls, stage, unreleased>>
  PROVE  ReleasesOK'
  BY DEF ReleasesOK, CallsOK, OnlyLaterSessions, ReleaseEnds

LEMMA CallsBecome ==
  ASSUME TypeOK, ReleasesOK, NEW d \in Doings, Becomes(d), UNCHANGED <<calls, stage, unreleased>>
  PROVE  ReleasesOK'
  BY BecomesReleases DEF ReleasesOK, CallsOK, OnlyLaterSessions, ReleaseEnds

\* A call is through, whatever came of it.
LEMMA CallOver ==
  ASSUME TypeOK, ReleasesOK, calls # << >>, calls' = Tail(calls), stage' = "queued", ~unreleased',
         \/ UNCHANGED <<bar, session>>
         \/ \E d \in Doings : Becomes(d)
  PROVE  ReleasesOK'
<1>1. \A i \in DOMAIN calls :
         /\ calls[i].known <= session'
         /\ calls[i].known # 0 /\ calls[i].known = session' /\ ~calls[i].airplay => ~HasAir(bar')
  <2>1. CASE UNCHANGED <<bar, session>>
    BY <2>1 DEF ReleasesOK, CallsOK, OnlyLaterSessions
  <2>2. CASE \E d \in Doings : Becomes(d)
    BY <2>2, BecomesReleases
  <2>3. QED
    BY <2>1, <2>2
<1>2. \A i \in DOMAIN calls' : i + 1 \in DOMAIN calls /\ calls'[i] = calls[i + 1]
  BY CallsTail
<1>3. QED
  BY <1>1, <1>2 DEF ReleasesOK, CallsOK, OnlyLaterSessions, ReleaseEnds

LEMMA CommandCalledReleases ==
  ASSUME TypeOK, ReleasesOK, CommandCalled
  PROVE  ReleasesOK'
<1>1. PICK k \in Commands : calls' = Append(calls, [kind |-> k, airplay |-> airView = "on",
                                 known |-> IF k = "release" THEN KnownSession ELSE 0])
  BY DEF CommandCalled
<1> DEFINE x == [kind |-> k, airplay |-> airView = "on", known |-> IF k = "release" THEN KnownSession ELSE 0]
           n == Len(calls)
<1>2. x.airplay = (airView = "on") /\ x.known = (IF k = "release" THEN KnownSession ELSE 0)
  OBVIOUS
<1>3. x \in Calls
  BY DEF Calls, KnownSession, HistoryOK
<1>4. UNCHANGED <<bar, session, stage, unreleased>>
  BY DEF CommandCalled, devices
<1> HIDE DEF x
<1>5. /\ calls' \in Seq(Calls) /\ Len(calls') = n + 1 /\ calls'[n + 1] = x
      /\ \A i \in 1..n : calls'[i] = calls[i]
  BY <1>1, <1>3, AppendProperties DEF OrderOK, x
<1>6. DOMAIN calls' = 1..(n + 1) /\ DOMAIN calls = 1..n /\ n \in Nat /\ session \in Nat
  BY <1>5, CallsAre, LenProperties
<1>7. x.known = 0 \/ (x.known = session /\ x.airplay = HasAir(bar))
  BY <1>2 DEF KnownSession
<1>8. CallsOK'
  <2>1. stage' # "queued" => calls' # << >>
    BY <1>5, <1>6, EmptySeq
  <2>2. ASSUME NEW i \in DOMAIN calls' PROVE calls'[i].known <= session'
    <3>1. CASE i = n + 1
      BY <1>4, <1>5, <1>6, <1>7, <3>1
    <3>2. CASE i \in 1..n
      BY <1>4, <1>5, <1>6, <3>2 DEF ReleasesOK, CallsOK
    <3>3. QED
      BY <1>6, <3>1, <3>2
  <2>3. QED
    BY <2>1, <2>2 DEF CallsOK
<1>9. OnlyLaterSessions'
  <2>1. ASSUME NEW i \in DOMAIN calls', calls'[i].known # 0, calls'[i].known = session', ~calls'[i].airplay
        PROVE  ~HasAir(bar')
    <3>1. CASE i = n + 1
      BY <1>4, <1>5, <1>7, <2>1, <3>1
    <3>2. CASE i \in 1..n
      BY <1>4, <1>5, <1>6, <2>1, <3>2 DEF ReleasesOK, OnlyLaterSessions
    <3>3. QED
      BY <1>6, <3>1, <3>2
  <2>2. ASSUME stage' = "takeover", Plays(bar)' PROVE Head(calls').known < session'
    <3>1. calls # << >>
      BY <1>4, <2>2 DEF ReleasesOK, CallsOK
    <3>2. Head(calls) = calls[1] /\ Head(calls') = calls'[1] /\ 1 \in 1..n
      BY <1>5, <1>6, <3>1, CallsAre, EmptySeq
    <3>3. Head(calls).known < session
      BY <1>4, <2>2 DEF ReleasesOK, OnlyLaterSessions
    <3>4. QED
      BY <1>4, <1>5, <3>2, <3>3
  <2>3. QED
    BY <2>1, <2>2 DEF OnlyLaterSessions
<1>10. QED
  BY <1>4, <1>8, <1>9 DEF ReleasesOK, ReleaseEnds

\* When a release returns, what it knew of is over.
LEMMA ReleaseReturns ==
  ASSUME TypeOK, ReleasesOK, QuitApp \/ NothingToRelease
  PROVE  ReleasesOK'
<1>1. CASE QuitApp
  <2>1. PICK d \in Doings : d = (IF HasAir(bar) THEN "airplay" ELSE "tv") /\ Becomes(d)
    BY <1>1 DEF QuitApp, Doings
  <2>2. bar' = d /\ bar \in Doings
    BY <2>1 DEF Becomes, DevicesOK
  <2>3. calls # << >> /\ Returns
    BY <1>1 DEF QuitApp, Runs, Holds
  <2>4. ASSUME Head(calls).known # 0, Head(calls).known = session', Plays(bar') PROVE FALSE
    <3>1. HasAir(bar)
      BY <2>1, <2>2, <2>4 DEF Plays, HasAir
    <3>2. HasAir(bar') /\ Plays(bar)
      BY <3>1, <2>1, <2>2 DEF HasAir, Plays
    <3>3. CASE stage = "takeover"
      BY <2>1, <2>3, <2>4, <3>3, BecomesReleases, CallsAre DEF HistoryOK
    <3>4. CASE ~Head(calls).airplay
      BY <2>1, <2>3, <2>4, <3>2, <3>4, BecomesReleases, CallsAre
    <3>5. QED
      BY <1>1, <3>3, <3>4 DEF QuitApp
  <2>5. ~unreleased'
    BY <2>3, <2>4 DEF Returns, ReleasesOK, ReleaseEnds
  <2>6. QED
    BY <2>1, <2>3, <2>5, CallOver DEF Returns
<1>2. CASE NothingToRelease
  <2>1. /\ calls # << >> /\ Returns /\ UNCHANGED <<bar, session>> /\ bar \in Doings
        /\ ~Head(calls).airplay /\ (Reaches => ~HasApp(bar))
    BY <1>2 DEF NothingToRelease, Runs, Holds, Reaches, AppOf, Lost, devices, DevicesOK
  <2>2. ~(Head(calls).known # 0 /\ Reaches /\ Head(calls).known = session' /\ Plays(bar'))
    BY <2>1, CallsAre DEF ReleasesOK, OnlyLaterSessions, Plays, HasApp
  <2>3. ~unreleased'
    BY <2>1, <2>2 DEF Returns, ReleasesOK, ReleaseEnds
  <2>4. QED
    BY <2>1, <2>3, CallOver DEF Returns
<1>3. QED
  BY <1>1, <1>2

LEMMA CommandsRelease ==
  ASSUME TypeOK, ReleasesOK, Commanded
  PROVE  ReleasesOK'
<1>1. CASE CommandConnects
  <2>1. calls # << >> /\ stage' = "opening" /\ UNCHANGED <<bar, session, calls, unreleased>>
    BY <1>1 DEF CommandConnects
  <2>2. QED
    BY <2>1 DEF ReleasesOK, CallsOK, OnlyLaterSessions, ReleaseEnds
<1>2. CASE CommandConnectFails
  <2>1. calls # << >>
    BY <1>2 DEF CommandConnectFails, ReleasesOK, CallsOK, ConnectionsOK
  <2>2. QED
    BY <1>2, <2>1, CallOver DEF CommandConnectFails, ReleasesOK, ReleaseEnds
<1>3. CASE PlayUrl
  <2>1. "playing" \in Doings /\ Becomes("playing") /\ calls # << >> /\ calls' = Tail(calls)
        /\ stage' = "queued" /\ unreleased' = unreleased
    BY <1>3 DEF PlayUrl, Runs, Holds, Doings
  <2>2. QED
    BY <2>1, CallOver DEF ReleasesOK, ReleaseEnds
<1>4. CASE StartApp
  <2>1. "idle" \in Doings /\ Becomes("idle") /\ calls # << >> /\ UNCHANGED <<calls, unreleased>> /\ bar' = "idle"
    BY <1>4 DEF StartApp, Runs, Holds, Doings, Becomes
  <2>2. ~Plays(bar')
    BY <2>1 DEF Plays, HasAir
  <2>3. QED
    BY <2>1, <2>2, BecomesReleases DEF ReleasesOK, CallsOK, OnlyLaterSessions, ReleaseEnds
<1>5. CASE CommandFails
  <2>1. calls # << >> /\ calls' = Tail(calls) /\ stage' = "queued" /\ UNCHANGED <<bar, session, unreleased>>
    BY <1>5 DEF CommandFails, devices
  <2>2. QED
    BY <2>1, CallOver DEF ReleasesOK, ReleaseEnds
<1>6. QED
  BY <1>1, <1>2, <1>3, <1>4, <1>5, CommandCalledReleases, ReleaseReturns DEF Commanded

LEMMA StepsRelease ==
  ASSUME TypeOK, ReleasesOK, Next
  PROVE  ReleasesOK'
<1> USE DEF devices, order
<1>1. CASE Outside
  <2>1. CASE Used
    BY <2>1, CallsBecome DEF Used
  <2>2. CASE RecordRemoved \/ ResolveFails
    BY <2>2, OthersRelease DEF RecordRemoved, ResolveFails
  <2>3. ASSUME NEW c \in Conns, LinkLost(c) \/ LinkBack(c) PROVE ReleasesOK'
    BY <2>3, OthersRelease DEF LinkLost, LinkBack
  <2>4. QED
    BY <1>1, <2>1, <2>2, <2>3 DEF Outside
<1>2. CASE Threads
  BY <1>2, OthersRelease DEF Threads, Resolved, MediaAnswers, ConnectionMade
<1>3. CASE Handlers
  BY <1>3, OthersRelease DEF Handlers, HandleCastStatus, HandleCastMedia, HandleAirplay
<1>4. CASE Deadlines
  BY <1>4, OthersRelease DEF Deadlines, StatusWaitDeadline, AirplayInitialDeadline
<1>5. CASE Watchdog
  BY <1>5, OthersRelease DEF Watchdog, RunnerConnects, RunnerConnectFails, RunnerReads, RunnerApplies, WatchdogWakes
<1>6. ASSUME NEW c \in Conns, ConnectionKept(c) PROVE ReleasesOK'
  <2>1. UNCHANGED <<bar, session, calls, unreleased>>
    BY <1>6 DEF ConnectionKept
  <2>2. stage' = stage \/ stage' = "queued"
    BY <1>6 DEF ConnectionKept
  <2>3. QED
    BY <2>1, <2>2 DEF ReleasesOK, CallsOK, OnlyLaterSessions, ReleaseEnds
<1>7. QED
  BY <1>1, <1>2, <1>3, <1>4, <1>5, <1>6, CommandsRelease DEF Next

(***************************************************************************)
(* The mirror.                                                             *)
(***************************************************************************)
LEMMA OthersMirror ==
  ASSUME MirrorOK, UNCHANGED <<bar, phase, asked, lost, resolve, posted, cast, view, due, staleApp, wiped, deaf, missedAir>>,
         runner' \in {"read", "apply", "wait"} => cast # "none",
         runner' = "wait" => due # "never"
  PROVE  MirrorOK'
<1> USE DEF MirrorOK, view
<1>1. Started'
  BY DEF Started
<1>2. AirComes' /\ AppComes'
  BY DEF AirComes, AppComes, Newest, StatusComes
<1>3. MediaIsTrue' /\ AskedOrDeaf'
  BY DEF MediaIsTrue, AskedOrDeaf, NewestOf, IsMedia, AppOf, Lost
<1>4. ForgotIsTold' /\ PlayerIsTold'
  BY DEF ForgotIsTold, PlayerIsTold, Told, StatusComes, BothCome, MediaComes, IsMedia
<1>5. QED
  BY <1>1, <1>2, <1>3, <1>4

\* What is on its way stays so when something is posted, ...
LEMMA ComesOn ==
  ASSUME posted \in Seq(Posts), Len(posted) \in Nat,
         DOMAIN posted \subseteq DOMAIN posted', \A i \in DOMAIN posted : posted'[i] = posted[i]
  PROVE  /\ StatusComes => StatusComes'
         /\ \A c \in Conns : (MediaComes(c) => MediaComes(c)') /\ (BothCome(c) => BothCome(c)')
<1>1. StatusComes => StatusComes'
  BY DEF StatusComes
<1>2. ASSUME NEW c \in Conns PROVE (MediaComes(c) => MediaComes(c)') /\ (BothCome(c) => BothCome(c)')
  BY DEF MediaComes, BothCome, IsMedia
<1>3. QED
  BY <1>1, <1>2

\* ... and when the loop takes something else.
LEMMA ComesAfter ==
  ASSUME TypeOK, posted # << >>, posted' = Tail(posted)
  PROVE  /\ Head(posted).kind # "status" /\ StatusComes => StatusComes'
         /\ \A c \in Conns : ~IsMedia(Head(posted), c) /\ MediaComes(c) => MediaComes(c)'
         /\ \A c \in Conns : Head(posted).kind # "status" /\ BothCome(c) => BothCome(c)'
         /\ \A c \in Conns : BothCome(c) => MediaComes(c)'
<1>1. /\ Len(posted) \in Nat /\ Len(posted) > 0
      /\ DOMAIN posted = 1..Len(posted) /\ DOMAIN posted' = 1..(Len(posted) - 1)
      /\ Head(posted) = posted[1]
      /\ \A i \in DOMAIN posted' : posted'[i] = posted[i + 1]
  BY TailIs DEF DevicesOK
<1>2. \A i \in DOMAIN posted : i # 1 => i - 1 \in DOMAIN posted' /\ posted'[i - 1] = posted[i]
  <2> SUFFICES ASSUME NEW i \in DOMAIN posted, i # 1 PROVE i - 1 \in DOMAIN posted' /\ posted'[i - 1] = posted[i]
    OBVIOUS
  <2>1. i - 1 \in 1..(Len(posted) - 1) /\ (i - 1) + 1 = i
    BY <1>1
  <2>2. QED
    BY <1>1, <2>1
<1>3. ASSUME Head(posted).kind # "status", StatusComes PROVE StatusComes'
  BY <1>1, <1>2, <1>3 DEF StatusComes
<1>4. ASSUME NEW c \in Conns, ~IsMedia(Head(posted), c), MediaComes(c) PROVE MediaComes(c)'
  BY <1>1, <1>2, <1>4 DEF MediaComes, IsMedia
<1>5. ASSUME NEW c \in Conns, BothCome(c)
      PROVE  MediaComes(c)' /\ (Head(posted).kind # "status" => BothCome(c)')
  <2>1. PICK i \in DOMAIN posted, j \in DOMAIN posted : i < j /\ posted[i].kind = "status" /\ IsMedia(posted[j], c)
    BY <1>5 DEF BothCome
  <2>2. j # 1 /\ j - 1 \in DOMAIN posted' /\ posted'[j - 1] = posted[j]
    BY <1>1, <1>2, <2>1
  <2>3. MediaComes(c)'
    BY <2>1, <2>2 DEF MediaComes, IsMedia
  <2>4. ASSUME Head(posted).kind # "status" PROVE BothCome(c)'
    <3>1. i # 1
      BY <1>1, <2>1, <2>4
    <3>2. i - 1 \in DOMAIN posted' /\ posted'[i - 1] = posted[i] /\ i - 1 < j - 1
      BY <1>1, <1>2, <2>1, <3>1
    <3>3. PICK m \in DOMAIN posted', l \in DOMAIN posted' : m = i - 1 /\ l = j - 1
      BY <2>2, <3>2
    <3>4. QED
      BY <2>1, <2>2, <3>2, <3>3 DEF BothCome, IsMedia
  <2>5. QED
    BY <2>3, <2>4
<1>6. QED
  BY <1>3, <1>4, <1>5

\* What is true of the newest is true of it one place further.
LEMMA TailMedia ==
  ASSUME TypeOK, MediaIsTrue, posted # << >>, posted' = Tail(posted), UNCHANGED <<bar, phase, lost, deaf>>
  PROVE  MediaIsTrue'
<1>1. /\ Len(posted) \in Nat /\ Len(posted) > 0
      /\ DOMAIN posted = 1..Len(posted) /\ DOMAIN posted' = 1..(Len(posted) - 1)
      /\ \A i \in DOMAIN posted' : posted'[i] = posted[i + 1]
  BY TailIs DEF DevicesOK
<1> SUFFICES ASSUME NEW c \in Conns, NEW i \in DOMAIN posted', IsMedia(posted'[i], c)
             PROVE  /\ phase[c] = "live"
                    /\ NewestOf(c, i)' /\ ~deaf[c] => posted'[i].player = PlayerOf(bar)
                    /\ NewestOf(c, i)' /\ ~AppOf(c) => posted'[i].player = "none"
  BY DEF MediaIsTrue, IsMedia, AppOf
<1>2. i + 1 \in DOMAIN posted /\ posted'[i] = posted[i + 1] /\ IsMedia(posted[i + 1], c)
  BY <1>1 DEF IsMedia
<1>3. /\ phase[c] = "live"
      /\ NewestOf(c, i + 1) /\ ~deaf[c] => posted[i + 1].player = PlayerOf(bar)
      /\ NewestOf(c, i + 1) /\ ~AppOf(c) => posted[i + 1].player = "none"
  BY <1>2 DEF MediaIsTrue
<1>4. ASSUME NewestOf(c, i)' PROVE NewestOf(c, i + 1)
  <2> SUFFICES ASSUME NEW j \in DOMAIN posted, j > i + 1 PROVE ~IsMedia(posted[j], c)
    BY DEF NewestOf
  <2>1. j - 1 \in DOMAIN posted' /\ j - 1 > i /\ posted'[j - 1] = posted[j]
    BY <1>1
  <2>2. QED
    BY <1>4, <2>1 DEF NewestOf, IsMedia
<1>5. QED
  BY <1>2, <1>3, <1>4

LEMMA TailAir ==
  ASSUME TypeOK, AirComes, posted # << >>, posted' = Tail(posted), UNCHANGED <<bar, resolve, missedAir>>,
         airView' = IF Head(posted).kind = "flags" THEN Head(posted).air ELSE airView
  PROVE  AirComes'
<1>1. /\ Len(posted) \in Nat /\ Len(posted) > 0
      /\ DOMAIN posted = 1..Len(posted) /\ DOMAIN posted' = 1..(Len(posted) - 1)
      /\ Head(posted) = posted[1]
      /\ \A i \in DOMAIN posted' : posted'[i] = posted[i + 1]
  BY TailIs DEF DevicesOK
<1> SUFFICES ASSUME ~resolve, ~missedAir
             PROVE  /\ (\A i \in DOMAIN posted' : posted'[i].kind # "flags") => (airView' = "on" <=> HasAir(bar))
                    /\ \A i \in DOMAIN posted' :
                         posted'[i].kind = "flags" /\ Newest(i)' => (posted'[i].air = "on" <=> HasAir(bar))
  BY DEF AirComes, HasAir
<1>2. \A i \in DOMAIN posted : i # 1 => i - 1 \in DOMAIN posted' /\ posted'[i - 1] = posted[i]
  <2> SUFFICES ASSUME NEW i \in DOMAIN posted, i # 1 PROVE i - 1 \in DOMAIN posted' /\ posted'[i - 1] = posted[i]
    OBVIOUS
  <2>1. i - 1 \in 1..(Len(posted) - 1) /\ (i - 1) + 1 = i
    BY <1>1
  <2>2. QED
    BY <1>1, <2>1
<1>3. ASSUME \A i \in DOMAIN posted' : posted'[i].kind # "flags"
      PROVE  airView' = "on" <=> HasAir(bar)
  <2>1. \A i \in DOMAIN posted : i # 1 => posted[i].kind # "flags"
    BY <1>2, <1>3
  <2>2. 1 \in DOMAIN posted
    BY <1>1
  <2>3. CASE Head(posted).kind = "flags"
    <3>1. Newest(1)
      BY <1>1, <2>1, <2>3 DEF Newest
    <3>2. QED
      BY <1>1, <2>2, <2>3, <3>1 DEF AirComes
  <2>4. CASE Head(posted).kind # "flags"
    BY <1>1, <2>1, <2>4 DEF AirComes
  <2>5. QED
    BY <2>3, <2>4
<1>4. ASSUME NEW i \in DOMAIN posted', posted'[i].kind = "flags", Newest(i)'
      PROVE  posted'[i].air = "on" <=> HasAir(bar)
  <2>1. i + 1 \in DOMAIN posted /\ posted'[i] = posted[i + 1]
    BY <1>1
  <2>2. Newest(i + 1)
    <3> SUFFICES ASSUME NEW j \in DOMAIN posted, j > i + 1 PROVE posted[j].kind # posted[i + 1].kind
      BY DEF Newest
    <3>1. j - 1 \in DOMAIN posted' /\ j - 1 > i /\ posted'[j - 1] = posted[j]
      BY <1>1, <1>2
    <3>2. QED
      BY <1>4, <2>1, <3>1 DEF Newest
  <2>3. QED
    BY <1>4, <2>1, <2>2 DEF AirComes
<1>5. QED
  BY <1>3, <1>4

\* The bar does something else, and who is listened to says so.
LEMMA BecomesMirror ==
  ASSUME TypeOK, MirrorOK, NEW d \in Doings, Becomes(d),
         UNCHANGED <<phase, asked, lost, cast, view, runner, due, wiped, missedAir>>
  PROVE  MirrorOK'
<1> USE DEF MirrorOK, view
<1>1. /\ Len(posted) \in Nat /\ Len(posted') \in Nat /\ Len(posted) <= Len(posted')
      /\ DOMAIN posted = 1..Len(posted) /\ DOMAIN posted' = 1..Len(posted')
      /\ \A i \in DOMAIN posted : posted'[i] = posted[i]
      /\ PlayerOf(d) = PlayerOf(bar) => posted' = posted /\ HasApp(d) = HasApp(bar)
  BY BecomesIs
<1>2. \A i \in DOMAIN posted' : i > Len(posted) =>
              \/ posted'[i] = Status /\ HasApp(d) # HasApp(bar)
              \/ \E c \in Conns : Hears(c) /\ posted'[i] = Media(c, PlayerOf(d))
  BY BecomesIs
<1>3. PlayerOf(d) # PlayerOf(bar) => \A c \in Conns : Hears(c) =>
              \E i \in DOMAIN posted' :
                 /\ i > Len(posted) /\ posted'[i] = Media(c, PlayerOf(d))
                 /\ HasApp(d) # HasApp(bar) => i - 1 > Len(posted) /\ posted'[i - 1] = Status
  BY BecomesIs
<1>4. /\ bar' = d /\ bar \in Doings /\ posted \in Seq(Posts) /\ DOMAIN posted \subseteq DOMAIN posted'
      /\ cast # "none" => cast \in Conns /\ phase[cast] = "live"
      /\ phase' = phase /\ asked' = asked /\ lost' = lost /\ cast' = cast
      /\ \A c : Lost(c)' <=> Lost(c)
  <2>1. DOMAIN posted \subseteq DOMAIN posted'
    BY <1>1
  <2>2. bar' = d /\ bar \in Doings /\ posted \in Seq(Posts)
    BY DEF Becomes, DevicesOK
  <2>3. cast # "none" => cast \in Conns /\ phase[cast] = "live"
    BY DEF DevicesOK, ConnectionsOK
  <2>4. \A c : Lost(c)' <=> Lost(c)
    BY DEF Lost
  <2>5. QED
    BY <2>1, <2>2, <2>3, <2>4
<1>5. \A i \in DOMAIN posted' : i <= Len(posted) => i \in DOMAIN posted
  BY <1>1
<1>6. Started'
  BY DEF Started
<1>7. AirComes'
  <2> SUFFICES ASSUME ~resolve', ~missedAir
               PROVE  /\ (\A i \in DOMAIN posted' : posted'[i].kind # "flags") => (airView = "on" <=> HasAir(d))
                      /\ \A i \in DOMAIN posted' :
                           posted'[i].kind = "flags" /\ Newest(i)' => (posted'[i].air = "on" <=> HasAir(d))
    BY <1>4 DEF AirComes, HasAir
  <2>1. ~resolve /\ (HasAir(d) <=> HasAir(bar))
    BY DEF Becomes, HasAir
  <2>2. \A i \in DOMAIN posted' : posted'[i].kind = "flags" => i \in DOMAIN posted
    BY <1>1, <1>2, <1>5, KindsAre
  <2>3. \A i \in DOMAIN posted : Newest(i)' => Newest(i)
    BY <1>1, <1>4 DEF Newest
  <2>4. QED
    BY <1>1, <1>4, <2>1, <2>2, <2>3 DEF AirComes
<1>8. AppComes'
  <2> SUFFICES ASSUME ~staleApp', due # "never" PROVE appView = HasApp(d) \/ StatusComes'
    BY <1>4 DEF AppComes, HasApp
  <2>1. ~staleApp /\ ~(Lost(cast) /\ HasApp(d) # HasApp(bar))
    BY DEF Becomes
  <2>2. CASE HasApp(d) = HasApp(bar)
    BY <1>1, <1>4, <2>2, <2>1, ComesOn DEF AppComes
  <2>3. CASE HasApp(d) # HasApp(bar)
    <3>1. cast \in Conns /\ Hears(cast) /\ PlayerOf(d) # PlayerOf(bar)
      BY <1>1, <1>4, <2>3, <2>1 DEF Started, Hears
    <3>2. PICK i \in DOMAIN posted' : i - 1 > Len(posted) /\ posted'[i - 1] = Status
      BY <1>3, <2>3, <3>1
    <3>3. i - 1 \in DOMAIN posted'
      BY <1>1, <3>2
    <3>4. QED
      BY <3>2, <3>3, KindsAre DEF StatusComes
  <2>4. QED
    BY <2>2, <2>3
<1>9. deaf' = [c \in Conns |-> IF PlayerOf(d) = PlayerOf(bar) THEN deaf[c] ELSE phase[c] = "made" \/ Lost(c)]
  BY DEF Becomes
<1>10. MediaIsTrue'
  <2> SUFFICES ASSUME NEW c \in Conns, NEW i \in DOMAIN posted', IsMedia(posted'[i], c)
               PROVE  /\ phase[c] = "live"
                      /\ NewestOf(c, i)' /\ ~deaf'[c] => posted'[i].player = PlayerOf(d)
                      /\ NewestOf(c, i)' /\ ~AppOf(c)' => posted'[i].player = "none"
    BY <1>4 DEF MediaIsTrue, IsMedia, PlayerOf, HasApp
  <2>1. Hears(c) /\ ~AppOf(c)' => PlayerOf(d) = "none"
    BY <1>4, PlayersAre DEF AppOf, Hears, Lost, Conns, HasApp
  <2>2. CASE i > Len(posted)
    <3>1. Hears(c) /\ posted'[i].player = PlayerOf(d)
      BY <1>2, <2>2, KindsAre DEF IsMedia
    <3>2. QED
      BY <2>1, <3>1 DEF Hears
  <2>3. CASE ~(i > Len(posted))
    <3>1. i \in DOMAIN posted /\ posted'[i] = posted[i]
      BY <1>1, <1>5, <2>3
    <3>2. /\ phase[c] = "live"
          /\ NewestOf(c, i) /\ ~deaf[c] => posted[i].player = PlayerOf(bar)
          /\ NewestOf(c, i) /\ ~AppOf(c) => posted[i].player = "none"
      BY <3>1 DEF MediaIsTrue, IsMedia
    <3>3. NewestOf(c, i)' => NewestOf(c, i)
      BY <1>1, <1>4 DEF NewestOf, IsMedia
    <3>4. CASE PlayerOf(d) = PlayerOf(bar)
      <4>1. AppOf(c)' <=> AppOf(c)
        BY <1>1, <1>4, <3>4 DEF AppOf, HasApp
      <4>2. QED
        BY <1>9, <3>1, <3>2, <3>4, <3>3, <4>1
    <3>5. CASE Lost(c) /\ PlayerOf(d) # PlayerOf(bar)
      <4>1. (AppOf(c)' <=> AppOf(c)) /\ deaf'[c]
        BY <1>4, <1>9, <3>5 DEF AppOf, Lost
      <4>2. QED
        BY <3>1, <3>2, <3>3, <4>1
    <3>6. CASE ~Lost(c) /\ PlayerOf(d) # PlayerOf(bar)
      <4>1. Hears(c)
        BY <3>2, <3>6 DEF Hears
      <4>2. PICK j \in DOMAIN posted' : j > Len(posted) /\ posted'[j] = Media(c, PlayerOf(d))
        BY <1>3, <3>6, <4>1
      <4>3. j > i /\ IsMedia(posted'[j], c)
        BY <1>1, <2>3, <4>2, KindsAre DEF IsMedia
      <4>4. ~NewestOf(c, i)'
        BY <4>3 DEF NewestOf, IsMedia
      <4>5. QED
        BY <3>2, <4>4
    <3>7. QED
      BY <3>4, <3>5, <3>6
  <2>4. QED
    BY <2>2, <2>3
<1>11. AskedOrDeaf'
  <2> SUFFICES ASSUME NEW c \in Conns
               PROVE  /\ phase[c] \in {"none", "opening"} \/ Lost(c) => ~asked[c]
                      /\ Lost(c) => phase[c] \in {"made", "live"}
                      /\ phase[c] = "made" /\ HasApp(d) => asked[c] \/ deaf'[c]
    BY <1>4 DEF AskedOrDeaf, HasApp
  <2>1. CASE PlayerOf(d) = PlayerOf(bar)
    BY <1>1, <1>9, <2>1 DEF AskedOrDeaf
  <2>2. CASE PlayerOf(d) # PlayerOf(bar)
    BY <1>9, <2>2 DEF AskedOrDeaf
  <2>3. QED
    BY <2>1, <2>2
<1>12. CASE PlayerOf(d) = PlayerOf(bar)
  <2>1. posted' = posted /\ Told' = Told /\ PlayerOf(bar') = PlayerOf(bar)
    <3>1. posted' = posted /\ HasApp(d) = HasApp(bar) /\ (cast # "none" => deaf'[cast] = deaf[cast])
      BY <1>1, <1>4, <1>9, <1>12
    <3>2. QED
      BY <1>4, <1>12, <3>1 DEF Told, HasApp, PlayerOf
  <2>2. ForgotIsTold' /\ PlayerIsTold'
    <3>1. ~staleApp' => ~staleApp
      BY DEF Becomes
    <3>2. QED
      BY <1>4, <2>1, <3>1 DEF ForgotIsTold, PlayerIsTold, StatusComes, BothCome, MediaComes, IsMedia, PlayerOf, HasApp
  <2>3. QED
    BY <1>6, <1>7, <1>8, <1>10, <1>11, <2>2
<1>13. CASE PlayerOf(d) # PlayerOf(bar)
  <2>1. ASSUME cast # "none", ~Lost(cast)
        PROVE  MediaComes(cast)' /\ (StatusComes' => BothCome(cast)')
    <3>1. PICK j \in DOMAIN posted' : /\ j > Len(posted) /\ posted'[j] = Media(cast, PlayerOf(d))
                                      /\ HasApp(d) # HasApp(bar) => j - 1 > Len(posted) /\ posted'[j - 1] = Status
      BY <1>3, <1>4, <1>13, <2>1 DEF Hears
    <3>2. IsMedia(posted'[j], cast')
      BY <1>4, <3>1, KindsAre DEF IsMedia
    <3>3. MediaComes(cast)'
      BY <3>2 DEF MediaComes, IsMedia
    <3>4. ASSUME StatusComes' PROVE BothCome(cast)'
      <4>1. CASE HasApp(d) # HasApp(bar)
        <5>1. PICK i \in DOMAIN posted' : i = j - 1
          BY <1>1, <3>1, <4>1
        <5>2. i < j /\ posted'[i].kind = "status"
          BY <1>1, <3>1, <4>1, <5>1, KindsAre
        <5>3. QED
          BY <3>2, <5>2 DEF BothCome, IsMedia
      <4>2. CASE HasApp(d) = HasApp(bar)
        <5>1. PICK i \in DOMAIN posted' : posted'[i].kind = "status"
          BY <3>4 DEF StatusComes
        <5>2. ~(i > Len(posted))
          BY <1>2, <4>2, <5>1, KindsAre
        <5>3. i < j
          BY <1>1, <3>1, <5>2
        <5>4. QED
          BY <3>2, <5>1, <5>3 DEF BothCome, IsMedia
      <4>3. QED
        BY <4>1, <4>2
    <3>5. QED
      BY <3>3, <3>4
  <2>2. Told' => cast # "none" /\ ~Lost(cast)
    BY <1>4, <1>9, <1>13 DEF Told
  <2>3. ForgotIsTold' /\ PlayerIsTold'
    BY <2>1, <2>2 DEF ForgotIsTold, PlayerIsTold
  <2>4. QED
    BY <1>6, <1>7, <1>8, <1>10, <1>11, <2>3
<1>14. QED
  BY <1>12, <1>13

\* A reading of the record is posted, or is not to come.
LEMMA RecordMirror ==
  ASSUME TypeOK, MirrorOK, Resolved \/ RecordRemoved \/ ResolveFails
  PROVE  MirrorOK'
<1> USE DEF MirrorOK, view, initial, gaps, lapses
<1>1. UNCHANGED <<bar, phase, asked, lost, cast, view, runner, due, staleApp, wiped, deaf>>
  BY DEF Resolved, RecordRemoved, ResolveFails
<1>2. CASE ResolveFails
  <2>1. posted' = posted /\ missedAir'
    BY <1>2 DEF ResolveFails
  <2>2. Started' /\ AirComes' /\ AppComes'
    BY <1>1, <2>1 DEF Started, AirComes, AppComes, StatusComes
  <2>3. MediaIsTrue' /\ AskedOrDeaf'
    BY <1>1, <2>1 DEF MediaIsTrue, AskedOrDeaf, NewestOf, IsMedia, AppOf, Lost
  <2>4. ForgotIsTold' /\ PlayerIsTold'
    BY <1>1, <2>1 DEF ForgotIsTold, PlayerIsTold, Told, StatusComes, BothCome, MediaComes, IsMedia
  <2>5. QED
    BY <2>2, <2>3, <2>4
<1>3. CASE Resolved \/ RecordRemoved
  <2>1. PICK f \in {"on", "off", "none"} :
           /\ posted' = Append(posted, Flags(f))
           /\ resolve' \/ (f = "on" <=> HasAir(bar))
    <3>1. CASE Resolved
      BY <3>1 DEF Resolved
    <3>2. CASE RecordRemoved
      BY <3>2 DEF RecordRemoved
    <3>3. QED
      BY <1>3, <3>1, <3>2
  <2>2. /\ Len(posted) \in Nat /\ posted \in Seq(Posts)
        /\ DOMAIN posted = 1..Len(posted) /\ DOMAIN posted' = 1..(Len(posted) + 1)
        /\ \A i \in DOMAIN posted : posted'[i] = posted[i]
        /\ posted'[Len(posted) + 1] = Flags(f)
    BY <2>1, PostsAre, AppendIs DEF DevicesOK
  <2>3. /\ \A i \in DOMAIN posted' : i \in DOMAIN posted \/ i = Len(posted) + 1
        /\ Len(posted) + 1 \in DOMAIN posted' /\ DOMAIN posted \subseteq DOMAIN posted'
        /\ \A i \in DOMAIN posted : Len(posted) + 1 > i
    BY <2>2
  <2>4. posted'[Len(posted) + 1].kind = "flags" /\ posted'[Len(posted) + 1].air = f
    BY <2>2, KindsAre
  <2>5. StatusComes' <=> StatusComes
    BY <2>2, <2>3, <2>4 DEF StatusComes
  <2>6. \A c \in Conns : (MediaComes(c)' <=> MediaComes(c)) /\ (BothCome(c) => BothCome(c)')
    <3> TAKE c \in Conns
    <3>1. MediaComes(c)' <=> MediaComes(c)
      BY <2>2, <2>3, <2>4 DEF MediaComes, IsMedia
    <3>2. QED
      BY <2>2, <2>3, <3>1, ComesOn
  <2>7. Started' /\ AppComes' /\ AskedOrDeaf'
    BY <1>1, <2>5 DEF Started, AppComes, AskedOrDeaf, Lost
  <2>8. AirComes'
    <3> SUFFICES ASSUME ~resolve'
                 PROVE  /\ (\A i \in DOMAIN posted' : posted'[i].kind # "flags") => (airView' = "on" <=> HasAir(bar))
                        /\ \A i \in DOMAIN posted' :
                             posted'[i].kind = "flags" /\ Newest(i)' => (posted'[i].air = "on" <=> HasAir(bar))
      BY <1>1 DEF AirComes, HasAir
    <3>1. \A i \in DOMAIN posted : posted'[i].kind = "flags" => ~Newest(i)'
      BY <2>3, <2>4 DEF Newest
    <3>2. QED
      BY <2>1, <2>3, <2>4, <3>1
  <2>9. MediaIsTrue'
    <3> SUFFICES ASSUME NEW c \in Conns, NEW i \in DOMAIN posted', IsMedia(posted'[i], c)
                 PROVE  /\ phase[c] = "live"
                        /\ NewestOf(c, i)' /\ ~deaf[c] => posted'[i].player = PlayerOf(bar)
                        /\ NewestOf(c, i)' /\ ~AppOf(c) => posted'[i].player = "none"
      BY <1>1 DEF MediaIsTrue, IsMedia, PlayerOf, HasApp, AppOf
    <3>1. i \in DOMAIN posted /\ posted'[i] = posted[i] /\ IsMedia(posted[i], c)
      BY <2>2, <2>3, <2>4 DEF IsMedia
    <3>2. NewestOf(c, i)' => NewestOf(c, i)
      BY <2>2, <2>3 DEF NewestOf, IsMedia
    <3>3. QED
      BY <3>1, <3>2 DEF MediaIsTrue
  <2>10. cast' = cast /\ (cast # "none" => cast \in Conns)
    BY <1>1 DEF DevicesOK
  <2>11. ForgotIsTold' /\ PlayerIsTold'
    <3>1. Told' => Told
      BY <1>1 DEF Told, HasApp
    <3>2. ASSUME Told PROVE (MediaComes(cast)' <=> MediaComes(cast)) /\ (BothCome(cast) => BothCome(cast)')
      BY <2>6, <2>10, <3>2 DEF Told, MediaComes, BothCome
    <3>3. QED
      BY <1>1, <2>5, <3>1, <3>2 DEF ForgotIsTold, PlayerIsTold, PlayerOf, HasApp
  <2>12. QED
    BY <2>7, <2>8, <2>9, <2>11
<1>4. QED
  BY <1>2, <1>3

\* A connection answers what it was asked, heard or not.
LEMMA MediaAnswersMirror ==
  ASSUME TypeOK, MirrorOK, NEW c \in Conns, MediaAnswers(c)
  PROVE  MirrorOK'
<1> USE DEF MirrorOK, view, initial, lapses
<1>1. UNCHANGED <<bar, phase, lost, cast, resolve, view, runner, due, staleApp, wiped, missedAir>>
  BY DEF MediaAnswers
<1>2. /\ asked[c] /\ asked' = [asked EXCEPT ![c] = FALSE]
      /\ deaf' = [deaf EXCEPT ![c] = phase[c] = "made"]
      /\ asked \in [Conns -> BOOLEAN] /\ deaf \in [Conns -> BOOLEAN]
      /\ phase \in [Conns -> {"none", "opening", "made", "live"}]
  BY DEF MediaAnswers, DevicesOK, HistoryOK
<1>3. phase[c] \in {"made", "live"} /\ ~Lost(c)
  BY <1>2 DEF AskedOrDeaf
<1>4. Started'
  BY <1>1 DEF Started
<1>5. AskedOrDeaf'
  <2> SUFFICES ASSUME NEW k \in Conns
               PROVE  /\ phase[k] \in {"none", "opening"} \/ Lost(k) => ~asked'[k]
                      /\ Lost(k) => phase[k] \in {"made", "live"}
                      /\ phase[k] = "made" /\ HasApp(bar) => asked'[k] \/ deaf'[k]
    BY <1>1 DEF AskedOrDeaf, HasApp, Lost
  <2>1. CASE k = c
    BY <1>2, <1>3, <2>1
  <2>2. CASE k # c
    BY <1>2, <2>2 DEF AskedOrDeaf
  <2>3. QED
    BY <2>1, <2>2
<1>6. cast # c => Told' = Told
  BY <1>1, <1>2 DEF Told, HasApp, DevicesOK
<1>7. cast # "none" => cast \in Conns /\ phase[cast] = "live"
  BY DEF DevicesOK, ConnectionsOK
<1>8. CASE phase[c] # "live"
  <2>1. posted' = posted /\ cast # c
    BY <1>7, <1>8 DEF MediaAnswers, Conns
  <2>2. AirComes' /\ AppComes' /\ MediaIsTrue'
    <3>1. AirComes' /\ AppComes'
      BY <1>1, <2>1 DEF AirComes, AppComes, Newest, StatusComes
    <3>2. \A k \in Conns : phase[k] = "live" => deaf'[k] = deaf[k]
      BY <1>2, <1>8
    <3>3. MediaIsTrue'
      BY <1>1, <2>1, <3>2 DEF MediaIsTrue, NewestOf, IsMedia, AppOf
    <3>4. QED
      BY <3>1, <3>3
  <2>3. ForgotIsTold' /\ PlayerIsTold'
    BY <1>1, <1>6, <2>1 DEF ForgotIsTold, PlayerIsTold, StatusComes, BothCome, MediaComes, IsMedia
  <2>4. QED
    BY <1>4, <1>5, <2>2, <2>3
<1>9. CASE phase[c] = "live"
  <2>1. posted' = Append(posted, Media(c, PlayerOf(bar))) /\ Media(c, PlayerOf(bar)) \in Posts
    BY <1>9, PostsAre, PlayersAre DEF MediaAnswers, DevicesOK
  <2>2. /\ Len(posted) \in Nat /\ posted \in Seq(Posts)
        /\ DOMAIN posted = 1..Len(posted) /\ DOMAIN posted' = 1..(Len(posted) + 1)
        /\ \A i \in DOMAIN posted : posted'[i] = posted[i]
        /\ posted'[Len(posted) + 1] = Media(c, PlayerOf(bar))
    BY <2>1, AppendIs DEF DevicesOK
  <2>3. /\ \A i \in DOMAIN posted' : i \in DOMAIN posted \/ i = Len(posted) + 1
        /\ Len(posted) + 1 \in DOMAIN posted' /\ DOMAIN posted \subseteq DOMAIN posted'
        /\ \A i \in DOMAIN posted : Len(posted) + 1 > i /\ i < Len(posted) + 1
    BY <2>2
  <2>4. /\ posted'[Len(posted) + 1].kind = "media" /\ posted'[Len(posted) + 1].by = c
        /\ posted'[Len(posted) + 1].player = PlayerOf(bar)
    BY <2>2, KindsAre
  <2>5. StatusComes' <=> StatusComes
    BY <2>2, <2>3, <2>4 DEF StatusComes
  <2>6. AppComes'
    BY <1>1, <2>5 DEF AppComes, HasApp
  <2>7. AirComes'
    <3> SUFFICES ASSUME ~resolve, ~missedAir
                 PROVE  /\ (\A i \in DOMAIN posted' : posted'[i].kind # "flags") => (airView = "on" <=> HasAir(bar))
                        /\ \A i \in DOMAIN posted' :
                             posted'[i].kind = "flags" /\ Newest(i)' => (posted'[i].air = "on" <=> HasAir(bar))
      BY <1>1 DEF AirComes, HasAir
    <3>1. \A i \in DOMAIN posted' : posted'[i].kind = "flags" => i \in DOMAIN posted
      BY <2>3, <2>4
    <3>2. \A i \in DOMAIN posted : Newest(i)' => Newest(i)
      BY <2>2, <2>3 DEF Newest
    <3>3. QED
      BY <2>2, <2>3, <3>1, <3>2 DEF AirComes
  <2>8. MediaIsTrue'
    <3> SUFFICES ASSUME NEW k \in Conns, NEW i \in DOMAIN posted', IsMedia(posted'[i], k)
                 PROVE  /\ phase[k] = "live"
                        /\ NewestOf(k, i)' /\ ~deaf'[k] => posted'[i].player = PlayerOf(bar)
                        /\ NewestOf(k, i)' /\ ~AppOf(k) => posted'[i].player = "none"
      BY <1>1 DEF MediaIsTrue, IsMedia, PlayerOf, HasApp, AppOf
    <3>1. CASE i = Len(posted) + 1
      <4>1. k = c /\ posted'[i].player = PlayerOf(bar)
        BY <2>4, <3>1 DEF IsMedia
      <4>2. ~AppOf(c) => PlayerOf(bar) = "none"
        BY <1>3, PlayersAre DEF AppOf, Lost, Conns, DevicesOK
      <4>3. QED
        BY <1>9, <4>1, <4>2
    <3>2. CASE i \in DOMAIN posted
      <4>1. posted'[i] = posted[i] /\ IsMedia(posted[i], k) /\ (NewestOf(k, i)' => NewestOf(k, i))
        BY <2>2, <2>3, <3>2 DEF NewestOf, IsMedia
      <4>2. CASE k # c
        <5>1. deaf'[k] = deaf[k]
          BY <1>2, <4>2
        <5>2. QED
          BY <3>2, <4>1, <5>1 DEF MediaIsTrue
      <4>3. CASE k = c
        <5>1. ~NewestOf(k, i)'
          BY <2>3, <2>4, <3>2, <4>3 DEF NewestOf, IsMedia
        <5>2. QED
          BY <3>2, <4>1, <5>1 DEF MediaIsTrue
      <4>4. QED
        BY <4>2, <4>3
    <3>3. QED
      BY <2>3, <3>1, <3>2
  <2>9. ForgotIsTold' /\ PlayerIsTold'
    <3>1. CASE cast = c
      <4>1. MediaComes(cast)'
        BY <1>1, <2>3, <2>4, <3>1 DEF MediaComes, IsMedia
      <4>2. StatusComes' => BothCome(cast)'
        <5> SUFFICES ASSUME StatusComes PROVE BothCome(cast)'
          BY <2>5
        <5>1. PICK i \in DOMAIN posted : posted[i].kind = "status"
          BY DEF StatusComes
        <5>2. PICK j \in DOMAIN posted' : j = Len(posted) + 1
          BY <2>3
        <5>3. i \in DOMAIN posted' /\ posted'[i].kind = "status" /\ i < j
          BY <2>2, <2>3, <5>1, <5>2
        <5>4. IsMedia(posted'[j], cast')
          BY <1>1, <2>4, <3>1, <5>2 DEF IsMedia
        <5>5. QED
          BY <5>3, <5>4 DEF BothCome, IsMedia
      <4>3. QED
        BY <4>1, <4>2 DEF ForgotIsTold, PlayerIsTold
    <3>2. CASE cast # c
      <4>1. ASSUME Told PROVE (BothCome(cast) => BothCome(cast)') /\ (MediaComes(cast) => MediaComes(cast)')
        BY <1>1, <1>7, <2>2, <2>3, <4>1, ComesOn DEF Told, BothCome, MediaComes
      <4>2. QED
        BY <1>1, <1>6, <2>5, <3>2, <4>1 DEF ForgotIsTold, PlayerIsTold, PlayerOf, HasApp
    <3>3. QED
      BY <3>1, <3>2
  <2>10. QED
    BY <1>4, <1>5, <2>6, <2>7, <2>8, <2>9
<1>10. QED
  BY <1>8, <1>9

\* A connection is made, given up or begun: nobody listens to it.
LEMMA ConnectingMirror ==
  ASSUME TypeOK, MirrorOK, NEW c \in Conns,
         UNCHANGED <<bar, lost, resolve, posted, cast, view, due, staleApp, wiped, deaf, missedAir>>,
         runner' \in {"read", "apply", "wait"} => cast # "none",
         runner' = "wait" => due # "never",
         \/ phase[c] = "opening" /\ phase' = [phase EXCEPT ![c] = "made"] /\ asked' = [asked EXCEPT ![c] = HasApp(bar)]
         \/ phase[c] = "opening" /\ phase' = [phase EXCEPT ![c] = "none"] /\ asked' = asked
         \/ phase[c] = "none" /\ phase' = [phase EXCEPT ![c] = "opening"] /\ asked' = asked
  PROVE  MirrorOK'
<1> USE DEF MirrorOK, view
<1>1. /\ phase \in [Conns -> {"none", "opening", "made", "live"}] /\ asked \in [Conns -> BOOLEAN]
      /\ cast # "none" => cast \in Conns /\ phase[cast] = "live"
  BY DEF DevicesOK, ConnectionsOK
<1>2. \A k \in Conns : k # c => phase'[k] = phase[k] /\ asked'[k] = asked[k]
  BY <1>1
<1>3. phase[c] # "live" /\ phase'[c] # "live" /\ cast # c
  BY <1>1 DEF Conns
<1>4. Started'
  BY <1>1, <1>2, <1>3 DEF Started
<1>5. AirComes' /\ AppComes'
  BY DEF AirComes, AppComes, Newest, StatusComes
<1>6. MediaIsTrue'
  BY <1>2, <1>3 DEF MediaIsTrue, NewestOf, IsMedia, AppOf
<1>7. AskedOrDeaf'
  <2> SUFFICES ASSUME NEW k \in Conns
               PROVE  /\ phase'[k] \in {"none", "opening"} \/ Lost(k) => ~asked'[k]
                      /\ Lost(k) => phase'[k] \in {"made", "live"}
                      /\ phase'[k] = "made" /\ HasApp(bar) => asked'[k] \/ deaf[k]
    BY DEF AskedOrDeaf, HasApp, Lost
  <2>1. CASE k = c
    BY <1>1, <2>1 DEF AskedOrDeaf
  <2>2. CASE k # c
    BY <1>2, <2>2 DEF AskedOrDeaf
  <2>3. QED
    BY <2>1, <2>2
<1>8. Told' = Told
  BY <1>1, <1>2, <1>3 DEF Told, HasApp
<1>9. ForgotIsTold' /\ PlayerIsTold'
  BY <1>8 DEF ForgotIsTold, PlayerIsTold, StatusComes, BothCome, MediaComes, IsMedia
<1>10. QED
  BY <1>4, <1>5, <1>6, <1>7, <1>9

\* Who is listened to from now on has still to answer, or was not heard.
LEMMA KeptMirror ==
  ASSUME TypeOK, MirrorOK, NEW c \in Conns, ConnectionKept(c)
  PROVE  MirrorOK'
<1> USE DEF MirrorOK, view, initial, gaps, lapses
<1>1. /\ UNCHANGED <<bar, asked, lost, resolve, posted, view, due, staleApp, wiped, deaf, missedAir>>
      /\ phase[c] = "made" /\ phase' = [phase EXCEPT ![c] = "live"] /\ cast' = c
      /\ phase \in [Conns -> {"none", "opening", "made", "live"}]
  BY DEF ConnectionKept, DevicesOK
<1>2. phase'[c] = "live" /\ \A k \in Conns : k # c => phase'[k] = phase[k]
  BY <1>1
<1>3. Started'
  <2>1. runner' = "wait" => runner = "wait"
    BY DEF ConnectionKept
  <2>2. QED
    BY <1>1, <2>1 DEF Started, Conns
<1>4. AirComes' /\ AppComes'
  BY <1>1 DEF AirComes, AppComes, Newest, StatusComes
<1>5. MediaIsTrue'
  BY <1>1, <1>2 DEF MediaIsTrue, NewestOf, IsMedia, AppOf
<1>6. AskedOrDeaf'
  BY <1>1, <1>2 DEF AskedOrDeaf, Lost
<1>7. ~Told'
  BY <1>1 DEF Told, AskedOrDeaf, HasApp
<1>8. QED
  BY <1>3, <1>4, <1>5, <1>6, <1>7 DEF ForgotIsTold, PlayerIsTold

\* A status is handled with the newest app, and forgets no player that is not
\* told again.
LEMMA StatusMirror ==
  ASSUME TypeOK, MirrorOK, HandleCastStatus
  PROVE  MirrorOK'
<1> USE DEF MirrorOK, view, initial, devices
<1>1. /\ UNCHANGED <<bar, phase, asked, lost, resolve, cast, airView, runner, due, deaf, missedAir>>
      /\ appView' = AppOf(cast) /\ playerView' = (IF AppOf(cast) = appView THEN playerView ELSE "none")
      /\ staleApp' = (AppOf(cast) # HasApp(bar))
      /\ wiped' = (wiped \/ ((staleApp \/ staleApp' \/ due = "never") /\ playerView' # playerView))
  BY DEF HandleCastStatus, ApplyCast
<1>2. /\ posted # << >> /\ posted' = Tail(posted) /\ Head(posted).kind = "status"
      /\ posted \in Seq(Posts)
  BY HandlesTypes DEF HandleCastStatus, DevicesOK
<1>3. /\ Len(posted) > 0 /\ DOMAIN posted = 1..Len(posted) /\ Len(posted) \in Nat /\ Head(posted) = posted[1]
  BY <1>2, TailIs
<1>4. StatusComes
  BY <1>2, <1>3 DEF StatusComes
<1>5. Started' /\ AppComes' /\ AskedOrDeaf'
  BY <1>1 DEF Started, AppComes, AskedOrDeaf, HasApp, Lost
<1>6. AirComes' /\ MediaIsTrue'
  BY <1>1, <1>2, TailAir, TailMedia
<1>7. Told' = Told
  BY <1>1 DEF Told, HasApp
<1>8. ForgotIsTold'
  BY <1>1, <1>7 DEF ForgotIsTold, Told
<1>9. PlayerIsTold'
  <2> SUFFICES ASSUME Told, ~wiped', ~MediaComes(cast)' PROVE playerView' = PlayerOf(bar)
    BY <1>1, <1>7 DEF PlayerIsTold, PlayerOf, HasApp
  <2>1. cast \in Conns /\ cast' = cast
    BY <1>1 DEF Told, DevicesOK
  <2>2. ~BothCome(cast) /\ ~MediaComes(cast)
    <3>1. ~IsMedia(Head(posted), cast)
      BY <1>2 DEF IsMedia
    <3>2. ~MediaComes(cast) /\ ~BothCome(cast)
      BY <1>2, <2>1, <3>1, ComesAfter DEF MediaComes
    <3>3. QED
      BY <3>2
  <2>3. playerView = PlayerOf(bar)
    BY <1>1, <2>2 DEF PlayerIsTold
  <2>4. CASE playerView' = playerView
    BY <2>3, <2>4
  <2>5. CASE playerView' # playerView
    <3>1. ~staleApp /\ ~staleApp' /\ due # "never" /\ AppOf(cast) # appView
      BY <1>1, <2>5
    <3>2. AppOf(cast) \in BOOLEAN /\ appView \in BOOLEAN /\ AppOf(cast)
      BY <1>1, <3>1 DEF Told, AppOf, HasApp, ViewOK
    <3>3. ~appView
      BY <3>1, <3>2
    <3>4. QED
      BY <1>4, <2>2, <3>1, <3>3 DEF ForgotIsTold
  <2>6. QED
    BY <2>4, <2>5
<1>10. QED
  BY <1>5, <1>6, <1>8, <1>9

\* The newest media status of the connection is the player from then on.
LEMMA MediaMirror ==
  ASSUME TypeOK, MirrorOK, HandleCastMedia
  PROVE  MirrorOK'
<1> USE DEF MirrorOK, view, initial, devices
<1>1. /\ UNCHANGED <<bar, phase, asked, lost, resolve, cast, airView, appView, runner, staleApp, deaf, missedAir>>
      /\ due' # "never" <=> due # "never"
  BY DEF HandleCastMedia, SayStatus
<1>2. /\ posted # << >> /\ posted' = Tail(posted) /\ Head(posted).kind = "media"
      /\ posted \in Seq(Posts)
  BY HandlesTypes DEF HandleCastMedia, DevicesOK
<1>3. /\ Len(posted) > 0 /\ DOMAIN posted = 1..Len(posted) /\ Len(posted) \in Nat /\ Head(posted) = posted[1]
      /\ DOMAIN posted' = 1..(Len(posted) - 1) /\ \A i \in DOMAIN posted' : posted'[i] = posted[i + 1]
  BY <1>2, TailIs
<1>4. StatusComes' <=> StatusComes
  <2>1. StatusComes => StatusComes'
    BY <1>2, ComesAfter
  <2>2. ASSUME StatusComes' PROVE StatusComes
    <3>1. PICK i \in DOMAIN posted' : posted'[i].kind = "status"
      BY <2>2 DEF StatusComes
    <3>2. i + 1 \in DOMAIN posted
      BY <1>3
    <3>3. QED
      BY <1>3, <3>1, <3>2 DEF StatusComes
  <2>3. QED
    BY <2>1, <2>2
<1>5. Started' /\ AppComes' /\ AskedOrDeaf'
  BY <1>1, <1>4 DEF Started, AppComes, AskedOrDeaf, HasApp, Lost
<1>6. AirComes' /\ MediaIsTrue'
  BY <1>1, <1>2, TailAir, TailMedia
<1>7. Told' = Told
  BY <1>1 DEF Told, HasApp
<1>8. cast' = cast /\ (Told => cast \in Conns)
  BY <1>1 DEF Told, DevicesOK
<1>9. ForgotIsTold'
  <2>1. ASSUME Told, BothCome(cast) PROVE BothCome(cast)'
    BY <1>2, <1>8, <2>1, ComesAfter DEF BothCome
  <2>2. QED
    BY <1>1, <1>4, <1>7, <2>1 DEF ForgotIsTold
<1>10. PlayerIsTold'
  <2> SUFFICES ASSUME Told, ~wiped', ~MediaComes(cast)' PROVE playerView' = PlayerOf(bar)
    BY <1>1, <1>7 DEF PlayerIsTold, PlayerOf, HasApp
  <2>1. CASE Head(posted).by = cast
    <3>1. playerView' = Head(posted).player
      BY <2>1 DEF HandleCastMedia
    <3>2. IsMedia(posted[1], cast) /\ 1 \in DOMAIN posted
      BY <1>2, <1>3, <2>1 DEF IsMedia
    <3>3. NewestOf(cast, 1)
      <4> SUFFICES ASSUME NEW j \in DOMAIN posted, j > 1 PROVE ~IsMedia(posted[j], cast)
        BY DEF NewestOf
      <4>1. j - 1 \in DOMAIN posted' /\ posted'[j - 1] = posted[j]
        BY <1>3
      <4>2. QED
        BY <1>8, <4>1 DEF MediaComes, IsMedia
    <3>4. QED
      BY <1>3, <1>8, <3>1, <3>2, <3>3 DEF MediaIsTrue, Told
  <2>2. CASE Head(posted).by # cast
    <3>1. UNCHANGED <<playerView, wiped>>
      BY <2>2 DEF HandleCastMedia
    <3>2. ~IsMedia(Head(posted), cast)
      BY <2>2 DEF IsMedia
    <3>3. ~MediaComes(cast)
      BY <1>2, <1>8, <3>2, ComesAfter DEF MediaComes
    <3>4. QED
      BY <3>1, <3>3 DEF PlayerIsTold
  <2>3. QED
    BY <2>1, <2>2
<1>11. QED
  BY <1>5, <1>6, <1>9, <1>10

\* A connection that is lost says nothing, and is known not to.
LEMMA LinkLostMirror ==
  ASSUME TypeOK, MirrorOK, NEW c \in Conns, LinkLost(c)
  PROVE  MirrorOK'
<1> USE DEF MirrorOK, view, initial, lapses
<1>1. /\ UNCHANGED <<bar, phase, resolve, posted, cast, view, runner, due, staleApp, wiped, missedAir>>
      /\ asked' = [asked EXCEPT ![c] = FALSE] /\ deaf' = [deaf EXCEPT ![c] = deaf[c] \/ asked[c]]
      /\ lost' = [lost EXCEPT ![c] = IF HasApp(bar) THEN "app" ELSE "none"]
      /\ phase[c] \in {"made", "live"} /\ lost[c] = "no"
  BY DEF LinkLost
<1>2. /\ asked \in [Conns -> BOOLEAN] /\ deaf \in [Conns -> BOOLEAN] /\ lost \in [Conns -> {"no", "app", "none"}]
      /\ c # "none"
  BY DEF DevicesOK, HistoryOK, Conns
<1>3. ASSUME NEW k \in Conns
      PROVE  /\ ~deaf'[k] => ~deaf[k] /\ asked'[k] = (IF k = c THEN FALSE ELSE asked[k]) /\ (k = c => ~asked[k])
             /\ AppOf(k)' <=> AppOf(k)
             /\ k # c => (Lost(k)' <=> Lost(k)) /\ asked'[k] = asked[k] /\ deaf'[k] = deaf[k]
             /\ k = c => ~asked'[k] /\ (asked[k] => deaf'[k]) /\ (deaf[k] => deaf'[k])
  <2>1. CASE k = c
    BY <1>1, <1>2, <2>1 DEF AppOf, HasApp
  <2>2. CASE k # c
    BY <1>1, <1>2, <2>2 DEF AppOf, HasApp, Lost
  <2>3. QED
    BY <2>1, <2>2
<1>4. Started' /\ AirComes' /\ AppComes'
  BY <1>1 DEF Started, AirComes, AppComes, Newest, StatusComes, HasApp, HasAir
<1>5. MediaIsTrue'
  <2> SUFFICES ASSUME NEW k \in Conns, NEW i \in DOMAIN posted, IsMedia(posted[i], k)
               PROVE  /\ phase[k] = "live"
                      /\ NewestOf(k, i) /\ ~deaf'[k] => posted[i].player = PlayerOf(bar)
                      /\ NewestOf(k, i) /\ ~AppOf(k)' => posted[i].player = "none"
    BY <1>1 DEF MediaIsTrue, NewestOf, IsMedia, PlayerOf, HasApp
  <2>1. QED
    BY <1>3 DEF MediaIsTrue
<1>6. AskedOrDeaf'
  <2> SUFFICES ASSUME NEW k \in Conns
               PROVE  /\ phase[k] \in {"none", "opening"} \/ Lost(k)' => ~asked'[k]
                      /\ Lost(k)' => phase[k] \in {"made", "live"}
                      /\ phase[k] = "made" /\ HasApp(bar) => asked'[k] \/ deaf'[k]
    BY <1>1 DEF AskedOrDeaf, HasApp
  <2>1. CASE k = c
    BY <1>1, <1>3, <2>1 DEF AskedOrDeaf
  <2>2. CASE k # c
    BY <1>3, <2>2 DEF AskedOrDeaf
  <2>3. QED
    BY <2>1, <2>2
<1>7. Told' => Told
  <2>1. cast # "none" => cast \in Conns
    BY DEF DevicesOK
  <2>2. QED
    BY <1>1, <1>3, <2>1 DEF Told, HasApp
<1>8. ForgotIsTold' /\ PlayerIsTold'
  BY <1>1, <1>7 DEF ForgotIsTold, PlayerIsTold, StatusComes, BothCome, MediaComes, IsMedia, PlayerOf, HasApp
<1>9. QED
  BY <1>4, <1>5, <1>6, <1>8

\* One that is back says where the bar stands, or is asked.
LEMMA LinkBackMirror ==
  ASSUME TypeOK, MirrorOK, NEW c \in Conns, LinkBack(c)
  PROVE  MirrorOK'
<1> USE DEF MirrorOK, view, initial, gaps, lapses
<1>1. /\ UNCHANGED <<bar, phase, resolve, cast, view, runner, due, staleApp, wiped, deaf, missedAir>>
      /\ asked' = [asked EXCEPT ![c] = HasApp(bar)] /\ lost' = [lost EXCEPT ![c] = "no"]
      /\ Lost(c)
  BY DEF LinkBack
<1>2. /\ posted \in Seq(Posts) /\ Len(posted) \in Nat /\ Len(posted') \in Nat /\ Len(posted) <= Len(posted')
      /\ DOMAIN posted = 1..Len(posted) /\ DOMAIN posted' = 1..Len(posted')
      /\ \A i \in DOMAIN posted : posted'[i] = posted[i]
      /\ \A i \in DOMAIN posted' : i > Len(posted) =>
              /\ phase[c] = "live"
              /\ posted'[i] = Status \/ (posted'[i] = Media(c, "none") /\ ~HasApp(bar))
      /\ phase[c] = "live" /\ ~HasApp(bar) =>
              \E i \in DOMAIN posted' : i > Len(posted) /\ posted'[i] = Media(c, "none")
  BY RetellsIs DEF DevicesOK
<1>3. /\ asked \in [Conns -> BOOLEAN] /\ lost \in [Conns -> {"no", "app", "none"}] /\ c # "none"
      /\ cast # "none" => cast \in Conns
      /\ PlayerOf(bar) \in Players /\ (~HasApp(bar) <=> PlayerOf(bar) = "none")
  BY PlayersAre DEF DevicesOK, Conns
<1>4. DOMAIN posted \subseteq DOMAIN posted' /\ \A i \in DOMAIN posted' : i <= Len(posted) => i \in DOMAIN posted
  BY <1>2
<1>5. \A k \in Conns : k # c => (Lost(k)' <=> Lost(k)) /\ asked'[k] = asked[k] /\ (AppOf(k)' <=> AppOf(k))
  BY <1>1, <1>3 DEF AppOf, Lost, HasApp
<1>6. ~Lost(c)' /\ asked'[c] = HasApp(bar) /\ (AppOf(c)' <=> HasApp(bar))
  BY <1>1, <1>3 DEF AppOf, Lost, HasApp
<1>7. /\ StatusComes => StatusComes'
      /\ \A k \in Conns : (MediaComes(k) => MediaComes(k)') /\ (BothCome(k) => BothCome(k)')
  BY <1>2, <1>4, ComesOn
<1>8. Started' /\ AppComes'
  BY <1>1, <1>7 DEF Started, AppComes, HasApp
<1>9. AirComes'
  <2> SUFFICES ASSUME ~resolve, ~missedAir
               PROVE  /\ (\A i \in DOMAIN posted' : posted'[i].kind # "flags") => (airView = "on" <=> HasAir(bar))
                      /\ \A i \in DOMAIN posted' :
                           posted'[i].kind = "flags" /\ Newest(i)' => (posted'[i].air = "on" <=> HasAir(bar))
    BY <1>1 DEF AirComes, HasAir
  <2>1. \A i \in DOMAIN posted' : posted'[i].kind = "flags" => i \in DOMAIN posted
    BY <1>2, <1>4, KindsAre
  <2>2. \A i \in DOMAIN posted : Newest(i)' => Newest(i)
    BY <1>2, <1>4 DEF Newest
  <2>3. QED
    BY <1>2, <1>4, <2>1, <2>2 DEF AirComes
<1>10. MediaIsTrue'
  <2> SUFFICES ASSUME NEW k \in Conns, NEW i \in DOMAIN posted', IsMedia(posted'[i], k)
               PROVE  /\ phase[k] = "live"
                      /\ NewestOf(k, i)' /\ ~deaf[k] => posted'[i].player = PlayerOf(bar)
                      /\ NewestOf(k, i)' /\ ~AppOf(k)' => posted'[i].player = "none"
    BY <1>1 DEF MediaIsTrue, IsMedia, PlayerOf, HasApp
  <2>1. CASE i > Len(posted)
    <3>1. posted'[i] = Media(c, "none") /\ ~HasApp(bar) /\ phase[c] = "live"
      BY <1>2, <2>1, KindsAre DEF IsMedia
    <3>2. k = c /\ posted'[i].player = "none"
      BY <3>1, KindsAre DEF IsMedia
    <3>3. QED
      BY <1>3, <3>1, <3>2
  <2>2. CASE ~(i > Len(posted))
    <3>1. i \in DOMAIN posted /\ posted'[i] = posted[i] /\ IsMedia(posted[i], k)
      BY <1>2, <1>4, <2>2 DEF IsMedia
    <3>2. /\ phase[k] = "live"
          /\ NewestOf(k, i) /\ ~deaf[k] => posted[i].player = PlayerOf(bar)
          /\ NewestOf(k, i) /\ ~AppOf(k) => posted[i].player = "none"
      BY <3>1 DEF MediaIsTrue
    <3>3. NewestOf(k, i)' => NewestOf(k, i)
      BY <1>2, <1>4 DEF NewestOf, IsMedia
    <3>4. CASE k # c \/ HasApp(bar)
      BY <1>5, <1>6, <3>1, <3>2, <3>3, <3>4
    <3>5. CASE k = c /\ ~HasApp(bar)
      <4>1. PICK j \in DOMAIN posted' : j > Len(posted) /\ posted'[j] = Media(c, "none")
        BY <1>2, <3>2, <3>5
      <4>2. j > i /\ IsMedia(posted'[j], k)
        BY <1>2, <2>2, <3>5, <4>1, KindsAre DEF IsMedia
      <4>3. ~NewestOf(k, i)'
        BY <4>2 DEF NewestOf, IsMedia
      <4>4. QED
        BY <3>2, <4>3
    <3>6. QED
      BY <3>4, <3>5
  <2>3. QED
    BY <2>1, <2>2
<1>11. AskedOrDeaf'
  <2> SUFFICES ASSUME NEW k \in Conns
               PROVE  /\ phase[k] \in {"none", "opening"} \/ Lost(k)' => ~asked'[k]
                      /\ Lost(k)' => phase[k] \in {"made", "live"}
                      /\ phase[k] = "made" /\ HasApp(bar) => asked'[k] \/ deaf[k]
    BY <1>1 DEF AskedOrDeaf, HasApp
  <2>1. CASE k = c
    BY <1>1, <1>6, <2>1 DEF AskedOrDeaf
  <2>2. CASE k # c
    BY <1>5, <2>2 DEF AskedOrDeaf
  <2>3. QED
    BY <2>1, <2>2
<1>12. Told' => Told /\ cast # c
  BY <1>1, <1>3, <1>5, <1>6 DEF Told, HasApp
<1>13. ForgotIsTold'
  <2> SUFFICES ASSUME Told, ~staleApp, due # "never", ~appView PROVE BothCome(cast)'
    BY <1>1, <1>12 DEF ForgotIsTold
  <2>1. StatusComes
    BY DEF AppComes, Told
  <2>2. BothCome(cast) /\ cast \in Conns /\ cast' = cast
    BY <1>1, <1>3, <2>1 DEF ForgotIsTold, Told
  <2>3. QED
    BY <1>7, <2>2 DEF BothCome
<1>14. PlayerIsTold'
  <2> SUFFICES ASSUME Told, ~wiped, ~MediaComes(cast)' PROVE playerView = PlayerOf(bar)
    BY <1>1, <1>12 DEF PlayerIsTold, PlayerOf, HasApp
  <2>1. cast \in Conns /\ cast' = cast
    BY <1>1, <1>3 DEF Told
  <2>2. ~MediaComes(cast)
    BY <1>7, <2>1 DEF MediaComes
  <2>3. QED
    BY <2>2 DEF PlayerIsTold
<1>15. QED
  BY <1>8, <1>9, <1>10, <1>11, <1>13, <1>14

LEMMA AirplayMirror ==
  ASSUME TypeOK, MirrorOK, HandleAirplay
  PROVE  MirrorOK'
<1> USE DEF MirrorOK, view, initial, devices, gaps, lapses
<1>1. /\ UNCHANGED <<bar, phase, asked, lost, resolve, cast, appView, playerView, runner, due, staleApp, wiped, deaf, missedAir>>
      /\ airView' = Head(posted).air
  BY DEF HandleAirplay
<1>2. /\ posted # << >> /\ posted' = Tail(posted) /\ Head(posted).kind = "flags"
      /\ posted \in Seq(Posts)
  BY HandlesTypes DEF HandleAirplay, DevicesOK
<1>3. /\ Len(posted) > 0 /\ DOMAIN posted = 1..Len(posted) /\ Len(posted) \in Nat /\ Head(posted) = posted[1]
      /\ DOMAIN posted' = 1..(Len(posted) - 1) /\ \A i \in DOMAIN posted' : posted'[i] = posted[i + 1]
  BY <1>2, TailIs
<1>4. StatusComes' <=> StatusComes
  <2>1. StatusComes => StatusComes'
    BY <1>2, ComesAfter
  <2>2. ASSUME StatusComes' PROVE StatusComes
    <3>1. PICK i \in DOMAIN posted' : posted'[i].kind = "status"
      BY <2>2 DEF StatusComes
    <3>2. i + 1 \in DOMAIN posted
      BY <1>3
    <3>3. QED
      BY <1>3, <3>1, <3>2 DEF StatusComes
  <2>3. QED
    BY <2>1, <2>2
<1>5. Started' /\ AppComes' /\ AskedOrDeaf'
  BY <1>1, <1>4 DEF Started, AppComes, AskedOrDeaf, HasApp, Lost
<1>6. AirComes' /\ MediaIsTrue'
  BY <1>1, <1>2, TailAir, TailMedia
<1>7. Told' = Told
  BY <1>1 DEF Told, HasApp
<1>8. cast' = cast /\ (Told => cast \in Conns)
  BY <1>1 DEF Told, DevicesOK
<1>9. ASSUME Told PROVE (BothCome(cast) => BothCome(cast)') /\ (MediaComes(cast) => MediaComes(cast)')
  <2>1. ~IsMedia(Head(posted), cast)
    BY <1>2 DEF IsMedia
  <2>2. QED
    BY <1>2, <1>8, <1>9, <2>1, ComesAfter DEF BothCome, MediaComes
<1>10. ForgotIsTold' /\ PlayerIsTold'
  BY <1>1, <1>4, <1>7, <1>9 DEF ForgotIsTold, PlayerIsTold, PlayerOf, HasApp
<1>11. QED
  BY <1>5, <1>6, <1>10

\* What the watchdog read is put over it, and said to be when it was old.
LEMMA AppliesMirror ==
  ASSUME TypeOK, MirrorOK, RunnerApplies
  PROVE  MirrorOK'
<1> USE DEF MirrorOK, view, initial, devices
<1>1. /\ UNCHANGED <<bar, phase, asked, lost, resolve, posted, cast, airView, deaf, missedAir>>
      /\ appView' = captured /\ (~staleApp' => captured = HasApp(bar))
      /\ wiped' = (wiped \/ staleApp' \/ playerView' # playerView)
      /\ runner = "apply" /\ due' # "never"
  BY DEF RunnerApplies, ApplyCast, SayStatus
<1>2. Started'
  BY <1>1 DEF Started
<1>3. AirComes' /\ MediaIsTrue' /\ AskedOrDeaf'
  BY <1>1 DEF AirComes, MediaIsTrue, AskedOrDeaf, Newest, NewestOf, IsMedia, AppOf, Lost
<1>4. AppComes'
  BY <1>1 DEF AppComes, HasApp
<1>5. ForgotIsTold' /\ PlayerIsTold'
  <2>1. Told' = Told
    BY <1>1 DEF Told, HasApp
  <2>2. Told => (~staleApp' => appView')
    BY <1>1 DEF Told
  <2>3. ~wiped' => ~wiped /\ playerView' = playerView
    BY <1>1
  <2>4. MediaComes(cast)' <=> MediaComes(cast)
    BY <1>1 DEF MediaComes, IsMedia
  <2>5. QED
    BY <1>1, <2>1, <2>2, <2>3, <2>4 DEF ForgotIsTold, PlayerIsTold, PlayerOf, HasApp
<1>6. QED
  BY <1>2, <1>3, <1>4, <1>5

LEMMA StepsMirror ==
  ASSUME TypeOK, MirrorOK, Next
  PROVE  MirrorOK'
<1> USE DEF devices, view, initial, order, told, lapses, gaps
<1>1. CASE Outside
  <2>1. CASE Used
    BY <2>1, BecomesMirror DEF Used
  <2>2. QED
    BY <1>1, <2>1, RecordMirror, LinkLostMirror, LinkBackMirror DEF Outside
<1>2. CASE Threads
  <2>1. ASSUME NEW c \in Conns, ConnectionMade(c) PROVE MirrorOK'
    BY <2>1, ConnectingMirror DEF ConnectionMade, MirrorOK, Started
  <2>2. QED
    BY <1>2, <2>1, RecordMirror, MediaAnswersMirror DEF Threads
<1>3. CASE Handlers
  BY <1>3, StatusMirror, MediaMirror, AirplayMirror DEF Handlers
<1>4. CASE Deadlines
  BY <1>4, OthersMirror DEF Deadlines, StatusWaitDeadline, AirplayInitialDeadline, MirrorOK, Started
<1>5. CASE Watchdog
  <2>1. CASE RunnerConnects
    <3>1. CASE cast = "none"
      <4>1. phase["runner"] # "opening" /\ phase["runner"] # "made" /\ phase["runner"] # "live" /\ "runner" \in Conns
        BY <2>1, <3>1 DEF RunnerConnects, ConnectionsOK, MirrorOK, Started, Conns
      <4>2. phase["runner"] = "none"
        BY <4>1 DEF DevicesOK
      <4>3. QED
        BY <2>1, <3>1, <4>1, <4>2, ConnectingMirror DEF RunnerConnects
    <3>2. CASE cast # "none"
      BY <2>1, <3>2, OthersMirror DEF RunnerConnects
    <3>3. QED
      BY <3>1, <3>2
  <2>2. CASE RunnerConnectFails
    BY <2>2, ConnectingMirror DEF RunnerConnectFails, Conns
  <2>3. CASE RunnerReads \/ WatchdogWakes
    BY <2>3, OthersMirror DEF RunnerReads, WatchdogWakes, MirrorOK, Started
  <2>4. QED
    BY <1>5, <2>1, <2>2, <2>3, AppliesMirror DEF Watchdog
<1>6. CASE Commanded
  <2>1. CASE CommandConnects
    <3>1. phase["command"] # "opening" /\ phase["command"] # "made" /\ phase["command"] # "live" /\ "command" \in Conns
      BY <2>1 DEF CommandConnects, ConnectionsOK, MirrorOK, Started, Conns
    <3>2. phase["command"] = "none"
      BY <3>1 DEF DevicesOK
    <3>3. QED
      BY <2>1, <3>1, <3>2, ConnectingMirror DEF CommandConnects, MirrorOK, Started
  <2>2. CASE CommandConnectFails
    BY <2>2, ConnectingMirror DEF CommandConnectFails, Conns, MirrorOK, Started
  <2>3. CASE PlayUrl
    BY <2>3, BecomesMirror DEF PlayUrl, Doings
  <2>4. CASE StartApp
    BY <2>4, BecomesMirror DEF StartApp, Doings
  <2>5. CASE QuitApp
    <3>1. PICK d \in Doings : Becomes(d)
      BY <2>5 DEF QuitApp, Doings
    <3>2. QED
      BY <2>5, <3>1, BecomesMirror DEF QuitApp
  <2>6. CASE CommandCalled \/ NothingToRelease \/ CommandFails
    BY <2>6, OthersMirror DEF CommandCalled, NothingToRelease, CommandFails, MirrorOK, Started
  <2>7. QED
    BY <1>6, <2>1, <2>2, <2>3, <2>4, <2>5, <2>6 DEF Commanded
<1>7. QED
  BY <1>1, <1>2, <1>3, <1>4, <1>5, <1>6, KeptMirror DEF Next

(***************************************************************************)
(* Together.                                                               *)
(***************************************************************************)
LEMMA InitHolds == Init => IInv
<1> SUFFICES ASSUME Init PROVE IInv
  OBVIOUS
<1> USE DEF Init
<1>1. << >> \in Seq(Posts) /\ << >> \in Seq(Calls) /\ DOMAIN << >> = {}
  BY EmptySeq
<1>2. DevicesOK /\ OrderOK
  BY <1>1 DEF DevicesOK, OrderOK
<1>3. ViewOK
  BY DEF ViewOK, Players
<1>4. HistoryOK
  <2>1. [c \in Conns |-> FALSE] \in [Conns -> BOOLEAN]
    OBVIOUS
  <2>2. 0 \in 0..MaxEvents /\ 0 \in Nat /\ 1 \in Nat
    OBVIOUS
  <2>3. session \in Nat
    BY <2>2
  <2>4. QED
    BY <2>1, <2>2, <2>3 DEF HistoryOK
<1>5. ConnectionsOK
  BY DEF ConnectionsOK, Conns
<1>6. ReleasesOK
  BY <1>1 DEF ReleasesOK, CallsOK, OnlyLaterSessions, ReleaseEnds
<1>7. MirrorOK
  BY <1>1 DEF MirrorOK, Started, AirComes, AppComes, MediaIsTrue, AskedOrDeaf, Lost, ForgotIsTold, PlayerIsTold, Told
<1>8. QED
  BY <1>2, <1>3, <1>4, <1>5, <1>6, <1>7 DEF IInv

LEMMA StepKeeps == IInv /\ [Next]_vars => IInv'
<1> SUFFICES ASSUME IInv, [Next]_vars PROVE IInv'
  OBVIOUS
<1>1. CASE Next
  <2>1. TypeOK /\ ReleasesOK /\ MirrorOK
    BY DEF IInv
  <2>2. TypeOK'
    <3>1. CallsOK
      BY <2>1 DEF ReleasesOK
    <3>2. QED
      BY <1>1, <2>1, <3>1, DevicesTyped, ViewTyped, WatchdogTyped, CommandsTyped DEF Next
  <2>3. ReleasesOK'
    BY <1>1, <2>1, StepsRelease
  <2>4. MirrorOK'
    BY <1>1, <2>1, StepsMirror
  <2>5. QED
    BY <2>2, <2>3, <2>4 DEF IInv
<1>2. CASE UNCHANGED vars
  <2> USE <1>2 DEF vars, devices, view, initial, order, told, lapses, gaps, IInv
  <2>1. TypeOK'
    BY DEF DevicesOK, ViewOK, OrderOK, HistoryOK, ConnectionsOK
  <2>2. ReleasesOK'
    BY OthersRelease
  <2>3. MirrorOK'
    BY OthersMirror DEF MirrorOK, Started
  <2>4. QED
    BY <2>1, <2>2, <2>3
<1>3. QED
  BY <1>1, <1>2

LEMMA InvariantHolds == Spec => []IInv
  BY InitHolds, StepKeeps, PTL DEF Spec

\* Every variable of SamsungSoundbar keeps its type, and whoever waits for a
\* connection is the one that makes it.
THEOREM TypeCorrect == Spec => []TypeOK
<1>1. IInv => TypeOK
  BY DEF IInv
<1>2. QED
  BY <1>1, InvariantHolds, PTL

\* release_to_tv, however long it waited for the send lock or a connection,
\* returns without an error only with the session over that it was called for.
THEOREM ReleasesEnd == Spec => []ReleaseEnds
<1>1. IInv => ReleaseEnds
  BY DEF IInv, ReleasesOK
<1>2. QED
  BY <1>1, InvariantHolds, PTL

\* When all that connections and mDNS had to say is handled, the fields of
\* SamsungSoundbarState say whether the bar is in use, but for the lapses named.
THEOREM MirrorIsTrue == Spec => []MirrorAgrees
<1>1. IInv => MirrorAgrees
  <2> SUFFICES ASSUME IInv, Quiet, ~staleApp, ~wiped, ~deaf[cast], ~missedAir
               PROVE  /\ appView = HasApp(bar)
                      /\ Listening(appView, playerView, airView) = Plays(bar)
    BY DEF MirrorAgrees
  <2> USE DEF IInv, MirrorOK
  <2>1. cast \in Conns /\ runner = "wait" /\ ~resolve /\ ~asked[cast] /\ DOMAIN posted = {}
    BY EmptySeq DEF Quiet, DevicesOK
  <2>2. ~StatusComes /\ ~MediaComes(cast)
    BY <2>1 DEF StatusComes, MediaComes
  <2>3. due # "never" /\ cast # "none"
    BY <2>1 DEF Started, Conns
  <2>4. appView = HasApp(bar)
    BY <2>2, <2>3 DEF AppComes
  <2>5. airView = "on" <=> HasAir(bar)
    <3>1. \A i \in DOMAIN posted : posted[i].kind # "flags"
      BY <2>1
    <3>2. QED
      BY <3>1 DEF AirComes, Quiet
  <2>6. HasApp(bar) => playerView = PlayerOf(bar)
    BY <2>1, <2>2, <2>3 DEF PlayerIsTold, Told
  <2>7. Listening(appView, playerView, airView) <=> Plays(bar)
    <3>1. HasApp(bar) /\ playerView = "playing" <=> HasApp(bar) /\ PlayerOf(bar) = "playing"
      BY <2>6
    <3>2. HasApp(bar) /\ PlayerOf(bar) = "playing" <=> bar = "playing"
      BY DEF PlayerOf, HasApp
    <3>3. QED
      BY <2>4, <2>5, <3>1, <3>2 DEF Listening, Plays
  <2>8. Listening(appView, playerView, airView) \in BOOLEAN /\ Plays(bar) \in BOOLEAN
    BY DEF Listening, Plays, HasAir
  <2>9. QED
    BY <2>4, <2>7, <2>8
<1>2. QED
  BY <1>1, InvariantHolds, PTL

(***************************************************************************)
(* Signals.  What is posted and what the hub holds keeps its dates.        *)
(***************************************************************************)
LEMMA DatesAre ==
  ASSUME TypeOK, NEW since \in [DOMAIN posted -> 0..begun]
  PROVE  /\ begun \in Nat /\ Len(posted) \in Nat /\ DOMAIN posted = 1..Len(posted)
         /\ \A i \in DOMAIN posted : since[i] \in Nat /\ since[i] <= begun /\ posted[i] \in Posts
<1>1. begun \in Nat /\ posted \in Seq(Posts)
  BY DEF HistoryOK, DevicesOK
<1>2. Len(posted) \in Nat /\ DOMAIN posted = 1..Len(posted) /\ \A i \in DOMAIN posted : posted[i] \in Posts
  BY <1>1, LenProperties
<1>3. QED
  BY <1>1, <1>2

\* Nothing is posted and nothing taken: all keep their dates, or are dated one
\* session later.
LEMMA SameDated ==
  ASSUME TypeOK, Dated, UNCHANGED <<bar, posted, cast>>,
         NEW up \in Nat, begun' = begun + up,
         \A k \in Ways : Free(k)' => \/ Free(k)
                                     \/ up > 0
                                     \/ ~PlaysBy(k) /\ \A i \in DOMAIN posted : Tells(posted[i], k) => k = "cast" /\ Gone(i)
  PROVE  Dated'
<1>1. PICK since \in [DOMAIN posted -> 0..begun] : Dates(since)
  BY DEF Dated
<1>2. /\ begun \in Nat /\ Len(posted) \in Nat /\ DOMAIN posted = 1..Len(posted)
      /\ \A i \in DOMAIN posted : since[i] \in Nat /\ since[i] <= begun
  BY <1>1, DatesAre
<1>3. PICK dates : dates = [i \in DOMAIN posted |-> since[i] + up]
  OBVIOUS
<1>4. dates \in [DOMAIN posted' -> 0..begun']
  <2>1. \A i \in DOMAIN posted : since[i] + up \in 0..begun'
    BY <1>2
  <2>2. QED
    BY <1>3, <2>1
<1>5. \A i \in DOMAIN posted : dates[i] = since[i] + up
  BY <1>3
<1>6. /\ \A x, k : (Tells(x, k)' <=> Tells(x, k)) /\ (Denies(x, k)' <=> Denies(x, k))
      /\ \A k : PlaysBy(k)' <=> PlaysBy(k)
      /\ \A i : Gone(i)' <=> Gone(i)
  BY DEF Tells, Denies, About, IsMedia, PlaysBy, HasAir, Gone
<1>7. InOrder(dates)'
  BY <1>1, <1>2, <1>5 DEF Dates, InOrder
<1>8. StartsBetween(dates)'
  <2> SUFFICES ASSUME NEW k \in Ways, NEW i \in DOMAIN posted, NEW j \in DOMAIN posted,
                      i < j, Denies(posted[i], k), Tells(posted[j], k)
               PROVE  dates[i] < dates[j]
    BY <1>6 DEF StartsBetween
  <2>1. since[i] < since[j]
    BY <1>1 DEF Dates, StartsBetween
  <2>2. QED
    BY <1>2, <1>5, <2>1
<1>9. StartsSince(dates)'
  <2> SUFFICES ASSUME NEW k \in Ways, NEW i \in DOMAIN posted, Denies(posted[i], k), PlaysBy(k)
               PROVE  dates[i] < begun'
    BY <1>6 DEF StartsSince
  <2>1. since[i] < begun
    BY <1>1 DEF Dates, StartsSince
  <2>2. QED
    BY <1>2, <1>5, <2>1
<1>10. StartsUnheard(dates)'
  <2> SUFFICES ASSUME NEW k \in Ways, Free(k)'
               PROVE  /\ PlaysBy(k) => begun' > 0
                      /\ \A i \in DOMAIN posted : Tells(posted[i], k) => dates[i] > 0 \/ (k = "cast" /\ Gone(i))
    BY <1>6 DEF StartsUnheard
  <2>1. CASE Free(k)
    <3>1. /\ PlaysBy(k) => begun > 0
          /\ \A i \in DOMAIN posted : Tells(posted[i], k) => since[i] > 0 \/ (k = "cast" /\ Gone(i))
      BY <1>1, <2>1 DEF Dates, StartsUnheard
    <3>2. QED
      BY <1>2, <1>5, <3>1
  <2>2. CASE up > 0
    BY <1>2, <1>5, <2>2
  <2>3. CASE ~PlaysBy(k) /\ \A i \in DOMAIN posted : Tells(posted[i], k) => k = "cast" /\ Gone(i)
    BY <2>3
  <2>4. QED
    BY <2>1, <2>2, <2>3
<1>11. QED
  BY <1>4, <1>7, <1>8, <1>9, <1>10 DEF Dated, Dates

\* What is posted is dated e, a count of sessions not below that of any before.
LEMMA GrowsDated ==
  ASSUME TypeOK, Dated, NEW e \in Nat, begun' \in Nat, begun <= e, e <= begun',
         UNCHANGED <<cast, view, initial, wiped>>, staleApp => staleApp',
         Len(posted') \in Nat, DOMAIN posted' = 1..Len(posted'), Len(posted) <= Len(posted'),
         \A i \in DOMAIN posted : posted'[i] = posted[i],
         \A k \in Ways : PlaysBy(k)' /\ ~PlaysBy(k) => e > begun,
         \A i \in DOMAIN posted' : i > Len(posted) =>
           /\ \A k \in Ways : Tells(posted'[i], k) => PlaysBy(k)'
           /\ \A k \in Ways : Denies(posted'[i], k) /\ PlaysBy(k)' => e < begun',
         \A k \in Ways : \A i, j \in DOMAIN posted' :
           i > Len(posted) /\ j > i => ~(Denies(posted'[i], k) /\ Tells(posted'[j], k))
  PROVE  Dated'
<1> DEFINE n == Len(posted)
<1>1. PICK since \in [DOMAIN posted -> 0..begun] : Dates(since)
  BY DEF Dated
<1>2. /\ begun \in Nat /\ n \in Nat /\ DOMAIN posted = 1..n
      /\ \A i \in DOMAIN posted : since[i] \in Nat /\ since[i] <= begun
  BY <1>1, DatesAre
<1>3. PICK dates : dates = [i \in DOMAIN posted' |-> IF i \in DOMAIN posted THEN since[i] ELSE e]
  OBVIOUS
<1>4. dates \in [DOMAIN posted' -> 0..begun']
  <2>1. \A i \in DOMAIN posted : since[i] \in 0..begun'
    BY <1>2
  <2>2. QED
    BY <1>3, <2>1
<1>5. /\ \A i \in DOMAIN posted : i \in DOMAIN posted' /\ dates[i] = since[i] /\ i <= n
      /\ \A i \in DOMAIN posted' : i \in DOMAIN posted \/ (i > n /\ dates[i] = e)
  BY <1>2, <1>3
<1> HIDE DEF n
<1>6. /\ \A x, k : (Tells(x, k)' <=> Tells(x, k)) /\ (Denies(x, k)' <=> Denies(x, k))
      /\ \A k : Free(k)' => Free(k)
  BY DEF Tells, Denies, About, IsMedia, Free, view, initial
<1>7. \A i \in DOMAIN posted : Gone(i) => Gone(i)'
  BY <1>5 DEF Gone, IsMedia
<1>8. \A i, j \in DOMAIN posted' : i <= j /\ j \in DOMAIN posted => i \in DOMAIN posted
  BY <1>2
<1>9. InOrder(dates)'
  <2> SUFFICES ASSUME NEW i \in DOMAIN posted', NEW j \in DOMAIN posted', i <= j PROVE dates[i] <= dates[j]
    BY DEF InOrder
  <2>1. CASE j \in DOMAIN posted
    BY <1>1, <1>5, <1>8, <2>1 DEF Dates, InOrder
  <2>2. CASE j \notin DOMAIN posted
    BY <1>2, <1>5, <2>2
  <2>3. QED
    BY <2>1, <2>2
<1>10. ASSUME NEW k \in Ways, NEW i \in DOMAIN posted, Denies(posted[i], k), PlaysBy(k)'
       PROVE  since[i] < begun' /\ since[i] < e
  <2>1. PlaysBy(k) => since[i] < begun
    BY <1>1, <1>10 DEF Dates, StartsSince
  <2>2. QED
    BY <1>2, <1>10, <2>1
<1>11. StartsBetween(dates)'
  <2> SUFFICES ASSUME NEW k \in Ways, NEW i \in DOMAIN posted', NEW j \in DOMAIN posted',
                      i < j, Denies(posted'[i], k), Tells(posted'[j], k)
               PROVE  dates[i] < dates[j]
    BY <1>6 DEF StartsBetween
  <2>1. i \in DOMAIN posted
    BY <1>5
  <2>2. CASE j \in DOMAIN posted
    <3>1. since[i] < since[j]
      BY <1>1, <2>1, <2>2 DEF Dates, StartsBetween
    <3>2. QED
      BY <1>5, <2>1, <2>2, <3>1
  <2>3. CASE j \notin DOMAIN posted
    <3>1. j > n /\ dates[j] = e
      BY <1>5, <2>3
    <3>2. PlaysBy(k)'
      BY <3>1 DEF n
    <3>3. QED
      BY <1>5, <1>10, <2>1, <3>1, <3>2
  <2>4. QED
    BY <2>2, <2>3
<1>12. StartsSince(dates)'
  <2> SUFFICES ASSUME NEW k \in Ways, NEW i \in DOMAIN posted', Denies(posted'[i], k), PlaysBy(k)'
               PROVE  dates[i] < begun'
    BY <1>6 DEF StartsSince
  <2>1. CASE i \in DOMAIN posted
    BY <1>5, <1>10, <2>1
  <2>2. CASE i \notin DOMAIN posted
    BY <1>5, <2>2 DEF n
  <2>3. QED
    BY <2>1, <2>2
<1>13. ASSUME NEW k \in Ways, PlaysBy(k)', PlaysBy(k) => begun > 0
       PROVE  begun' > 0 /\ e > 0
  BY <1>2, <1>13
<1>14. StartsUnheard(dates)'
  <2> SUFFICES ASSUME NEW k \in Ways, Free(k)
               PROVE  /\ PlaysBy(k)' => begun' > 0
                      /\ \A i \in DOMAIN posted' : Tells(posted'[i], k) => dates[i] > 0 \/ (k = "cast" /\ Gone(i)')
    BY <1>6 DEF StartsUnheard
  <2>1. /\ PlaysBy(k) => begun > 0
        /\ \A i \in DOMAIN posted : Tells(posted[i], k) => since[i] > 0 \/ (k = "cast" /\ Gone(i))
    BY <1>1 DEF Dates, StartsUnheard
  <2>2. ASSUME NEW i \in DOMAIN posted', Tells(posted'[i], k) PROVE dates[i] > 0 \/ (k = "cast" /\ Gone(i)')
    <3>1. CASE i \in DOMAIN posted
      BY <1>5, <1>7, <2>1, <2>2, <3>1
    <3>2. CASE i \notin DOMAIN posted
      <4>1. i > n /\ dates[i] = e
        BY <1>5, <3>2
      <4>2. PlaysBy(k)'
        BY <2>2, <4>1 DEF n
      <4>3. QED
        BY <1>13, <2>1, <4>1, <4>2
    <3>3. QED
      BY <3>1, <3>2
  <2>3. QED
    BY <1>13, <2>1, <2>2
<1>15. QED
  BY <1>4, <1>9, <1>11, <1>12, <1>14 DEF Dated, Dates

\* The oldest post is taken.  If that spends a session, the post tells of one
\* that the hub did not hold to be on, and holds to be on from then.
LEMMA TakenDated ==
  ASSUME TypeOK, Dated, posted # << >>, posted' = Tail(posted), UNCHANGED <<bar, cast>>,
         NEW spent \in {0, 1}, begun' \in Nat, begun' = begun - spent,
         spent = 1 => \E k \in Ways : /\ Tells(Head(posted), k) /\ Free(k) /\ ~Free(k)'
                                      /\ k = "cast" => settled /\ ~Gone(1),
         \A k \in Ways : Free(k)' =>
           \/ Free(k)
           \/ Denies(Head(posted), k)
           \/ ~PlaysBy(k) /\ \A i \in DOMAIN posted : i > 1 /\ Tells(posted[i], k) => k = "cast" /\ Gone(i)
  PROVE  Dated'
<1> DEFINE n == Len(posted) - 1
<1>1. PICK since \in [DOMAIN posted -> 0..begun] : Dates(since)
  BY DEF Dated
<1>2. /\ begun \in Nat /\ \A i \in DOMAIN posted : since[i] \in Nat /\ since[i] <= begun
      /\ n \in Nat /\ DOMAIN posted = 1..(n + 1) /\ DOMAIN posted' = 1..n /\ Head(posted) = posted[1]
      /\ \A i \in DOMAIN posted' : posted'[i] = posted[i + 1]
  BY <1>1, DatesAre, TailIs DEF DevicesOK
<1> HIDE DEF n
<1>3. 1 \in DOMAIN posted /\ \A i \in DOMAIN posted' : i + 1 \in DOMAIN posted /\ i + 1 > 1
  BY <1>2
<1>4. /\ \A x, k : (Tells(x, k)' <=> Tells(x, k)) /\ (Denies(x, k)' <=> Denies(x, k))
      /\ \A k : PlaysBy(k)' <=> PlaysBy(k)
  BY DEF Tells, Denies, About, IsMedia, PlaysBy, HasAir
<1>5. \A i \in DOMAIN posted' : Gone(i)' <=> Gone(i + 1)
  <2> SUFFICES ASSUME NEW i \in DOMAIN posted' PROVE Gone(i)' <=> Gone(i + 1)
    OBVIOUS
  <2>1. ASSUME Gone(i)' PROVE Gone(i + 1)
    <3>1. PICK j \in DOMAIN posted' : j > i /\ IsMedia(posted'[j], cast) /\ posted'[j].player = "none"
      BY <2>1 DEF Gone, IsMedia
    <3>2. PICK m \in DOMAIN posted : m = j + 1
      BY <1>3
    <3>3. m > i + 1 /\ posted'[j] = posted[m]
      BY <1>2, <3>1, <3>2
    <3>4. QED
      BY <3>1, <3>3 DEF Gone
  <2>2. ASSUME Gone(i + 1) PROVE Gone(i)'
    <3>1. PICK m \in DOMAIN posted : m > i + 1 /\ IsMedia(posted[m], cast) /\ posted[m].player = "none"
      BY <2>2 DEF Gone
    <3>2. PICK j \in DOMAIN posted' : m = j + 1
      <4>1. m - 1 \in DOMAIN posted' /\ m = (m - 1) + 1
        BY <1>2, <3>1
      <4>2. QED
        BY <4>1
    <3>3. j > i /\ posted'[j] = posted[m]
      BY <1>2, <3>1, <3>2
    <3>4. QED
      BY <3>1, <3>3 DEF Gone, IsMedia
  <2>3. QED
    BY <2>1, <2>2
<1>6. ASSUME NEW i \in DOMAIN posted'
      PROVE  /\ since[1] <= since[i + 1]
             /\ \A k \in Ways : Denies(Head(posted), k) /\ Tells(posted[i + 1], k) => since[1] < since[i + 1]
  <2>1. PICK j \in DOMAIN posted : j = i + 1 /\ 1 <= j /\ 1 < j
    BY <1>2, <1>3
  <2>2. since[1] <= since[j]
    BY <1>1, <1>3, <2>1 DEF Dates, InOrder
  <2>3. \A k \in Ways : Denies(posted[1], k) /\ Tells(posted[j], k) => since[1] < since[j]
    BY <1>1, <1>3, <2>1 DEF Dates, StartsBetween
  <2>4. QED
    BY <1>2, <2>1, <2>2, <2>3
<1>7. \A k \in Ways : Denies(Head(posted), k) /\ PlaysBy(k) => since[1] < begun
  BY <1>1, <1>2, <1>3 DEF Dates, StartsSince
<1>8. ASSUME spent = 1
      PROVE  since[1] >= 1 /\ \E k \in Ways : /\ ~Free(k)' /\ (k = "cast" => settled)
                                              /\ \A o \in Ways : o # k => Denies(Head(posted), o)
  <2>1. PICK k \in Ways : /\ Tells(Head(posted), k) /\ Free(k) /\ ~Free(k)'
                          /\ k = "cast" => settled /\ ~Gone(1)
    BY <1>8
  <2>2. since[1] > 0
    BY <1>1, <1>2, <1>3, <2>1 DEF Dates, StartsUnheard
  <2>3. \A o \in Ways : o # k => Denies(Head(posted), o)
    BY <2>1 DEF Denies
  <2>4. since[1] >= 1
    BY <1>2, <1>3, <2>2
  <2>5. QED
    BY <2>1, <2>3, <2>4
<1>9. \A i \in DOMAIN posted' : since[i + 1] \in Nat /\ since[i + 1] <= begun /\ since[i + 1] >= spent
  <2> SUFFICES ASSUME NEW i \in DOMAIN posted'
               PROVE  since[i + 1] \in Nat /\ since[i + 1] <= begun /\ since[i + 1] >= spent
    OBVIOUS
  <2>1. since[i + 1] \in Nat /\ since[i + 1] <= begun
    BY <1>2, <1>3
  <2>2. CASE spent = 1
    <3>1. since[1] <= since[i + 1]
      BY <1>6
    <3>2. QED
      BY <1>2, <1>3, <1>8, <2>1, <2>2, <3>1
  <2>3. CASE spent = 0
    BY <2>1, <2>3
  <2>4. QED
    BY <2>1, <2>2, <2>3
<1>10. PICK dates : dates = [i \in DOMAIN posted' |-> since[i + 1] - spent]
  OBVIOUS
<1>11. dates \in [DOMAIN posted' -> 0..begun']
  <2>1. \A i \in DOMAIN posted' : since[i + 1] - spent \in 0..begun'
    BY <1>2, <1>9
  <2>2. QED
    BY <1>10, <2>1
<1>12. \A i \in DOMAIN posted' : dates[i] = since[i + 1] - spent
  BY <1>10
<1>13. InOrder(dates)'
  <2> SUFFICES ASSUME NEW i \in DOMAIN posted', NEW j \in DOMAIN posted', i <= j PROVE dates[i] <= dates[j]
    BY DEF InOrder
  <2>1. since[i + 1] <= since[j + 1]
    <3>1. i + 1 <= j + 1
      BY <1>2
    <3>2. QED
      BY <1>1, <1>3, <3>1 DEF Dates, InOrder
  <2>2. QED
    BY <1>9, <1>12, <2>1
<1>14. StartsBetween(dates)'
  <2> SUFFICES ASSUME NEW k \in Ways, NEW i \in DOMAIN posted', NEW j \in DOMAIN posted',
                      i < j, Denies(posted[i + 1], k), Tells(posted[j + 1], k)
               PROVE  dates[i] < dates[j]
    BY <1>2, <1>4 DEF StartsBetween
  <2>1. i + 1 < j + 1
    BY <1>2
  <2>2. since[i + 1] < since[j + 1]
    BY <1>1, <1>3, <2>1 DEF Dates, StartsBetween
  <2>3. QED
    BY <1>9, <1>12, <2>2
<1>15. StartsSince(dates)'
  <2> SUFFICES ASSUME NEW k \in Ways, NEW i \in DOMAIN posted', Denies(posted[i + 1], k), PlaysBy(k)
               PROVE  dates[i] < begun'
    BY <1>2, <1>4 DEF StartsSince
  <2>1. since[i + 1] < begun
    BY <1>1, <1>3 DEF Dates, StartsSince
  <2>2. QED
    BY <1>2, <1>9, <1>12, <2>1
\* Who is denied by the head starts later than it.
<1>16. ASSUME NEW k \in Ways, Denies(Head(posted), k)
       PROVE  /\ PlaysBy(k) => begun' > 0
              /\ \A i \in DOMAIN posted' : Tells(posted[i + 1], k) => dates[i] > 0
  <2>1. PlaysBy(k) => since[1] < begun
    BY <1>7, <1>16
  <2>2. \A i \in DOMAIN posted' : Tells(posted[i + 1], k) => since[1] < since[i + 1]
    BY <1>6, <1>16
  <2>3. since[1] \in Nat /\ since[1] >= spent
    BY <1>2, <1>3, <1>8
  <2>4. QED
    BY <1>2, <1>9, <1>12, <2>1, <2>2, <2>3
<1>17. StartsUnheard(dates)'
  <2> SUFFICES ASSUME NEW k \in Ways, Free(k)'
               PROVE  /\ PlaysBy(k) => begun' > 0
                      /\ \A i \in DOMAIN posted' :
                           Tells(posted[i + 1], k) => dates[i] > 0 \/ (k = "cast" /\ Gone(i + 1))
    BY <1>2, <1>4, <1>5 DEF StartsUnheard
  <2>1. CASE Denies(Head(posted), k)
    BY <1>16, <2>1
  <2>2. CASE ~Denies(Head(posted), k)
    <3>1. spent = 0
      BY <1>8, <2>2
    <3>2. begun' = begun /\ \A i \in DOMAIN posted' : dates[i] = since[i + 1]
      BY <1>2, <1>9, <1>12, <3>1
    <3>3. CASE Free(k)
      BY <1>1, <1>3, <3>2, <3>3 DEF Dates, StartsUnheard
    <3>4. CASE ~PlaysBy(k) /\ \A i \in DOMAIN posted : i > 1 /\ Tells(posted[i], k) => k = "cast" /\ Gone(i)
      BY <1>3, <3>4
    <3>5. QED
      BY <2>2, <3>3, <3>4
  <2>3. QED
    BY <2>1, <2>2
<1>18. QED
  BY <1>11, <1>13, <1>14, <1>15, <1>17 DEF Dated, Dates

\* Another connection is the one that counts, and has not said anything yet.
LEMMA KeptDated ==
  ASSUME TypeOK, Dated, UNCHANGED <<bar, posted, view, initial, staleApp, wiped, begun>>,
         \A i \in DOMAIN posted : ~IsMedia(posted[i], cast')
  PROVE  Dated'
<1>1. PICK since \in [DOMAIN posted -> 0..begun] : Dates(since)
  BY DEF Dated
<1>2. \A i \in DOMAIN posted, k \in Ways :
        /\ Tells(posted[i], k)' => k # "cast" /\ Tells(posted[i], k)
        /\ Denies(posted[i], k)' => Denies(posted[i], k)
  <2>1. \A i \in DOMAIN posted, k \in Ways : Tells(posted[i], k)' => k # "cast" /\ Tells(posted[i], k)
    BY DEF Tells, About, IsMedia, Ways
  <2>2. \A i \in DOMAIN posted, k \in Ways : Denies(posted[i], k)' => Denies(posted[i], k)
    BY DEF Denies, Tells, About, IsMedia, Ways
  <2>3. QED
    BY <2>1, <2>2
<1>3. \A k : (PlaysBy(k)' <=> PlaysBy(k)) /\ (Free(k)' <=> Free(k))
  BY DEF PlaysBy, HasAir, Free, view, initial
<1>4. InOrder(since)'
  BY <1>1 DEF Dates, InOrder
<1>5. StartsBetween(since)'
  BY <1>1, <1>2 DEF Dates, StartsBetween
<1>6. StartsSince(since)'
  BY <1>1, <1>2, <1>3 DEF Dates, StartsSince
<1>7. StartsUnheard(since)'
  BY <1>1, <1>2, <1>3 DEF Dates, StartsUnheard
<1>8. QED
  BY <1>1, <1>4, <1>5, <1>6, <1>7 DEF Dated, Dates

----------------------------------------------------------------------------
\* What posts say, and when the hub signals.

\* A non-empty set of naturals has a smallest element.
LEMMA Smallest ==
  ASSUME NEW T, T \subseteq Nat, T # {}
  PROVE  \E m \in T : \A k \in T : ~(k < m)
<1>1. \E m \in T : \A k \in T : <<k, m>> \notin OpToRel(<, Nat)
  BY NatLessThanWellFounded, WFMin
<1>2. \A k, m \in Nat : k < m => <<k, m>> \in OpToRel(<, Nat)
  BY DEF OpToRel
<1>3. QED
  BY <1>1, <1>2

\* Of a connection's media statuses one is the newest.
LEMMA NewestExists ==
  ASSUME TypeOK, NEW c, NEW i \in DOMAIN posted, IsMedia(posted[i], c)
  PROVE  \E j \in DOMAIN posted : j >= i /\ IsMedia(posted[j], c) /\ NewestOf(c, j)
<1> DEFINE n == Len(posted)
           T == {m \in Nat : \E j \in DOMAIN posted : j >= i /\ IsMedia(posted[j], c) /\ m = n - j}
<1>1. n \in Nat /\ DOMAIN posted = 1..n
  BY LenProperties DEF DevicesOK
<1>2. n - i \in T
  BY <1>1
<1>3. PICK m \in T : \A k \in T : ~(k < m)
  BY <1>2, Smallest
<1>4. PICK j \in DOMAIN posted : j >= i /\ IsMedia(posted[j], c) /\ m = n - j
  BY <1>3
<1>5. NewestOf(c, j)
  <2> SUFFICES ASSUME NEW k \in DOMAIN posted, k > j, IsMedia(posted[k], c) PROVE FALSE
    BY DEF NewestOf
  <2>1. n - k \in T /\ n - k < m
    BY <1>1, <1>4
  <2>2. QED
    BY <1>3, <2>1
<1>6. QED
  BY <1>4, <1>5

\* What a post tells and denies.
LEMMA TellsIs ==
  ASSUME NEW x
  PROVE  /\ Tells(x, "air") <=> x.kind = "flags" /\ x.air = "on"
         /\ Tells(x, "cast") <=> IsMedia(x, cast) /\ x.player = "playing"
         /\ Denies(x, "air") <=> (x.kind = "flags" /\ x.air # "on") \/ (IsMedia(x, cast) /\ x.player = "playing")
         /\ Denies(x, "cast") <=> (IsMedia(x, cast) /\ x.player # "playing") \/ (x.kind = "flags" /\ x.air = "on")
<1>1. /\ Tells(x, "air") <=> x.kind = "flags" /\ x.air = "on"
      /\ Tells(x, "cast") <=> IsMedia(x, cast) /\ x.player = "playing"
      /\ About(x, "air") <=> x.kind = "flags"
      /\ About(x, "cast") <=> IsMedia(x, cast)
  BY DEF Tells, About
<1>2. /\ (\E o \in Ways \ {"air"} : Tells(x, o)) <=> Tells(x, "cast")
      /\ (\E o \in Ways \ {"cast"} : Tells(x, o)) <=> Tells(x, "air")
  BY DEF Ways
<1>3. /\ Denies(x, "air") <=> (About(x, "air") /\ ~Tells(x, "air")) \/ Tells(x, "cast")
      /\ Denies(x, "cast") <=> (About(x, "cast") /\ ~Tells(x, "cast")) \/ Tells(x, "air")
  BY <1>2 DEF Denies
<1>4. QED
  BY <1>1, <1>3

\* No app, no player that is not said to be gone.
LEMMA GoneWithTheApp ==
  ASSUME TypeOK, MediaIsTrue, ~HasApp(bar), ~AppOf(cast)
  PROVE  /\ ~PlaysBy("cast")
         /\ \A i \in DOMAIN posted : Tells(posted[i], "cast") => Gone(i)
<1>1. ~PlaysBy("cast") /\ PlayerOf(bar) = "none"
  BY PlayersAre DEF PlaysBy, HasApp, DevicesOK
<1> SUFFICES ASSUME NEW i \in DOMAIN posted, Tells(posted[i], "cast") PROVE Gone(i)
  BY <1>1
<1>2. IsMedia(posted[i], cast) /\ posted[i].player = "playing"
  BY DEF Tells, About
<1>3. PICK j \in DOMAIN posted : j >= i /\ IsMedia(posted[j], cast) /\ NewestOf(cast, j)
  BY <1>2, NewestExists
<1>4. posted[j].by = cast /\ posted[j] \in Posts
  BY <1>3, LenProperties DEF IsMedia, DevicesOK
<1>5. cast \in Conns
  BY <1>3, <1>4, PostIs DEF IsMedia
<1>6. posted[j].player = "none"
  BY <1>1, <1>3, <1>5 DEF MediaIsTrue
<1>7. j # i
  BY <1>2, <1>6
<1>8. j > i
  BY <1>3, <1>7, LenProperties DEF DevicesOK
<1>9. QED
  BY <1>3, <1>6, <1>8 DEF Gone

\* What the hub does not hold to be on and is told of has begun.
LEMMA HeadHasBegun ==
  ASSUME TypeOK, Dated, posted # << >>, NEW k \in Ways, Free(k), Tells(Head(posted), k), ~(k = "cast" /\ Gone(1))
  PROVE  begun > 0
<1>1. PICK since \in [DOMAIN posted -> 0..begun] : Dates(since)
  BY DEF Dated
<1>2. 1 \in DOMAIN posted /\ Head(posted) = posted[1]
  BY TailIs, HeadTailProperties, LenProperties, EmptySeq DEF DevicesOK
<1>3. since[1] > 0 /\ since[1] <= begun /\ since[1] \in Nat /\ begun \in Nat
  BY <1>1, <1>2, DatesAre DEF Dates, StartsUnheard
<1>4. QED
  BY <1>3

\* A signal that counts spends a session, so one must have begun.
LEMMA EdgeIs ==
  ASSUME TypeOK, SignalsAreStarts, NEW by, NEW known, ListenEdge(by, known),
         UNCHANGED told \/ wiped \/ Overtaken \/ begun > 0
  PROVE  /\ SignalsAreStarts' /\ begun' \in Nat
         /\ \E spent \in {0, 1} :
              /\ begun' = begun - spent
              /\ spent = 1 => ~wiped /\ ~Overtaken /\ ~UNCHANGED told
<1>1. begun \in Nat /\ alarms = {}
  BY DEF HistoryOK, SignalsAreStarts
<1>2. CASE UNCHANGED told
  <2>1. alarms' = alarms /\ begun' = begun - 0
    BY <1>1, <1>2 DEF told
  <2>2. QED
    BY <1>1, <2>1 DEF SignalsAreStarts
<1>3. CASE ~UNCHANGED told
  <2>1. /\ alarms' = IF begun = 0 /\ ~wiped /\ ~Overtaken THEN alarms \cup {by} ELSE alarms
        /\ begun' = IF begun = 0 \/ wiped \/ Overtaken THEN begun ELSE begun - 1
    BY <1>3 DEF ListenEdge
  <2>2. CASE begun > 0 /\ ~wiped /\ ~Overtaken
    <3>1. alarms' = alarms /\ begun' = begun - 1
      BY <1>1, <2>1, <2>2
    <3>2. QED
      BY <1>1, <1>3, <2>2, <3>1 DEF SignalsAreStarts
  <2>3. CASE wiped \/ Overtaken
    <3>1. alarms' = alarms /\ begun' = begun - 0
      BY <1>1, <2>1, <2>3
    <3>2. QED
      BY <1>1, <3>1 DEF SignalsAreStarts
  <2>4. QED
    BY <1>3, <2>2, <2>3
<1>4. QED
  BY <1>2, <1>3

----------------------------------------------------------------------------
\* The actions.

LEMMA SameSignals ==
  ASSUME TypeOK, SignalsOK, UNCHANGED <<bar, posted, cast, view, initial, staleApp, wiped, begun, alarms>>
  PROVE  SignalsOK'
<1>1. \A k : Free(k)' <=> Free(k)
  BY DEF Free, view, initial
<1>2. begun' = begun + 0
  BY DEF HistoryOK, initial
<1>3. Dated'
  BY <1>1, <1>2, SameDated DEF SignalsOK
<1>4. QED
  BY <1>3 DEF SignalsOK, SignalsAreStarts

\* The bar does something else.
LEMMA BecomesSignals ==
  ASSUME TypeOK, SignalsOK, NEW d \in Doings, Becomes(d), UNCHANGED <<cast, view, initial, wiped, alarms>>
  PROVE  SignalsOK'
<1>1. /\ Len(posted') \in Nat /\ Len(posted) <= Len(posted') /\ DOMAIN posted' = 1..Len(posted')
      /\ \A i \in DOMAIN posted : posted'[i] = posted[i]
      /\ \A i \in DOMAIN posted' : i > Len(posted) =>
              \/ posted'[i] = Status /\ HasApp(d) # HasApp(bar)
              \/ \E c \in Conns : posted'[i] = Media(c, PlayerOf(d))
  BY BecomesIs
<1>2. /\ begun \in Nat /\ begun' \in Nat /\ begun <= begun' /\ bar \in Doings
      /\ Begins(d) => begun' > begun
      /\ staleApp => staleApp'
  BY DEF Becomes, HistoryOK, DevicesOK
<1>3. /\ PlaysBy("air")' <=> HasAir(d)
      /\ PlaysBy("cast")' <=> d = "playing"
      /\ \A k \in Ways : k = "air" \/ k = "cast"
  BY DEF Becomes, PlaysBy, Ways, HasAir
<1>4. \A k \in Ways : PlaysBy(k)' /\ ~PlaysBy(k) => begun' > begun
  BY <1>2, <1>3 DEF Begins, PlaysBy
<1>5. /\ d = "playing" <=> PlayerOf(d) = "playing"
      /\ d = "playing" => ~HasAir(d)
  BY DEF PlayerOf, HasAir
<1>6. ASSUME NEW i \in DOMAIN posted', i > Len(posted)
      PROVE  /\ ~Tells(posted'[i], "air")
             /\ Tells(posted'[i], "cast") => d = "playing"
             /\ Denies(posted'[i], "air") => d = "playing"
             /\ Denies(posted'[i], "cast") => d # "playing"
  <2>1. CASE posted'[i] = Status /\ HasApp(d) # HasApp(bar)
    <3>1. posted'[i].kind = "status"
      BY <2>1, KindsAre
    <3>2. QED
      BY <2>1, <3>1, TellsIs DEF IsMedia
  <2>2. CASE \E c \in Conns : posted'[i] = Media(c, PlayerOf(d))
    <3>1. posted'[i].kind = "media" /\ posted'[i].player = PlayerOf(d)
      BY <2>2, KindsAre
    <3>2. QED
      BY <1>5, <3>1, TellsIs DEF IsMedia
  <2>3. QED
    BY <1>1, <1>6, <2>1, <2>2
<1>7. \A i \in DOMAIN posted' : i > Len(posted) =>
        /\ \A k \in Ways : Tells(posted'[i], k) => PlaysBy(k)'
        /\ \A k \in Ways : Denies(posted'[i], k) => ~PlaysBy(k)'
  BY <1>3, <1>5, <1>6
<1>8. \A k \in Ways : \A i, j \in DOMAIN posted' :
        i > Len(posted) /\ j > i => ~(Denies(posted'[i], k) /\ Tells(posted'[j], k))
  <2> SUFFICES ASSUME NEW k \in Ways, NEW i \in DOMAIN posted', NEW j \in DOMAIN posted',
                      i > Len(posted), j > i, Denies(posted'[i], k), Tells(posted'[j], k)
               PROVE  FALSE
    OBVIOUS
  <2>1. j > Len(posted)
    BY <1>1, LenProperties DEF DevicesOK
  <2>2. QED
    BY <1>7, <2>1
<1>9. begun' <= begun'
  BY <1>2
<1>10. Dated'
  BY <1>1, <1>2, <1>4, <1>7, <1>8, <1>9, GrowsDated DEF SignalsOK
<1>11. QED
  BY <1>10 DEF SignalsOK, SignalsAreStarts

\* One thing is posted while the bar does what it does.
LEMMA PostSignals ==
  ASSUME TypeOK, SignalsOK, NEW x \in Posts, posted' = Append(posted, x),
         UNCHANGED <<bar, cast, view, initial, staleApp, wiped, alarms>>,
         begun' \in Nat, begun <= begun',
         \A k \in Ways : /\ Tells(x, k) => PlaysBy(k)
                         /\ Denies(x, k) /\ PlaysBy(k) => begun < begun'
  PROVE  SignalsOK'
<1>1. /\ Len(posted) \in Nat /\ Len(posted') \in Nat /\ Len(posted') = Len(posted) + 1
      /\ DOMAIN posted' = 1..Len(posted') /\ Len(posted) <= Len(posted')
      /\ \A i \in DOMAIN posted : posted'[i] = posted[i]
      /\ \A i \in DOMAIN posted' : i > Len(posted) => i = Len(posted') /\ posted'[i] = x
  BY AppendIs DEF DevicesOK
<1>2. begun \in Nat /\ begun <= begun
  BY DEF HistoryOK
<1>3. \A k : PlaysBy(k)' <=> PlaysBy(k)
  BY DEF PlaysBy, HasAir
<1>4. Dated'
  <2>1. \A k \in Ways : \A i, j \in DOMAIN posted' :
          i > Len(posted) /\ j > i => ~(Denies(posted'[i], k) /\ Tells(posted'[j], k))
    BY <1>1
  <2>2. \A i \in DOMAIN posted' : i > Len(posted) =>
           /\ \A k \in Ways : Tells(posted'[i], k) => PlaysBy(k)'
           /\ \A k \in Ways : Denies(posted'[i], k) /\ PlaysBy(k)' => begun < begun'
    BY <1>1, <1>3
  <2>3. \A k \in Ways : PlaysBy(k)' /\ ~PlaysBy(k) => begun > begun
    BY <1>3
  <2>4. QED
    BY <1>1, <1>2, <2>1, <2>2, <2>3, GrowsDated DEF SignalsOK
<1>5. QED
  BY <1>4 DEF SignalsOK, SignalsAreStarts

LEMMA ThreadsSignal ==
  ASSUME TypeOK, SignalsOK, Resolved \/ RecordRemoved \/ \E c \in Conns : MediaAnswers(c)
  PROVE  SignalsOK'
<1> USE DEF told, gaps, lapses
<1>1. begun \in Nat /\ bar \in Doings /\ \A k \in Ways : k = "air" \/ k = "cast"
  BY DEF HistoryOK, DevicesOK, Ways
<1>2. CASE Resolved
  <2>1. PICK f \in {"on", "off", "none"} : f = IF HasAir(bar) THEN "on" ELSE "off"
    OBVIOUS
  <2>2. /\ posted' = Append(posted, Flags(f)) /\ begun' = begun
        /\ UNCHANGED <<bar, cast, view, initial, staleApp, wiped, alarms>>
    BY <1>2, <2>1 DEF Resolved
  <2>3. Flags(f) \in Posts /\ Flags(f).kind = "flags" /\ Flags(f).air = f
    BY PostsAre, KindsAre
  <2>4. \A k \in Ways : /\ Tells(Flags(f), k) => PlaysBy(k)
                        /\ Denies(Flags(f), k) => ~PlaysBy(k)
    <3>1. PlaysBy("air") <=> f = "on"
      BY <2>1 DEF PlaysBy
    <3>2. f = "on" => ~PlaysBy("cast")
      BY <2>1 DEF PlaysBy, HasAir
    <3>3. QED
      BY <1>1, <2>3, <3>1, <3>2, TellsIs DEF IsMedia
  <2>5. begun' \in Nat /\ begun <= begun'
    BY <1>1, <2>2
  <2>6. QED
    BY <2>2, <2>3, <2>4, <2>5, PostSignals
<1>3. CASE RecordRemoved
  <2>1. /\ posted' = Append(posted, Flags("none")) /\ begun' = (IF HasAir(bar) THEN begun + 1 ELSE begun)
        /\ UNCHANGED <<bar, cast, view, initial, staleApp, wiped, alarms>>
    BY <1>3 DEF RecordRemoved
  <2>2. Flags("none") \in Posts /\ Flags("none").kind = "flags" /\ Flags("none").air = "none"
    BY PostsAre, KindsAre
  <2>3. begun' \in Nat /\ begun <= begun' /\ (HasAir(bar) => begun < begun')
    BY <1>1, <2>1, <2>2
  <2>4. \A k \in Ways : /\ Tells(Flags("none"), k) => PlaysBy(k)
                        /\ Denies(Flags("none"), k) /\ PlaysBy(k) => begun < begun'
    BY <1>1, <2>2, <2>3, TellsIs DEF IsMedia, PlaysBy
  <2>5. QED
    BY <2>1, <2>2, <2>3, <2>4, PostSignals
<1>4. ASSUME NEW c \in Conns, MediaAnswers(c) PROVE SignalsOK'
  <2>1. /\ begun' = begun /\ UNCHANGED <<bar, cast, view, initial, staleApp, wiped, alarms>>
        /\ posted' = IF phase[c] = "live" THEN Append(posted, Media(c, PlayerOf(bar))) ELSE posted
    BY <1>4 DEF MediaAnswers
  <2>2. CASE phase[c] = "live"
    <3>1. Media(c, PlayerOf(bar)) \in Posts /\ Media(c, PlayerOf(bar)).kind = "media"
          /\ Media(c, PlayerOf(bar)).player = PlayerOf(bar)
      BY <1>1, PostsAre, PlayersAre, KindsAre
    <3>2. begun' \in Nat /\ begun <= begun'
      BY <1>1, <2>1
    <3>3. PlayerOf(bar) = "playing" <=> bar = "playing"
      BY DEF PlayerOf
    <3>4. \A k \in Ways : /\ Tells(Media(c, PlayerOf(bar)), k) => PlaysBy(k)
                          /\ Denies(Media(c, PlayerOf(bar)), k) => ~PlaysBy(k)
      <4>1. bar = "playing" => ~PlaysBy("air")
        BY DEF PlaysBy, HasAir
      <4>2. PlaysBy("cast") <=> bar = "playing"
        BY DEF PlaysBy
      <4>3. QED
        BY <1>1, <3>1, <3>3, <4>1, <4>2, TellsIs DEF IsMedia
    <3>5. QED
      BY <2>1, <2>2, <3>1, <3>2, <3>4, PostSignals
  <2>3. CASE phase[c] # "live"
    BY <2>1, <2>3, SameSignals
  <2>4. QED
    BY <2>2, <2>3
<1>5. QED
  BY <1>2, <1>3, <1>4

\* A connection that is back repeats nothing that is played.
LEMMA LinkBackSignals ==
  ASSUME TypeOK, SignalsOK, NEW c \in Conns, LinkBack(c)
  PROVE  SignalsOK'
<1>1. /\ Len(posted') \in Nat /\ Len(posted) <= Len(posted') /\ DOMAIN posted' = 1..Len(posted')
      /\ \A i \in DOMAIN posted : posted'[i] = posted[i]
      /\ \A i \in DOMAIN posted' : i > Len(posted) =>
           posted'[i] = Status \/ (posted'[i] = Media(c, "none") /\ ~HasApp(bar))
  BY RetellsIs
<1>2. /\ UNCHANGED <<bar, cast, view, initial, staleApp, wiped, begun, alarms>>
      /\ begun \in Nat /\ begun <= begun
  BY DEF LinkBack, told, gaps, lapses, HistoryOK
<1>3. \A k : PlaysBy(k)' <=> PlaysBy(k)
  BY <1>2 DEF PlaysBy, HasAir
<1>4. ASSUME NEW i \in DOMAIN posted', i > Len(posted), NEW k \in Ways
      PROVE  ~Tells(posted'[i], k) /\ (Denies(posted'[i], k) => ~PlaysBy(k))
  <2>1. k = "air" \/ k = "cast"
    BY DEF Ways
  <2>2. CASE posted'[i] = Status
    BY <2>1, <2>2, KindsAre, TellsIs DEF IsMedia
  <2>3. CASE posted'[i] = Media(c, "none") /\ ~HasApp(bar)
    <3>1. posted'[i].kind = "media" /\ posted'[i].player = "none"
      BY <2>3, KindsAre
    <3>2. ~PlaysBy("cast")
      BY <2>3 DEF PlaysBy, HasApp
    <3>3. QED
      BY <2>1, <3>1, <3>2, TellsIs DEF IsMedia
  <2>4. QED
    BY <1>1, <1>4, <2>2, <2>3
<1>5. \A k \in Ways : \A i, j \in DOMAIN posted' :
        i > Len(posted) /\ j > i => ~(Denies(posted'[i], k) /\ Tells(posted'[j], k))
  <2> SUFFICES ASSUME NEW k \in Ways, NEW i \in DOMAIN posted', NEW j \in DOMAIN posted',
                      i > Len(posted), j > i
               PROVE  ~Tells(posted'[j], k)
    OBVIOUS
  <2>1. j > Len(posted)
    BY <1>1, LenProperties DEF DevicesOK
  <2>2. QED
    BY <1>4, <2>1
<1>6. \A i \in DOMAIN posted' : i > Len(posted) =>
         /\ \A k \in Ways : Tells(posted'[i], k) => PlaysBy(k)'
         /\ \A k \in Ways : Denies(posted'[i], k) /\ PlaysBy(k)' => begun < begun'
  BY <1>3, <1>4
<1>7. \A k \in Ways : PlaysBy(k)' /\ ~PlaysBy(k) => begun > begun
  BY <1>3
<1>8. Dated'
  BY <1>1, <1>2, <1>5, <1>6, <1>7, GrowsDated DEF SignalsOK
<1>9. QED
  BY <1>2, <1>8 DEF SignalsOK, SignalsAreStarts

LEMMA KeptSignals ==
  ASSUME TypeOK, MediaIsTrue, SignalsOK, NEW c \in Conns, ConnectionKept(c)
  PROVE  SignalsOK'
<1>1. /\ UNCHANGED <<bar, posted, view, initial, staleApp, wiped, begun, alarms>>
      /\ cast' = c /\ phase[c] = "made"
  BY DEF ConnectionKept, told, gaps, lapses
<1>2. \A i \in DOMAIN posted : ~IsMedia(posted[i], cast')
  BY <1>1 DEF MediaIsTrue
<1>3. Dated'
  BY <1>1, <1>2, KeptDated DEF SignalsOK
<1>4. QED
  BY <1>1, <1>3 DEF SignalsOK, SignalsAreStarts

\* mark_failed: what is found from then on counts as begun.
LEMMA MarkedSignals ==
  ASSUME TypeOK, SignalsOK, MarkFailed,
         UNCHANGED <<bar, posted, cast, view, due, seen, airSettled, staleApp, wiped, alarms>>
  PROVE  SignalsOK'
<1>1. PICK up \in {0, 1} : up = IF ~settled /\ CastPlaysSomewhere THEN 1 ELSE 0
  OBVIOUS
<1>2. begun' = begun + up /\ up \in Nat /\ settled'
  BY <1>1 DEF MarkFailed, HistoryOK
<1>3. \A k \in Ways : Free(k)' => \/ Free(k)
                                  \/ up > 0
                                  \/ ~PlaysBy(k) /\ \A i \in DOMAIN posted : Tells(posted[i], k) => k = "cast" /\ Gone(i)
  <2>1. Free("air")' <=> Free("air")
    BY DEF Free, view
  <2>2. CASE settled
    BY <1>2, <2>2 DEF Free, view
  <2>3. CASE ~settled /\ CastPlaysSomewhere
    BY <1>1, <2>3
  <2>4. CASE ~CastPlaysSomewhere
    <3>1. ~PlaysBy("cast") /\ \A i \in DOMAIN posted : ~Tells(posted[i], "cast")
      BY <2>4, TellsIs DEF CastPlaysSomewhere, PlaysBy, IsMedia
    <3>2. QED
      BY <2>1, <3>1 DEF Ways
  <2>5. QED
    BY <2>2, <2>3, <2>4
<1>4. Dated'
  BY <1>2, <1>3, SameDated DEF SignalsOK
<1>5. QED
  BY <1>4 DEF SignalsOK, SignalsAreStarts

LEMMA AirDeadlineSignals ==
  ASSUME TypeOK, SignalsOK, AirplayInitialDeadline
  PROVE  SignalsOK'
<1>1. PICK up \in {0, 1} : up = IF AirPlaysSomewhere THEN 1 ELSE 0
  OBVIOUS
<1>2. begun' = begun + up /\ up \in Nat
      /\ UNCHANGED <<bar, posted, cast, view, due, seen, settled, staleApp, wiped, alarms>>
  BY <1>1 DEF AirplayInitialDeadline, HistoryOK, devices, gaps, lapses
<1>3. \A k \in Ways : Free(k)' => \/ Free(k)
                                  \/ up > 0
                                  \/ ~PlaysBy(k) /\ \A i \in DOMAIN posted : Tells(posted[i], k) => k = "cast" /\ Gone(i)
  <2>1. Free("cast")' <=> Free("cast")
    BY <1>2 DEF Free, view
  <2>2. CASE AirPlaysSomewhere
    BY <1>1, <2>2
  <2>3. CASE ~AirPlaysSomewhere
    <3>1. ~PlaysBy("air") /\ \A i \in DOMAIN posted : ~Tells(posted[i], "air")
      BY <2>3, TellsIs DEF AirPlaysSomewhere, PlaysBy
    <3>2. QED
      BY <2>1, <3>1 DEF Ways
  <2>4. QED
    BY <2>2, <2>3
<1>4. Dated'
  BY <1>2, <1>3, SameDated DEF SignalsOK
<1>5. QED
  BY <1>2, <1>4 DEF SignalsOK, SignalsAreStarts

\* What the watchdog read sets off nothing; where no app is open none is played.
LEMMA AppliesSignals ==
  ASSUME TypeOK, MediaIsTrue, SignalsOK, RunnerApplies
  PROVE  SignalsOK'
<1>1. /\ UNCHANGED <<bar, posted, cast, airView, airSettled, seen>>
      /\ appView' = captured /\ playerView' = (IF captured = appView THEN playerView ELSE "none")
      /\ ~staleApp' => captured = HasApp(bar) /\ captured = AppOf(cast)
      /\ wiped' = (wiped \/ staleApp' \/ playerView' # playerView)
      /\ due' # "never" /\ captured \in BOOLEAN /\ HasApp(bar) \in BOOLEAN
      /\ settled' => settled \/ ~captured \/ seen
  <2>1. /\ UNCHANGED <<bar, posted, cast, airView, airSettled, seen>>
        /\ appView' = captured /\ playerView' = (IF captured = appView THEN playerView ELSE "none")
        /\ wiped' = (wiped \/ staleApp' \/ playerView' # playerView)
    BY DEF RunnerApplies, ApplyCast, devices
  <2>2. ~staleApp' => captured = HasApp(bar) /\ captured = AppOf(cast)
    BY DEF RunnerApplies
  <2>3. captured \in BOOLEAN /\ HasApp(bar) \in BOOLEAN
    BY DEF ViewOK, HasApp
  <2>4. /\ due' # "never"
        /\ settled' => settled \/ ~captured \/ seen
    BY DEF RunnerApplies, SayStatus
  <2>5. QED
    BY <2>1, <2>2, <2>3, <2>4
<1>2. ListenEdge("cast", settled)
  BY DEF RunnerApplies, ApplyCast
<1>3. UNCHANGED told
  BY <1>1, <1>2 DEF ListenEdge, Listening
<1>4. begun' = begun + 0
  BY <1>3 DEF told, HistoryOK
<1>5. \A k \in Ways : Free(k)' => \/ Free(k)
                                  \/ ~PlaysBy(k) /\ \A i \in DOMAIN posted : Tells(posted[i], k) => k = "cast" /\ Gone(i)
  <2>1. Free("air")' <=> Free("air")
    BY <1>1 DEF Free
  <2>2. CASE ~HasApp(bar) /\ ~AppOf(cast)
    BY <2>1, <2>2, GoneWithTheApp DEF Ways
  <2>3. ASSUME HasApp(bar) \/ AppOf(cast), Free("cast")' PROVE Free("cast")
    <3>1. (settled \/ seen) /\ ~wiped /\ playerView # "playing"
      BY <1>1, <2>3 DEF Free
    <3>2. QED
      BY <3>1 DEF Free
  <2>4. QED
    BY <2>1, <2>2, <2>3 DEF Ways
<1>6. Dated'
  BY <1>1, <1>4, <1>5, SameDated DEF SignalsOK
<1>7. QED
  BY <1>3, <1>6 DEF SignalsOK, SignalsAreStarts, told

\* Nor does a status, which tells the app only.
LEMMA StatusSignals ==
  ASSUME TypeOK, MediaIsTrue, SignalsOK, HandleCastStatus
  PROVE  SignalsOK'
<1>1. /\ UNCHANGED <<bar, cast, airView, airSettled, seen, due, settled>>
      /\ appView' = AppOf(cast) /\ playerView' = (IF AppOf(cast) = appView THEN playerView ELSE "none")
      /\ staleApp' = (AppOf(cast) # HasApp(bar))
      /\ wiped' = (wiped \/ ((staleApp \/ staleApp' \/ due = "never") /\ playerView' # playerView))
      /\ appView \in BOOLEAN /\ HasApp(bar) \in BOOLEAN /\ AppOf(cast) \in BOOLEAN
  BY DEF HandleCastStatus, ApplyCast, devices, initial, ViewOK, HasApp, AppOf
<1>2. ListenEdge("cast", settled)
  BY DEF HandleCastStatus, ApplyCast
<1>3. UNCHANGED told
  BY <1>1, <1>2 DEF ListenEdge, Listening
<1>4. /\ posted # << >> /\ posted' = Tail(posted) /\ Head(posted).kind = "status"
  BY DEF HandleCastStatus, Handles
<1>5. \A k \in Ways : Free(k)' =>
           \/ Free(k)
           \/ ~PlaysBy(k) /\ \A i \in DOMAIN posted : i > 1 /\ Tells(posted[i], k) => k = "cast" /\ Gone(i)
  <2>1. Free("air")' <=> Free("air")
    BY <1>1 DEF Free
  <2>2. CASE ~HasApp(bar) /\ ~AppOf(cast)
    BY <2>1, <2>2, GoneWithTheApp DEF Ways
  <2>3. ASSUME HasApp(bar) \/ AppOf(cast), Free("cast")' PROVE Free("cast")
    <3>1. (settled \/ seen) /\ ~wiped /\ ~wiped' /\ playerView' # "playing"
      BY <1>1, <2>3 DEF Free
    <3>2. CASE playerView' = playerView
      BY <3>1, <3>2 DEF Free
    <3>3. CASE playerView' # playerView
      <4>1. ~staleApp /\ ~staleApp' /\ due # "never" /\ AppOf(cast) # appView
        BY <1>1, <3>1, <3>3
      <4>2. ~appView
        BY <1>1, <2>3, <4>1
      <4>3. QED
        BY <4>1, <4>2 DEF Free
    <3>4. QED
      BY <3>2, <3>3
  <2>4. QED
    BY <2>1, <2>2, <2>3 DEF Ways
<1>6. begun' \in Nat /\ begun' = begun - 0
  BY <1>3 DEF told, HistoryOK
<1>7. Dated'
  BY <1>1, <1>4, <1>5, <1>6, TakenDated DEF SignalsOK
<1>8. QED
  BY <1>3, <1>7 DEF SignalsOK, SignalsAreStarts, told

LEMMA MediaSignals ==
  ASSUME TypeOK, SignalsOK, HandleCastMedia
  PROVE  SignalsOK'
<1>1. /\ UNCHANGED <<bar, cast, airView, appView, staleApp>>
      /\ posted # << >> /\ posted' = Tail(posted) /\ Head(posted).kind = "media"
      /\ Head(posted) \in Posts
  BY HandlesTypes DEF HandleCastMedia, devices, view
<1>2. "cast" \in Ways /\ "air" \in Ways /\ \A k \in Ways : k = "air" \/ k = "cast"
  BY DEF Ways
<1>3. CASE Head(posted).by # cast
  <2>1. UNCHANGED <<playerView, initial, told, wiped>>
    BY <1>3 DEF HandleCastMedia, view
  <2>2. \A k \in Ways : Free(k)' <=> Free(k)
    BY <1>1, <2>1 DEF Free, initial
  <2>3. begun' \in Nat /\ begun' = begun - 0
    BY <2>1 DEF told, initial, HistoryOK
  <2>4. Dated'
    BY <1>1, <2>2, <2>3, TakenDated DEF SignalsOK
  <2>5. QED
    BY <2>1, <2>4 DEF SignalsOK, SignalsAreStarts, told
<1>4. CASE Head(posted).by = cast
  <2>1. /\ playerView' = Head(posted).player /\ seen' /\ ~wiped' /\ airSettled' = airSettled
        /\ ListenEdge("cast", settled) /\ SayStatus(due, TRUE, appView)
    BY <1>4 DEF HandleCastMedia
  <2>2. /\ due' # "never" <=> due # "never"
        /\ settled' => settled \/ due # "never"
    BY <2>1 DEF SayStatus
  <2>3. IsMedia(Head(posted), cast)
    BY <1>1, <1>4 DEF IsMedia
  <2>4. /\ Tells(Head(posted), "cast") <=> Head(posted).player = "playing"
        /\ Denies(Head(posted), "cast") <=> Head(posted).player # "playing"
    BY <1>1, <2>3, TellsIs
  <2>5. Head(posted) = posted[1] /\ Len(posted) \in Nat /\ DOMAIN posted = 1..Len(posted) /\ 1 \in DOMAIN posted
    BY <1>1, TailIs DEF DevicesOK
  <2>6. ~Overtaken => ~Gone(1)
    BY <1>1, <2>5 DEF Overtaken, Gone
  <2> DEFINE edge == ~wiped /\ ~Overtaken /\ ~UNCHANGED told
  <2>7. ASSUME edge
        PROVE  /\ Tells(Head(posted), "cast") /\ Free("cast") /\ ~Free("cast")' /\ settled /\ ~Gone(1)
    <3>1. settled /\ appView /\ playerView' = "playing" /\ playerView # "playing"
      BY <1>1, <2>1, <2>7 DEF ListenEdge, Listening
    <3>2. QED
      BY <1>1, <2>1, <2>4, <2>6, <2>7, <3>1 DEF Free
  <2>8. edge => begun > 0
    BY <1>1, <1>2, <2>7, HeadHasBegun DEF SignalsOK
  <2>9. UNCHANGED told \/ wiped \/ Overtaken \/ begun > 0
    BY <2>8
  <2>10. /\ SignalsAreStarts' /\ begun' \in Nat
         /\ \E spent \in {0, 1} : begun' = begun - spent /\ (spent = 1 => edge)
    BY <2>1, <2>9, EdgeIs DEF SignalsOK
  <2>11. PICK spent \in {0, 1} : begun' = begun - spent /\ (spent = 1 => edge)
    BY <2>10
  <2>12. \A k \in Ways : Free(k)' => Free(k) \/ Denies(Head(posted), k)
    <3>1. Free("air")' <=> Free("air")
      BY <1>1, <2>1 DEF Free
    <3>2. Free("cast")' => Free("cast") \/ Head(posted).player # "playing"
      BY <1>1, <2>1, <2>2 DEF Free
    <3>3. QED
      BY <1>2, <2>4, <3>1, <3>2
  <2>13. spent = 1 => \E k \in Ways : /\ Tells(Head(posted), k) /\ Free(k) /\ ~Free(k)'
                                      /\ k = "cast" => settled /\ ~Gone(1)
    BY <1>2, <2>7, <2>11
  <2> HIDE DEF edge
  <2>14. Dated'
    BY <1>1, <2>2, <2>10, <2>11, <2>12, <2>13, TakenDated DEF SignalsOK
  <2>15. QED
    BY <2>10, <2>14 DEF SignalsOK
<1>5. QED
  BY <1>3, <1>4

LEMMA AirplaySignals ==
  ASSUME TypeOK, SignalsOK, HandleAirplay
  PROVE  SignalsOK'
<1>1. /\ UNCHANGED <<bar, cast, appView, playerView, staleApp, wiped, due, seen, settled>>
      /\ posted # << >> /\ posted' = Tail(posted) /\ Head(posted).kind = "flags"
      /\ airView' = Head(posted).air
      /\ ListenEdge("air", airSettled)
  BY DEF HandleAirplay, Handles, devices, gaps, lapses
<1>2. "cast" \in Ways /\ "air" \in Ways /\ \A k \in Ways : k = "air" \/ k = "cast"
  BY DEF Ways
<1>3. /\ Tells(Head(posted), "air") <=> Head(posted).air = "on"
      /\ Denies(Head(posted), "air") <=> Head(posted).air # "on"
  BY <1>1, TellsIs DEF IsMedia
<1> DEFINE edge == ~wiped /\ ~Overtaken /\ ~UNCHANGED told
<1>4. ASSUME edge PROVE Tells(Head(posted), "air") /\ Free("air") /\ ~Free("air")'
  <2>1. airSettled /\ airView' = "on" /\ airView # "on"
    BY <1>1, <1>4 DEF ListenEdge, Listening
  <2>2. QED
    BY <1>1, <1>3, <1>4, <2>1 DEF Free
<1>5. edge => begun > 0
  BY <1>1, <1>2, <1>4, HeadHasBegun DEF SignalsOK
<1>6. UNCHANGED told \/ wiped \/ Overtaken \/ begun > 0
  BY <1>5
<1>7. /\ SignalsAreStarts' /\ begun' \in Nat
      /\ \E spent \in {0, 1} : begun' = begun - spent /\ (spent = 1 => edge)
  BY <1>1, <1>6, EdgeIs DEF SignalsOK
<1>8. PICK spent \in {0, 1} : begun' = begun - spent /\ (spent = 1 => edge)
  BY <1>7
<1>9. \A k \in Ways : Free(k)' => Free(k) \/ Denies(Head(posted), k)
  <2>1. Free("cast")' <=> Free("cast")
    BY <1>1 DEF Free
  <2>2. Free("air")' => Head(posted).air # "on"
    BY <1>1 DEF Free
  <2>3. QED
    BY <1>2, <1>3, <2>1, <2>2
<1>10. spent = 1 => \E k \in Ways : /\ Tells(Head(posted), k) /\ Free(k) /\ ~Free(k)'
                                    /\ k = "cast" => settled /\ ~Gone(1)
  BY <1>2, <1>4, <1>8
<1> HIDE DEF edge
<1>11. Dated'
  BY <1>1, <1>7, <1>8, <1>9, <1>10, TakenDated DEF SignalsOK
<1>12. QED
  BY <1>7, <1>11 DEF SignalsOK

LEMMA StepsSignal ==
  ASSUME TypeOK, MediaIsTrue, SignalsOK, Next
  PROVE  SignalsOK'
<1> USE DEF devices, view, initial, order, told, lapses, gaps
<1>1. CASE Outside
  <2>1. CASE Used
    <3>1. PICK d \in Doings : Becomes(d)
      BY <2>1 DEF Used
    <3>2. QED
      BY <2>1, <3>1, BecomesSignals DEF Used
  <2>2. CASE ResolveFails
    BY <2>2, SameSignals DEF ResolveFails
  <2>3. ASSUME NEW c \in Conns, LinkLost(c) PROVE SignalsOK'
    BY <2>3, SameSignals DEF LinkLost
  <2>4. QED
    BY <1>1, <2>1, <2>2, <2>3, ThreadsSignal, LinkBackSignals DEF Outside
<1>2. CASE Threads
  <2>1. ASSUME NEW c \in Conns, ConnectionMade(c) PROVE SignalsOK'
    BY <2>1, SameSignals DEF ConnectionMade
  <2>2. QED
    BY <1>2, <2>1, ThreadsSignal DEF Threads
<1>3. CASE Handlers
  BY <1>3, StatusSignals, MediaSignals, AirplaySignals DEF Handlers
<1>4. CASE Deadlines
  <2>1. CASE StatusWaitDeadline
    BY <2>1, MarkedSignals DEF StatusWaitDeadline
  <2>2. QED
    BY <1>4, <2>1, AirDeadlineSignals DEF Deadlines
<1>5. CASE Watchdog
  <2>1. CASE RunnerConnects \/ RunnerReads \/ WatchdogWakes
    BY <2>1, SameSignals DEF RunnerConnects, RunnerReads, WatchdogWakes
  <2>2. CASE RunnerConnectFails
    BY <2>2, MarkedSignals DEF RunnerConnectFails
  <2>3. QED
    BY <1>5, <2>1, <2>2, AppliesSignals DEF Watchdog
<1>6. CASE Commanded
  <2>1. CASE PlayUrl
    BY <2>1, BecomesSignals DEF PlayUrl, Doings
  <2>2. CASE StartApp
    BY <2>2, BecomesSignals DEF StartApp, Doings
  <2>3. CASE QuitApp
    <3>1. PICK d \in Doings : Becomes(d)
      BY <2>3 DEF QuitApp, Doings
    <3>2. QED
      BY <2>3, <3>1, BecomesSignals DEF QuitApp
  <2>4. CASE CommandCalled \/ CommandConnects \/ CommandConnectFails
    BY <2>4, SameSignals DEF CommandCalled, CommandConnects, CommandConnectFails
  <2>5. CASE NothingToRelease \/ CommandFails
    BY <2>5, SameSignals DEF NothingToRelease, CommandFails
  <2>6. QED
    BY <1>6, <2>1, <2>2, <2>3, <2>4, <2>5 DEF Commanded
<1>7. QED
  BY <1>1, <1>2, <1>3, <1>4, <1>5, <1>6, KeptSignals DEF Next

LEMMA SignalsBegin == Init => SignalsOK
<1> SUFFICES ASSUME Init PROVE SignalsOK
  OBVIOUS
<1>1. posted = << >> /\ begun = 0 /\ DOMAIN posted = {} /\ ~settled /\ ~airSettled /\ ~seen /\ due = "never" /\ alarms = {}
  BY EmptySeq DEF Init
<1>2. PICK since : since = [i \in DOMAIN posted |-> 0]
  OBVIOUS
<1>3. since \in [DOMAIN posted -> 0..begun]
  BY <1>1, <1>2
<1>4. \A k \in Ways : ~Free(k)
  BY <1>1 DEF Ways, Free
<1>5. Dates(since)
  BY <1>1, <1>4 DEF Dates, InOrder, StartsBetween, StartsSince, StartsUnheard
<1>6. QED
  BY <1>1, <1>3, <1>5 DEF SignalsOK, SignalsAreStarts, Dated

\* However far the loop is behind the threads, a listen signal is never one more
\* than the sessions that began or came to be told anew, but for what a reading
\* wiped and for what has been overtaken.
THEOREM SignalsAreTrue == Spec => []SignalsAreStarts
<1>1. IInv /\ SignalsOK /\ [Next]_vars => SignalsOK'
  <2> SUFFICES ASSUME IInv, SignalsOK, [Next]_vars PROVE SignalsOK'
    OBVIOUS
  <2>1. TypeOK /\ MediaIsTrue
    BY DEF IInv, MirrorOK
  <2>2. CASE UNCHANGED vars
    BY <2>1, <2>2, SameSignals DEF vars, devices, lapses, gaps, told
  <2>3. QED
    BY <2>1, <2>2, StepsSignal
<1>2. SignalsOK => SignalsAreStarts
  BY DEF SignalsOK
<1>3. QED
  BY <1>1, <1>2, SignalsBegin, InvariantHolds, PTL DEF Spec
=============================================================================
