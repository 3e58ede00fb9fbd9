------------------------ MODULE StreamConsumerProofs ------------------------
(***************************************************************************)
(* The two consumers of event streams, ParseStream and FollowStream, do    *)
(* what ParseWatch and LineFeed promise, for any number of events and any  *)
(* payloads, wherever the stream is cut.                                   *)
(*                                                                         *)
(* What they share comes first: the text of the events from n on, as far   *)
(* as it has been written and not yet read, and the record that the        *)
(* scanner has built from the lines of event n that it has read.           *)
(***************************************************************************)
EXTENDS ParseStream, FollowStream, SequenceTheorems, FiniteSetTheorems, TLAPS

-----------------------------------------------------------------------------
(* What a service has written: srv is its layout, the names of its events  *)
(* and their number.                                                       *)

AllNames == EventNames \cup {"output", "eof"}
Values == Text \cup {"cut"} \cup AllNames
Carried == [field : Fields, val : Values]
Services ==
  {s \in [layout : Layouts, names : Seq(AllNames), written : 0 .. Len(Payloads)] :
     s.written <= Len(s.names)}

\* The lines of the data of an event.
DataText == Text \ {"", "cut"}

Server(l, names, w) == [layout |-> l, names |-> names, written |-> w]

\* Lines before the event, of its data, and in all.
Prelude(srv) == IF srv.layout.keepAlive THEN 2 ELSE 0
Parts(n) == Len(Payloads[n])
Size(srv, n) == Prelude(srv) + Parts(n) + 2

\* Line r of event n.
LineAt(srv, n, r) ==
  LET k == r - Prelude(srv)
      d == IF srv.layout.dataFirst THEN k ELSE k - 1   \* the line of the data
  IN  IF k <= 0 THEN IF r = 1 THEN NewLine("other", "") ELSE Blank
      ELSE IF k = Parts(n) + 2 THEN Blank
      ELSE IF d \in 1 .. Parts(n) THEN NewLine("data", Payloads[n][d])
      ELSE NewLine("event", srv.names[n])

LEMMA PayloadType ==
  ASSUME NEW n \in 1 .. Len(Payloads)
  PROVE  /\ Payloads[n] \in Seq(DataText) /\ Payloads[n] # <<>>
         /\ Parts(n) \in Nat \ {0}
         /\ DOMAIN Payloads = 1 .. Len(Payloads) /\ Len(Payloads) \in Nat
<1>1. Payloads \in Seq(Seq(DataText) \ {<<>>})
  BY PayloadsAssumption DEF DataText
<1>2. DOMAIN Payloads = 1 .. Len(Payloads) /\ Len(Payloads) \in Nat
  BY <1>1, LenProperties
<1>3. Payloads[n] \in Seq(DataText) \ {<<>>}
  BY <1>1, ElementOfSeq
<1> QED
  BY <1>2, <1>3, EmptySeq DEF Parts

LEMMA Concat ==
  ASSUME NEW S, NEW s \in Seq(S), NEW t \in Seq(S)
  PROVE  /\ s \o t \in Seq(S) /\ Len(s \o t) = Len(s) + Len(t)
         /\ \A i \in 1 .. Len(s) : (s \o t)[i] = s[i]
         /\ \A i \in 1 .. Len(t) : (s \o t)[Len(s) + i] = t[i]
<1> DEFINE q == s \o t
<1>1. /\ q \in Seq(S) /\ Len(q) = Len(s) + Len(t)
      /\ \A i \in 1 .. Len(s) + Len(t) : q[i] = IF i <= Len(s) THEN s[i] ELSE t[i - Len(s)]
  BY ConcatProperties
<1>2. Len(s) \in Nat /\ Len(t) \in Nat
  BY LenProperties
<1> HIDE DEF q
<1>3. /\ \A i \in 1 .. Len(s) : q[i] = s[i]
      /\ \A i \in 1 .. Len(t) : q[Len(s) + i] = t[i]
  BY <1>1, <1>2
<1> QED
  BY <1>1, <1>3 DEF q

\* The lines of an event are the ones that a service writes for it.
LEMMA WrittenLines ==
  ASSUME NEW srv \in Services, NEW n \in 1 .. Len(Payloads), srv.names[n] \in AllNames
  PROVE  LET w == Written(srv.layout, srv.names[n], n) IN
         /\ w \in Seq(Carried) /\ Len(w) = Size(srv, n)
         /\ \A r \in 1 .. Size(srv, n) : w[r] = LineAt(srv, n, r)
<1> DEFINE
  other == NewLine("other", "")
  blank == Blank
  event == NewLine("event", srv.names[n])
  pre  == IF srv.layout.keepAlive THEN <<other, blank>> ELSE <<>>
  name == <<event>>
  data == DataLines(n)
  mid  == IF srv.layout.dataFirst THEN data \o name ELSE name \o data
  post == <<blank>>
  p    == Parts(n)
  k    == Prelude(srv)
<1>1. p \in Nat \ {0} /\ k \in {0, 2}
  <2>1. p \in Nat \ {0}
    BY PayloadType
  <2>2. k \in {0, 2}
    BY DEF Prelude
  <2> QED
    BY <2>1, <2>2
<1>2. \A f \in Fields, v \in Values : NewLine(f, v) \in Carried
  BY DEF Carried, NewLine
<1>3. other \in Carried /\ blank \in Carried /\ event \in Carried
  <2>1. "" \in Values /\ srv.names[n] \in Values
    BY LinesAssumption DEF Values
  <2>2. "other" \in Fields /\ "blank" \in Fields /\ "event" \in Fields
    BY DEF Fields
  <2> QED
    BY <1>2, <2>1, <2>2 DEF Blank
<1> HIDE DEF other, blank, event
<1>4. /\ pre \in Seq(Carried) /\ Len(pre) = k
      /\ k = 2 => pre[1] = other /\ pre[2] = blank
  <2>1. CASE srv.layout.keepAlive
    <3>1. pre = <<other, blank>> /\ k = 2
      BY <2>1 DEF Prelude
    <3> QED
      BY <1>3, <3>1
  <2>2. CASE ~srv.layout.keepAlive
    <3>1. pre = <<>> /\ k = 0
      BY <2>2 DEF Prelude
    <3> QED
      BY <3>1
  <2> QED
    BY <2>1, <2>2
<1>5. name \in Seq(Carried) /\ Len(name) = 1 /\ name[1] = event
  BY <1>3
<1>6. post \in Seq(Carried) /\ Len(post) = 1 /\ post[1] = blank
  BY <1>3
<1>7. /\ data \in Seq(Carried) /\ Len(data) = p
      /\ \A i \in 1 .. p : data[i] = NewLine("data", Payloads[n][i])
  <2>1. \A i \in 1 .. p : Payloads[n][i] \in Text
    <3>1. \A i \in 1 .. p : Payloads[n][i] \in DataText
      BY PayloadType, ElementOfSeq DEF Parts, p
    <3> QED
      BY <3>1 DEF DataText
  <2>2. \A i \in 1 .. p : NewLine("data", Payloads[n][i]) \in Carried
    BY <1>2, <2>1 DEF Fields, Values
  <2> QED
    BY <1>1, <2>2 DEF DataLines, Parts, p
<1> HIDE DEF pre, name, data, post, p, k
<1>80. mid = IF srv.layout.dataFirst THEN data \o name ELSE name \o data
  OBVIOUS
<1> HIDE DEF mid
<1>8. /\ mid \in Seq(Carried) /\ Len(mid) = p + 1
      /\ srv.layout.dataFirst => mid[p + 1] = event /\ \A i \in 1 .. p : mid[i] = data[i]
      /\ ~srv.layout.dataFirst => mid[1] = event /\ \A i \in 1 .. p : mid[1 + i] = data[i]
  <2>1. CASE srv.layout.dataFirst
    <3>0. data \in Seq(Carried) /\ name \in Seq(Carried) /\ mid = data \o name
      BY <1>5, <1>7, <1>80, <2>1
    <3>1. /\ mid \in Seq(Carried) /\ Len(mid) = Len(data) + Len(name)
          /\ \A i \in 1 .. Len(data) : mid[i] = data[i]
          /\ \A i \in 1 .. Len(name) : mid[Len(data) + i] = name[i]
      BY <3>0, Concat
    <3> QED
      BY <1>1, <1>5, <1>7, <2>1, <3>1
  <2>2. CASE ~srv.layout.dataFirst
    <3>0. data \in Seq(Carried) /\ name \in Seq(Carried) /\ mid = name \o data
      BY <1>5, <1>7, <1>80, <2>2
    <3>1. /\ mid \in Seq(Carried) /\ Len(mid) = Len(name) + Len(data)
          /\ \A i \in 1 .. Len(name) : mid[i] = name[i]
          /\ \A i \in 1 .. Len(data) : mid[Len(name) + i] = data[i]
      BY <3>0, Concat
    <3> QED
      BY <1>1, <1>5, <1>7, <2>2, <3>1
  <2> QED
    BY <2>1, <2>2
<1> DEFINE inner == pre \o mid
           all  == inner \o post
<1>90. inner = pre \o mid /\ all = inner \o post
  OBVIOUS
<1> HIDE DEF inner, all
<1>9. /\ inner \in Seq(Carried) /\ Len(inner) = k + p + 1
      /\ \A i \in 1 .. k : inner[i] = pre[i]
      /\ \A i \in 1 .. p + 1 : inner[k + i] = mid[i]
  <2>0. pre \in Seq(Carried) /\ mid \in Seq(Carried) /\ inner = pre \o mid
    BY <1>4, <1>8, <1>90
  <2>1. /\ inner \in Seq(Carried) /\ Len(inner) = Len(pre) + Len(mid)
        /\ \A i \in 1 .. Len(pre) : inner[i] = pre[i]
        /\ \A i \in 1 .. Len(mid) : inner[Len(pre) + i] = mid[i]
    BY <2>0, Concat
  <2>2. Len(pre) = k /\ Len(mid) = p + 1 /\ k + (p + 1) = k + p + 1
    BY <1>1, <1>4, <1>8
  <2> QED
    BY <2>1, <2>2
<1>10. /\ all \in Seq(Carried) /\ Len(all) = k + p + 2
       /\ \A i \in 1 .. k + p + 1 : all[i] = inner[i]
       /\ all[k + p + 2] = blank
  <2>0. inner \in Seq(Carried) /\ post \in Seq(Carried) /\ all = inner \o post
    BY <1>6, <1>9, <1>90
  <2>1. /\ all \in Seq(Carried) /\ Len(all) = Len(inner) + Len(post)
        /\ \A i \in 1 .. Len(inner) : all[i] = inner[i]
        /\ \A i \in 1 .. Len(post) : all[Len(inner) + i] = post[i]
    BY <2>0, Concat
  <2> QED
    BY <1>1, <1>6, <1>9, <2>1
<1>11. Written(srv.layout, srv.names[n], n) = all
  BY DEF Written, all, inner, mid, pre, name, data, post, other, blank, event
<1>12. Size(srv, n) = k + p + 2
  BY DEF Size, p, k
<1>13. ASSUME NEW r \in 1 .. k + p + 2 PROVE all[r] = LineAt(srv, n, r)
  <2>1. CASE r <= k
    <3>1. all[r] = pre[r]
      BY <1>1, <1>9, <1>10, <2>1
    <3>2. r \in {1, 2} /\ k = 2 /\ r - k <= 0
      BY <1>1, <2>1
    <3>3. LineAt(srv, n, r) = IF r = 1 THEN other ELSE blank
      BY <3>2 DEF LineAt, k, other, blank
    <3> QED
      BY <1>4, <3>1, <3>2, <3>3
  <2>2. CASE r = k + p + 2
    <3>1. all[r] = blank
      BY <1>10, <2>2
    <3>2. r - k = p + 2 /\ ~(r - k <= 0)
      BY <1>1, <2>2
    <3> QED
      BY <1>1, <3>1, <3>2 DEF LineAt, k, p, blank
  <2>3. CASE r > k /\ r < k + p + 2
    <3> DEFINE i == r - k
    <3>1. /\ i \in 1 .. p + 1 /\ ~(i <= 0) /\ i # p + 2
          /\ r \in 1 .. k + p + 1 /\ r = k + i
      BY <1>1, <2>3
    <3>2. all[r] = mid[i]
      BY <1>9, <1>10, <3>1
    <3>3. LineAt(srv, n, r) =
            LET d == IF srv.layout.dataFirst THEN i ELSE i - 1
            IN  IF d \in 1 .. p THEN NewLine("data", Payloads[n][d]) ELSE event
      BY <3>1 DEF LineAt, k, p, event
    <3> HIDE DEF i
    <3>4. CASE srv.layout.dataFirst /\ i <= p
      BY <1>7, <1>8, <3>1, <3>2, <3>3, <3>4
    <3>5. CASE srv.layout.dataFirst /\ ~(i <= p)
      <4>1. i = p + 1 /\ i \notin 1 .. p
        BY <1>1, <3>1, <3>5
      <4> QED
        BY <1>8, <3>2, <3>3, <3>5, <4>1
    <3>6. CASE ~srv.layout.dataFirst /\ i = 1
      <4>1. i - 1 \notin 1 .. p
        BY <3>6
      <4> QED
        BY <1>8, <3>2, <3>3, <3>6, <4>1
    <3>7. CASE ~srv.layout.dataFirst /\ i # 1
      <4>1. i - 1 \in 1 .. p /\ i = 1 + (i - 1)
        BY <1>1, <3>1, <3>7
      <4>2. mid[i] = data[i - 1]
        BY <1>8, <3>7, <4>1
      <4> QED
        BY <1>7, <3>2, <3>3, <3>7, <4>1, <4>2
    <3> QED
      BY <3>4, <3>5, <3>6, <3>7
  <2>4. r \in Nat /\ k \in Nat /\ p \in Nat /\ r <= k + p + 2
    BY <1>1
  <2>5. r <= k \/ r = k + p + 2 \/ (r > k /\ r < k + p + 2)
    BY <2>4
  <2> QED
    BY <2>1, <2>2, <2>3, <2>5
<1> QED
  BY <1>10, <1>11, <1>12, <1>13

-----------------------------------------------------------------------------
(* The text that is still to be read.                                      *)

\* Line i of the text w is line ln[i] of event ev[i]; behind them stands what
\* comes after w.
Marks(srv, w, end, ev, ln) ==
  /\ \A i \in 1 .. Len(w) + 1 : ev[i] \in Nat /\ ln[i] \in Nat
  /\ \A i \in 1 .. Len(w) :
       /\ ev[i] \in 1 .. srv.written /\ ln[i] \in 1 .. Size(srv, ev[i])
       /\ IF ln[i] = Size(srv, ev[i])
          THEN ev[i + 1] = ev[i] + 1 /\ ln[i + 1] = 1
          ELSE ev[i + 1] = ev[i] /\ ln[i + 1] = ln[i] + 1
       /\ \/ w[i] = LineAt(srv, ev[i], ln[i])
          \/ i = Len(w) /\ end # "open" /\ w[i] \in Pieces(LineAt(srv, ev[i], ln[i]))
  /\ end = "open" => ev[Len(w) + 1] = srv.written + 1 /\ ln[Len(w) + 1] = 1

\* w is the text from line r of event n on, up to what has been written, or up
\* to where the stream was cut.
Carries(srv, w, end, n, r) ==
  \E ev, ln : ev[1] = n /\ ln[1] = r /\ Marks(srv, w, end, ev, ln)

\* Reading a line of it.
LEMMA CarriesTail ==
  ASSUME NEW srv, NEW w \in Seq(Carried), w # <<>>, NEW end, NEW n, NEW r,
         Carries(srv, w, end, n, r)
  PROVE  /\ n \in 1 .. srv.written /\ r \in 1 .. Size(srv, n)
         /\ \/ /\ Head(w) = LineAt(srv, n, r)
               /\ IF r = Size(srv, n) THEN Carries(srv, Tail(w), end, n + 1, 1)
                                      ELSE Carries(srv, Tail(w), end, n, r + 1)
            \/ /\ Head(w) \in Pieces(LineAt(srv, n, r))
               /\ Tail(w) = <<>> /\ end # "open"
<1>1. PICK ev, ln : ev[1] = n /\ ln[1] = r /\ Marks(srv, w, end, ev, ln)
  BY DEF Carries
<1> DEFINE t  == Tail(w)
           e2 == [i \in 1 .. Len(w) |-> ev[i + 1]]
           l2 == [i \in 1 .. Len(w) |-> ln[i + 1]]
<1>2. /\ Len(w) \in Nat \ {0} /\ Head(w) = w[1]
      /\ t \in Seq(Carried) /\ Len(t) = Len(w) - 1
      /\ \A i \in 1 .. Len(t) : t[i] = w[i + 1]
  BY EmptySeq, HeadTailProperties
<1> HIDE DEF t
<1>3. 1 \in 1 .. Len(w) /\ 2 \in 1 .. Len(w) + 1 /\ 1 + 1 = 2
  BY <1>2
<1>4. /\ n \in 1 .. srv.written /\ r \in 1 .. Size(srv, n)
      /\ IF r = Size(srv, n) THEN ev[2] = n + 1 /\ ln[2] = 1
                             ELSE ev[2] = n /\ ln[2] = r + 1
      /\ \/ Head(w) = LineAt(srv, n, r)
         \/ 1 = Len(w) /\ end # "open" /\ Head(w) \in Pieces(LineAt(srv, n, r))
  BY <1>1, <1>2, <1>3 DEF Marks
<1>5. Marks(srv, t, end, e2, l2)
  <2>1. Len(t) + 1 = Len(w)
    BY <1>2
  <2>2. \A i \in 1 .. Len(w) : i + 1 \in 1 .. Len(w) + 1
    BY <1>2
  <2>3. \A i \in 1 .. Len(w) : e2[i] \in Nat /\ l2[i] \in Nat
    BY <1>1, <2>2 DEF Marks
  <2>4. ASSUME NEW i \in 1 .. Len(t)
        PROVE  /\ e2[i] \in 1 .. srv.written /\ l2[i] \in 1 .. Size(srv, e2[i])
               /\ IF l2[i] = Size(srv, e2[i])
                  THEN e2[i + 1] = e2[i] + 1 /\ l2[i + 1] = 1
                  ELSE e2[i + 1] = e2[i] /\ l2[i + 1] = l2[i] + 1
               /\ \/ t[i] = LineAt(srv, e2[i], l2[i])
                  \/ i = Len(t) /\ end # "open" /\ t[i] \in Pieces(LineAt(srv, e2[i], l2[i]))
    <3> DEFINE j == i + 1
    <3>1. j \in 1 .. Len(w) /\ i \in 1 .. Len(w) /\ (j = Len(w) <=> i = Len(t))
      BY <1>2
    <3>2. /\ e2[i] = ev[j] /\ l2[i] = ln[j] /\ e2[j] = ev[j + 1] /\ l2[j] = ln[j + 1]
          /\ t[i] = w[j]
      BY <1>2, <3>1
    <3> HIDE DEF e2, l2, j
    <3>3. /\ ev[j] \in 1 .. srv.written /\ ln[j] \in 1 .. Size(srv, ev[j])
          /\ IF ln[j] = Size(srv, ev[j])
             THEN ev[j + 1] = ev[j] + 1 /\ ln[j + 1] = 1
             ELSE ev[j + 1] = ev[j] /\ ln[j + 1] = ln[j] + 1
          /\ \/ w[j] = LineAt(srv, ev[j], ln[j])
             \/ j = Len(w) /\ end # "open" /\ w[j] \in Pieces(LineAt(srv, ev[j], ln[j]))
      BY <1>1, <3>1 DEF Marks
    <3> QED
      BY <3>1, <3>2, <3>3 DEF j
  <2>5. end = "open" => e2[Len(w)] = srv.written + 1 /\ l2[Len(w)] = 1
    BY <1>1, <1>2 DEF Marks
  <2> HIDE DEF e2, l2
  <2> QED
    BY <2>1, <2>3, <2>4, <2>5 DEF Marks
<1>6. e2[1] = ev[2] /\ l2[1] = ln[2]
  BY <1>3
<1> HIDE DEF e2, l2
<1>7. Carries(srv, t, end, ev[2], ln[2])
  BY <1>5, <1>6 DEF Carries
<1>8. 1 = Len(w) => t = <<>>
  BY <1>2, EmptySeq
<1> QED
  BY <1>4, <1>7, <1>8 DEF t

LEMMA PieceType ==
  ASSUME NEW w \in Seq(Carried), NEW i \in 1 .. Len(w), NEW p \in Pieces(w[i])
  PROVE  p \in Carried
<1>1. w[i].field \in Fields
  <2>1. w[i] \in Carried
    BY ElementOfSeq
  <2> QED
    BY <2>1 DEF Carried
<1>2. "nocolon" \in Fields /\ {"", "cut"} \subseteq Values
  BY LinesAssumption DEF Fields, Values
<1>3. \E f \in Fields, v \in Values : p = NewLine(f, v)
  BY <1>1, <1>2 DEF Pieces
<1> QED
  BY <1>3 DEF NewLine, Carried

\* The stream ends after k of the lines, or within the next one.
LEMMA CarriesCut ==
  ASSUME NEW srv, NEW w \in Seq(Carried), NEW n, NEW r, Carries(srv, w, "open", n, r),
         NEW end, end # "open", NEW k \in 0 .. Len(w)
  PROVE  /\ SubSeq(w, 1, k) \in Seq(Carried)
         /\ Carries(srv, SubSeq(w, 1, k), end, n, r)
         /\ \A p : k < Len(w) /\ p \in Pieces(w[k + 1])
                   => /\ Append(SubSeq(w, 1, k), p) \in Seq(Carried)
                      /\ Carries(srv, Append(SubSeq(w, 1, k), p), end, n, r)
<1>1. PICK ev, ln : ev[1] = n /\ ln[1] = r /\ Marks(srv, w, "open", ev, ln)
  BY DEF Carries
<1> DEFINE s == SubSeq(w, 1, k)
<1>2. k \in Nat /\ Len(w) \in Nat /\ k <= Len(w)
  BY LenProperties
<1>3. /\ s \in Seq(Carried) /\ Len(s) = k
      /\ \A i \in 1 .. k : s[i] = w[i]
  <2>1. \A i \in 1 .. k : w[i] \in Carried
    BY <1>2, ElementOfSeq
  <2>2. /\ s \in Seq(Carried) /\ Len(s) = IF 1 <= k THEN k - 1 + 1 ELSE 0
        /\ \A i \in 1 .. k - 1 + 1 : s[i] = w[1 + i - 1]
    BY <1>2, <2>1, SubSeqProperties
  <2> HIDE DEF s
  <2> QED
    BY <1>2, <2>2
<1> HIDE DEF s
<1>4. \A i \in 1 .. k : i \in 1 .. Len(w)
  BY <1>2
<1>5. \A i \in 1 .. k + 1 : i \in 1 .. Len(w) + 1
  BY <1>2
<1>6. ASSUME NEW i \in 1 .. Len(w)
      PROVE  /\ ev[i] \in 1 .. srv.written /\ ln[i] \in 1 .. Size(srv, ev[i])
             /\ IF ln[i] = Size(srv, ev[i])
                THEN ev[i + 1] = ev[i] + 1 /\ ln[i + 1] = 1
                ELSE ev[i + 1] = ev[i] /\ ln[i + 1] = ln[i] + 1
             /\ w[i] = LineAt(srv, ev[i], ln[i])
  BY <1>1 DEF Marks
<1>7. Marks(srv, s, end, ev, ln)
  <2>1. \A i \in 1 .. k + 1 : ev[i] \in Nat /\ ln[i] \in Nat
    BY <1>1, <1>5 DEF Marks
  <2> QED
    BY <1>3, <1>4, <1>6, <2>1 DEF Marks
<1>8. ASSUME NEW p, k < Len(w), p \in Pieces(w[k + 1])
      PROVE  Append(s, p) \in Seq(Carried) /\ Carries(srv, Append(s, p), end, n, r)
  <2> DEFINE a == Append(s, p)
  <2>1. k + 1 \in 1 .. Len(w)
    BY <1>2, <1>8
  <2>2. p \in Carried
    BY <1>8, <2>1, PieceType
  <2>3. /\ a \in Seq(Carried) /\ Len(a) = k + 1 /\ a[k + 1] = p
        /\ \A i \in 1 .. k : a[i] = s[i]
    BY <1>3, <2>2, AppendProperties
  <2> HIDE DEF a
  <2>4. \A i \in 1 .. (k + 1) + 1 : ev[i] \in Nat /\ ln[i] \in Nat
    <3>1. \A i \in 1 .. (k + 1) + 1 : i \in 1 .. Len(w) + 1
      BY <1>2, <2>1
    <3> QED
      BY <1>1, <3>1 DEF Marks
  <2>5. \A i \in 1 .. k + 1 : i \in 1 .. Len(w) /\ (i \in 1 .. k \/ i = k + 1)
    BY <1>2, <2>1
  <2>6. p \in Pieces(LineAt(srv, ev[k + 1], ln[k + 1]))
    BY <1>6, <1>8, <2>1
  <2>7. \A i \in 1 .. k + 1 :
          \/ a[i] = LineAt(srv, ev[i], ln[i])
          \/ i = k + 1 /\ a[i] \in Pieces(LineAt(srv, ev[i], ln[i]))
    BY <1>3, <1>6, <2>3, <2>5, <2>6
  <2>8. Marks(srv, a, end, ev, ln)
    BY <1>6, <2>3, <2>4, <2>5, <2>7 DEF Marks
  <2> QED
    BY <1>1, <2>3, <2>8 DEF Carries, a
<1> QED
  BY <1>1, <1>3, <1>7, <1>8 DEF Carries, s

\* The service writes its next event.
LEMMA CarriesMore ==
  ASSUME NEW srv, NEW new \in Services, new.layout = srv.layout,
         srv.written \in Nat, new.written = srv.written + 1,
         \A m \in 1 .. srv.written : new.names[m] = srv.names[m],
         new.names[new.written] \in AllNames,
         NEW w \in Seq(Carried), NEW n, NEW r, Carries(srv, w, "open", n, r)
  PROVE  LET more == Written(new.layout, new.names[new.written], new.written) IN
         w \o more \in Seq(Carried) /\ Carries(new, w \o more, "open", n, r)
<1> DEFINE more == Written(new.layout, new.names[new.written], new.written)
           v    == w \o more
           last == new.written
           size == Size(new, last)
           len  == Len(w)
<1>1. PICK ev, ln : ev[1] = n /\ ln[1] = r /\ Marks(srv, w, "open", ev, ln)
  BY DEF Carries
<1>2. last \in 1 .. Len(Payloads)
  BY DEF Services
<1>3. /\ more \in Seq(Carried) /\ Len(more) = size
      /\ \A i \in 1 .. size : more[i] = LineAt(new, last, i)
  BY <1>2, WrittenLines
<1>4. \A m : Size(new, m) = Size(srv, m)
  BY DEF Size, Prelude
<1>5. \A m \in 1 .. srv.written : \A i : LineAt(new, m, i) = LineAt(srv, m, i)
  BY DEF LineAt, Prelude
<1>6. size \in Nat \ {0} /\ len \in Nat
  <2>1. Parts(last) \in Nat /\ Prelude(new) \in {0, 2}
    BY <1>2, PayloadType DEF Prelude
  <2> QED
    BY <2>1, LenProperties DEF Size
<1> HIDE DEF more
<1>7. /\ v \in Seq(Carried) /\ Len(v) = len + size
      /\ \A i \in 1 .. len : v[i] = w[i]
      /\ \A i \in 1 .. size : v[len + i] = LineAt(new, last, i)
  <2>1. /\ v \in Seq(Carried) /\ Len(v) = Len(w) + Len(more)
        /\ \A i \in 1 .. Len(w) : v[i] = w[i]
        /\ \A i \in 1 .. Len(more) : v[Len(w) + i] = more[i]
    <3>1. w \in Seq(Carried) /\ more \in Seq(Carried)
      BY <1>3
    <3> HIDE DEF size, len, last
    <3> QED
      BY <3>1, Concat
  <2> HIDE DEF v, size
  <2> QED
    BY <1>3, <2>1
<1> HIDE DEF v, size, len
<1> DEFINE
  e2 == [i \in 1 .. len + size + 1 |-> IF i <= len THEN ev[i] ELSE IF i <= len + size THEN last ELSE last + 1]
  l2 == [i \in 1 .. len + size + 1 |-> IF i <= len THEN ln[i] ELSE IF i <= len + size THEN i - len ELSE 1]
<1>8. ev[len + 1] = last /\ ln[len + 1] = 1
  BY <1>1 DEF Marks, len
<1>9. ASSUME NEW i \in 1 .. len
      PROVE  /\ e2[i] = ev[i] /\ l2[i] = ln[i]
             /\ e2[i + 1] = ev[i + 1] /\ l2[i + 1] = ln[i + 1]
  <2>1. CASE i = len
    BY <1>6, <1>8, <2>1
  <2>2. CASE i # len
    BY <1>6, <2>2
  <2> QED
    BY <2>1, <2>2
<1>10. ASSUME NEW i \in 1 .. size
       PROVE  /\ e2[len + i] = last /\ l2[len + i] = i
              /\ IF i = size THEN e2[len + i + 1] = last + 1 /\ l2[len + i + 1] = 1
                 ELSE e2[len + i + 1] = last /\ l2[len + i + 1] = i + 1
  <2>1. /\ len + i \in 1 .. len + size + 1 /\ ~(len + i <= len) /\ len + i <= len + size
        /\ len + i + 1 \in 1 .. len + size + 1 /\ ~(len + i + 1 <= len)
        /\ (len + i + 1 <= len + size <=> i # size)
        /\ len + i - len = i /\ len + i + 1 - len = i + 1
    BY <1>6
  <2> HIDE DEF last
  <2>0. \A j \in 1 .. len + size + 1 :
          /\ e2[j] = IF j <= len THEN ev[j] ELSE IF j <= len + size THEN last ELSE last + 1
          /\ l2[j] = IF j <= len THEN ln[j] ELSE IF j <= len + size THEN j - len ELSE 1
    OBVIOUS
  <2> HIDE DEF e2, l2
  <2> QED
    BY <1>6, <2>0, <2>1
<1>11. \A i \in 1 .. len + size + 1 : e2[i] \in Nat /\ l2[i] \in Nat
  <2>1. \A i \in 1 .. len : ev[i] \in Nat /\ ln[i] \in Nat
    BY <1>1, <1>6 DEF Marks, len
  <2>2. last \in Nat
    BY <1>2
  <2>3. \A i \in 1 .. len + size + 1 : i \in 1 .. len \/ i - len \in Nat
    BY <1>6
  <2> HIDE DEF last
  <2> QED
    BY <1>6, <2>1, <2>2, <2>3
<1>12. e2[1] = n /\ l2[1] = r
  <2>1. CASE len = 0
    BY <1>1, <1>6, <1>8, <2>1
  <2>2. CASE len # 0
    BY <1>1, <1>6, <2>2
  <2> QED
    BY <2>1, <2>2
<1>13. e2[len + size + 1] = last + 1 /\ l2[len + size + 1] = 1
  BY <1>6
<1> HIDE DEF e2, l2
<1>14. ASSUME NEW i \in 1 .. len + size
       PROVE  /\ e2[i] \in 1 .. new.written /\ l2[i] \in 1 .. Size(new, e2[i])
              /\ IF l2[i] = Size(new, e2[i])
                 THEN e2[i + 1] = e2[i] + 1 /\ l2[i + 1] = 1
                 ELSE e2[i + 1] = e2[i] /\ l2[i + 1] = l2[i] + 1
              /\ v[i] = LineAt(new, e2[i], l2[i])
  <2>1. CASE i \in 1 .. len
    <3>1. /\ ev[i] \in 1 .. srv.written /\ ln[i] \in 1 .. Size(srv, ev[i])
          /\ IF ln[i] = Size(srv, ev[i])
             THEN ev[i + 1] = ev[i] + 1 /\ ln[i + 1] = 1
             ELSE ev[i + 1] = ev[i] /\ ln[i + 1] = ln[i] + 1
          /\ w[i] = LineAt(srv, ev[i], ln[i])
      BY <1>1, <2>1 DEF Marks, len
    <3>2. ev[i] \in 1 .. new.written
      BY <3>1
    <3>3. v[i] = LineAt(new, ev[i], ln[i])
      BY <1>5, <1>7, <2>1, <3>1
    <3> QED
      BY <1>4, <1>9, <2>1, <3>1, <3>2, <3>3
  <2>2. CASE i \notin 1 .. len
    <3>1. PICK j \in 1 .. size : i = len + j
      <4>1. i - len \in 1 .. size /\ i = len + (i - len)
        BY <1>6, <2>2
      <4> QED
        BY <4>1
    <3>2. last \in 1 .. new.written /\ size = Size(new, last)
      BY <1>2 DEF size
    <3> QED
      BY SMTT(30), <1>7, <1>10, <3>1, <3>2
  <2> QED
    BY <2>1, <2>2
<1>15. Marks(new, v, "open", e2, l2)
  BY <1>7, <1>11, <1>13, <1>14 DEF Marks
<1> QED
  BY <1>7, <1>12, <1>15 DEF Carries, v, more
-----------------------------------------------------------------------------
(* The record that is being decoded.                                       *)

Ev(name, data) == [name |-> name, id |-> "", retry |-> "", data |-> data]

\* The scanner before line r of event n.
Decoder(srv, n, r, e, buf) ==
  LET k == r - Prelude(srv) IN
  /\ k <= 1 => e = NoEvent /\ buf = <<>>
  /\ k > 1 /\ ~srv.layout.dataFirst =>
       e = Ev(srv.names[n], <<>>) /\ buf = SubSeq(Payloads[n], 1, k - 2)
  /\ k > 1 /\ k <= Parts(n) + 1 /\ srv.layout.dataFirst =>
       e = NoEvent /\ buf = SubSeq(Payloads[n], 1, k - 1)
  /\ k > 1 /\ k > Parts(n) + 1 /\ srv.layout.dataFirst =>
       e = Ev(srv.names[n], Payloads[n]) /\ buf = <<>>

\* What a cut leaves of event n can be mistaken for no other event: a name that
\* is not cut is its name, and complete data is its data.
PartialName(srv, n, x) == x \notin {"", "cut"} => n <= srv.written /\ x = srv.names[n]
PartialData(n, d) == \A m \in DOMAIN Payloads : d = Payloads[m] => m = n
Partial(srv, n, e) == PartialName(srv, n, e.name) /\ PartialData(n, e.data)

\* The first parts of the data of event n, and the data that ends in a piece of
\* a line.
LEMMA FirstParts ==
  ASSUME NEW n \in 1 .. Len(Payloads), NEW j \in 0 .. Parts(n)
  PROVE  /\ SubSeq(Payloads[n], 1, j) \in Seq(Values)
         /\ Len(SubSeq(Payloads[n], 1, j)) = j
         /\ PartialData(n, SubSeq(Payloads[n], 1, j))
<1> DEFINE p == Payloads[n]
           s == SubSeq(p, 1, j)
<1>0. Parts(n) \in Nat /\ p \in Seq(DataText) /\ Parts(n) = Len(p)
  BY PayloadType DEF Parts
<1> HIDE DEF p
<1>1. p \in Seq(DataText) /\ Len(p) \in Nat /\ j \in Nat /\ j <= Len(p)
  BY <1>0
<1>2. \A i \in 1 .. j : p[i] \in Values
  <2>1. \A i \in 1 .. j : i \in 1 .. Len(p)
    BY <1>1
  <2>2. \A i \in 1 .. Len(p) : p[i] \in DataText
    BY <1>1, ElementOfSeq
  <2> QED
    BY <2>1, <2>2 DEF Values, DataText
<1>3. s \in Seq(Values) /\ Len(s) = IF 1 <= j THEN j - 1 + 1 ELSE 0
  <2>1. 1 \in Int /\ j \in Int
    BY <1>1
  <2> QED
    BY <1>2, <2>1, SubSeqProperties
<1> HIDE DEF s
<1>4. Len(s) = j
  BY <1>1, <1>3
<1>5. ASSUME NEW m \in DOMAIN Payloads, s = Payloads[m] PROVE m = n
  <2>1. Payloads[m] \in Seq(DataText) /\ n \in DOMAIN Payloads
    BY PayloadType
  <2>2. SubSeq(Payloads[m], 1, Len(Payloads[m])) = Payloads[m]
    BY <2>1, SubSeqFull
  <2>3. IsPrefix(Payloads[m], p)
    BY <1>1, <1>4, <1>5, <2>2 DEF IsPrefix, s
  <2> QED
    BY <2>1, <2>3, PayloadsAssumption DEF p
<1> QED
  BY <1>3, <1>4, <1>5 DEF p, s, PartialData

LEMMA LastPart ==
  ASSUME NEW m \in DOMAIN Payloads
  PROVE  /\ Len(Payloads[m]) \in Nat \ {0}
         /\ Payloads[m][Len(Payloads[m])] \in DataText
<1>1. Payloads[m] \in Seq(DataText) /\ Payloads[m] # <<>>
  BY PayloadsAssumption, PayloadType, LenProperties
<1>2. Len(Payloads[m]) \in Nat \ {0}
  BY <1>1, EmptySeq
<1>3. Len(Payloads[m]) \in 1 .. Len(Payloads[m])
  BY <1>2
<1> QED
  BY <1>1, <1>2, <1>3, ElementOfSeq

LEMMA LastAppended ==
  ASSUME NEW S, NEW s \in Seq(S), NEW x \in S
  PROVE  Len(Append(s, x)) = Len(s) + 1 /\ Append(s, x)[Len(s) + 1] = x
OBVIOUS

LEMMA CutData ==
  ASSUME NEW n, NEW b \in Seq(Values), NEW v \in {"", "cut"}
  PROVE  PartialData(n, Append(b, v))
<1> DEFINE a == Append(b, v)
<1>1. v \in Values /\ v \notin DataText
  BY LinesAssumption DEF Values, DataText
<1>2. Len(a) = Len(b) + 1 /\ a[Len(b) + 1] = v
  BY <1>1, LastAppended
<1> HIDE DEF a
<1>3. a[Len(a)] \notin DataText
  BY <1>1, <1>2
<1> QED
  BY <1>3, LastPart DEF a, PartialData

\* One line more of the data.
LEMMA NextPart ==
  ASSUME NEW n \in 1 .. Len(Payloads), NEW j \in 1 .. Parts(n)
  PROVE  SubSeq(Payloads[n], 1, j) = Append(SubSeq(Payloads[n], 1, j - 1), Payloads[n][j])
<1> DEFINE p == Payloads[n]
<1>0. Parts(n) \in Nat /\ p \in Seq(DataText) /\ Parts(n) = Len(p)
  BY PayloadType DEF Parts
<1> HIDE DEF p
<1>1. p \in Seq(DataText) /\ Len(p) \in Nat /\ j \in 1 .. Len(p) /\ Len(p) = Parts(n)
  BY <1>0
<1>2. 1 \in 1 .. Len(p) /\ j \in 1 .. Len(p)
  BY <1>1
<1>3. SubSeq(p, 1, j) = SubSeq(p, 1, j - 1) \o <<p[j]>>
  BY <1>1, <1>2, SubSeqRecursiveSecond
<1>4. SubSeq(p, 1, j - 1) \in Seq(Values)
  <2>1. j - 1 \in 0 .. Parts(n)
    BY <1>1
  <2> QED
    BY <2>1, FirstParts DEF p
<1>5. p[j] \in Values
  <2>1. p[j] \in DataText
    BY <1>1, ElementOfSeq
  <2> QED
    BY <2>1 DEF Values, DataText
<1>6. Append(SubSeq(p, 1, j - 1), p[j]) = SubSeq(p, 1, j - 1) \o <<p[j]>>
  BY <1>4, <1>5, AppendIsConcat
<1> QED
  BY <1>3, <1>6 DEF p
\* Where the scanner can be in a service's text.
Position(srv, n, r) ==
  /\ n \in 1 .. srv.written + 1 /\ r \in Nat \ {0}
  /\ r = 1 \/ (n <= srv.written /\ r <= Size(srv, n))

LEMMA PositionType ==
  ASSUME NEW srv \in Services, NEW n \in 1 .. srv.written + 1
  PROVE  /\ srv.written \in Nat /\ n \in Nat /\ Prelude(srv) \in {0, 2}
         /\ n <= srv.written => /\ n \in 1 .. Len(Payloads) /\ Parts(n) \in Nat \ {0}
                                /\ srv.names[n] \in AllNames
<1>1. /\ srv.written \in 0 .. Len(Payloads) /\ srv.names \in Seq(AllNames)
      /\ srv.written <= Len(srv.names)
  BY DEF Services
<1>2. Prelude(srv) \in {0, 2}
  BY DEF Prelude
<1>3. Len(Payloads) \in Nat /\ Len(srv.names) \in Nat
  BY <1>1, PayloadsAssumption, LenProperties
<1>4. ASSUME n <= srv.written
      PROVE  n \in 1 .. Len(Payloads) /\ Parts(n) \in Nat \ {0} /\ srv.names[n] \in AllNames
  <2>1. n \in 1 .. Len(Payloads) /\ n \in 1 .. Len(srv.names)
    BY <1>1, <1>3, <1>4
  <2> QED
    BY <1>1, <2>1, PayloadType, ElementOfSeq
<1> QED
  BY <1>1, <1>2, <1>3, <1>4

\* A piece of event n: a name and data that can be mistaken for no other's, and
\* such a run of data lines.
Decoded(srv, n, e, buf) ==
  /\ buf \in Seq(Values) /\ PartialData(n, buf)
  /\ \E x, d : e = Ev(x, d) /\ PartialName(srv, n, x) /\ PartialData(n, d)

LEMMA Fragments ==
  /\ NoEvent = Ev("", <<>>)
  /\ \A n : PartialData(n, <<>>)
  /\ \A srv, n : PartialName(srv, n, "") /\ PartialName(srv, n, "cut")
  /\ \A srv, n : n <= srv.written => PartialName(srv, n, srv.names[n])
<1>1. NoEvent = Ev("", <<>>)
  BY DEF NoEvent, Ev
<1>2. ASSUME NEW m \in DOMAIN Payloads PROVE Payloads[m] # <<>>
  BY PayloadsAssumption, PayloadType, LenProperties
<1> QED
  BY <1>1, <1>2 DEF PartialData, PartialName

LEMMA NoPiece == <<>> \in Seq(Values)
OBVIOUS

LEMMA FlushedEv ==
  ASSUME NEW x, NEW d, NEW buf
  PROVE  Flushed(Ev(x, d), buf) = Ev(x, IF buf # <<>> THEN buf ELSE d)
BY DEF Flushed, Ev

LEMMA DecodedFlushed ==
  ASSUME NEW srv, NEW n, NEW e, NEW buf, Decoded(srv, n, e, buf)
  PROVE  /\ Decoded(srv, n, Flushed(e, buf), <<>>)
         /\ Partial(srv, n, Flushed(e, buf))
<1>1. PICK x, d : e = Ev(x, d) /\ PartialName(srv, n, x) /\ PartialData(n, d)
  BY DEF Decoded
<1>2. PartialData(n, buf)
  BY DEF Decoded
<1> DEFINE f == IF buf # <<>> THEN buf ELSE d
<1>3. Flushed(e, buf) = Ev(x, f) /\ PartialData(n, f)
  BY <1>1, <1>2, FlushedEv
<1> HIDE DEF f
<1>4. Ev(x, f).name = x /\ Ev(x, f).data = f
  BY DEF Ev
<1>5. <<>> \in Seq(Values) /\ PartialData(n, <<>>)
  BY NoPiece, Fragments
<1> QED
  BY <1>1, <1>3, <1>4, <1>5 DEF Decoded, Partial

\* What the scanner has decoded before any line of event n is a piece of it.
LEMMA DecoderDecoded ==
  ASSUME NEW srv \in Services, NEW n, NEW r, Position(srv, n, r),
         NEW e, NEW buf, Decoder(srv, n, r, e, buf)
  PROVE  Decoded(srv, n, e, buf)
<1> DEFINE k == r - Prelude(srv)
<1>1. /\ srv.written \in Nat /\ n \in Nat /\ Prelude(srv) \in {0, 2} /\ r \in Nat \ {0}
      /\ n <= srv.written => /\ n \in 1 .. Len(Payloads) /\ Parts(n) \in Nat \ {0}
                             /\ srv.names[n] \in AllNames
  BY PositionType DEF Position
<1>2. k > 1 => n <= srv.written /\ k <= Parts(n) + 2
  BY <1>1 DEF Position, Size
<1>3. k \in Int
  BY <1>1
<1>4. <<>> \in Seq(Values)
  BY NoPiece
<1>5. /\ k <= 1 => e = NoEvent /\ buf = <<>>
      /\ k > 1 /\ ~srv.layout.dataFirst =>
           e = Ev(srv.names[n], <<>>) /\ buf = SubSeq(Payloads[n], 1, k - 2)
      /\ k > 1 /\ k <= Parts(n) + 1 /\ srv.layout.dataFirst =>
           e = NoEvent /\ buf = SubSeq(Payloads[n], 1, k - 1)
      /\ k > 1 /\ k > Parts(n) + 1 /\ srv.layout.dataFirst =>
           e = Ev(srv.names[n], Payloads[n]) /\ buf = <<>>
  BY DEF Decoder
<1> HIDE DEF k
<1>6. CASE k <= 1
  BY <1>4, <1>5, <1>6, Fragments DEF Decoded
<1>7. CASE k > 1 /\ ~srv.layout.dataFirst
  <2>1. n \in 1 .. Len(Payloads) /\ k - 2 \in 0 .. Parts(n) /\ n <= srv.written
    BY <1>1, <1>2, <1>3, <1>7
  <2>2. buf \in Seq(Values) /\ PartialData(n, buf)
    BY <1>5, <1>7, <2>1, FirstParts
  <2> QED
    BY <1>5, <1>7, <2>1, <2>2, Fragments DEF Decoded
<1>8. CASE k > 1 /\ k <= Parts(n) + 1 /\ srv.layout.dataFirst
  <2>1. n \in 1 .. Len(Payloads) /\ k - 1 \in 0 .. Parts(n)
    BY <1>1, <1>2, <1>3, <1>8
  <2>2. buf \in Seq(Values) /\ PartialData(n, buf)
    BY <1>5, <1>8, <2>1, FirstParts
  <2> QED
    BY <1>5, <1>8, <2>2, Fragments DEF Decoded
<1>9. CASE k > 1 /\ k > Parts(n) + 1 /\ srv.layout.dataFirst
  <2>1. n \in 1 .. Len(Payloads) /\ n <= srv.written
    BY <1>1, <1>2, <1>9
  <2>2. PartialData(n, Payloads[n])
    <3>1. Payloads[n] \in Seq(DataText) /\ Parts(n) \in 0 .. Parts(n) /\ Parts(n) = Len(Payloads[n])
      BY <1>1, <2>1, PayloadType DEF Parts
    <3>2. SubSeq(Payloads[n], 1, Parts(n)) = Payloads[n]
      BY <3>1, SubSeqFull
    <3> QED
      BY <2>1, <3>1, <3>2, FirstParts
  <2> QED
    BY <1>4, <1>5, <1>9, <2>1, <2>2, Fragments DEF Decoded
<1>10. \/ k <= 1 \/ (k > 1 /\ k <= Parts(n) + 1) \/ (k > 1 /\ k > Parts(n) + 1)
  BY <1>1, <1>2, <1>3
<1> QED
  BY <1>6, <1>7, <1>8, <1>9, <1>10
LEMMA WithFieldEv ==
  ASSUME NEW x, NEW d, NEW v
  PROVE  /\ WithField(Ev(x, d), NewLine("event", v)) = Ev(v, d)
         /\ WithField(Ev(x, d), NewLine("other", v)) = Ev(x, d)
BY DEF WithField, Ev, NewLine

\* What the scanner has before line r + 1.
LEMMA DecoderNext ==
  ASSUME NEW srv, NEW n, NEW r \in Nat, Prelude(srv) \in Nat, Parts(n) \in Nat,
         NEW f, NEW b
  PROVE  LET k == r - Prelude(srv) IN
         /\ k <= 0 => f = NoEvent /\ b = <<>>
         /\ k > 0 /\ ~srv.layout.dataFirst =>
              f = Ev(srv.names[n], <<>>) /\ b = SubSeq(Payloads[n], 1, k - 1)
         /\ k > 0 /\ k <= Parts(n) /\ srv.layout.dataFirst =>
              f = NoEvent /\ b = SubSeq(Payloads[n], 1, k)
         /\ k > Parts(n) /\ srv.layout.dataFirst =>
              f = Ev(srv.names[n], Payloads[n]) /\ b = <<>>
         => Decoder(srv, n, r + 1, f, b)
<1> DEFINE k  == r - Prelude(srv)
           k2 == r + 1 - Prelude(srv)
<1>1. /\ k2 - 2 = k - 1 /\ k2 - 1 = k
      /\ (k2 <= 1 <=> k <= 0) /\ (k2 > 1 <=> k > 0)
      /\ (k2 <= Parts(n) + 1 <=> k <= Parts(n)) /\ (k2 > Parts(n) + 1 <=> k > Parts(n))
  OBVIOUS
<1>2. Decoder(srv, n, r + 1, f, b) =
        (/\ k2 <= 1 => f = NoEvent /\ b = <<>>
         /\ k2 > 1 /\ ~srv.layout.dataFirst =>
              f = Ev(srv.names[n], <<>>) /\ b = SubSeq(Payloads[n], 1, k2 - 2)
         /\ k2 > 1 /\ k2 <= Parts(n) + 1 /\ srv.layout.dataFirst =>
              f = NoEvent /\ b = SubSeq(Payloads[n], 1, k2 - 1)
         /\ k2 > 1 /\ k2 > Parts(n) + 1 /\ srv.layout.dataFirst =>
              f = Ev(srv.names[n], Payloads[n]) /\ b = <<>>)
  BY DEF Decoder
<1> HIDE DEF k, k2
<1> QED
  BY <1>1, <1>2 DEF k

\* Reading line r of event n: a blank line before the event changes nothing, the
\* one behind it yields the event, and any other leaves the scanner before the
\* next line.
LEMMA ReadLine ==
  ASSUME NEW srv \in Services, NEW n, NEW r, Position(srv, n, r), n <= srv.written,
         r \in 1 .. Size(srv, n), NEW e, NEW buf, Decoder(srv, n, r, e, buf),
         NEW l, l = LineAt(srv, n, r)
  PROVE  /\ l.field \in {"blank", "event", "other", "data"}
         /\ l.field = "blank" =>
              \/ /\ r < Size(srv, n) /\ Flushed(e, buf) = NoEvent
                 /\ Decoder(srv, n, r + 1, NoEvent, <<>>)
              \/ r = Size(srv, n) /\ Flushed(e, buf) = Ev(srv.names[n], Payloads[n])
         /\ l.field \in {"event", "other"} =>
              /\ r < Size(srv, n)
              /\ Decoder(srv, n, r + 1, WithField(Flushed(e, buf), l), <<>>)
         /\ l.field = "data" =>
              /\ r < Size(srv, n)
              /\ Decoder(srv, n, r + 1, e, Append(buf, l.val))
<1> DEFINE k == r - Prelude(srv)
           p == Parts(n)
           first == srv.layout.dataFirst
           name == srv.names[n]
           data == Payloads[n]
<1>1. /\ Prelude(srv) \in {0, 2} /\ r \in Nat \ {0} /\ n \in 1 .. Len(Payloads)
      /\ p \in Nat \ {0}
  BY PositionType DEF Position
<1>2. k \in Int /\ k <= p + 2 /\ (r = Size(srv, n) <=> k = p + 2)
      /\ (r < Size(srv, n) <=> k < p + 2)
  BY <1>1 DEF Size
<1>3. \A f, v : NewLine(f, v).field = f /\ NewLine(f, v).val = v
  BY DEF NewLine
<1>4. Blank.field = "blank"
  BY <1>3 DEF Blank
<1>5. /\ data \in Seq(DataText) /\ data # <<>> /\ SubSeq(data, 1, p) = data
  BY <1>1, PayloadType, SubSeqFull DEF Parts
<1>6. /\ k <= 1 => e = NoEvent /\ buf = <<>>
      /\ k > 1 /\ ~first => e = Ev(name, <<>>) /\ buf = SubSeq(data, 1, k - 2)
      /\ k > 1 /\ k <= p + 1 /\ first => e = NoEvent /\ buf = SubSeq(data, 1, k - 1)
      /\ k > 1 /\ k > p + 1 /\ first => e = Ev(name, data) /\ buf = <<>>
  BY DEF Decoder
<1>7. l = IF k <= 0 THEN IF r = 1 THEN NewLine("other", "") ELSE Blank
          ELSE IF k = p + 2 THEN Blank
          ELSE IF (IF first THEN k ELSE k - 1) \in 1 .. p
               THEN NewLine("data", data[IF first THEN k ELSE k - 1])
          ELSE NewLine("event", name)
  BY DEF LineAt
<1>8. ASSUME NEW f, NEW b,
             k <= 0 => f = NoEvent /\ b = <<>>,
             k > 0 /\ ~first => f = Ev(name, <<>>) /\ b = SubSeq(data, 1, k - 1),
             k > 0 /\ k <= p /\ first => f = NoEvent /\ b = SubSeq(data, 1, k),
             k > p /\ first => f = Ev(name, data) /\ b = <<>>
      PROVE  Decoder(srv, n, r + 1, f, b)
  BY <1>1, <1>8, DecoderNext
<1> HIDE DEF k, p, first, name, data
<1>9. CASE k <= 0
  <2>1. e = NoEvent /\ buf = <<>> /\ k < p + 2 /\ k <= 1 /\ ~(k > 0) /\ ~(k > p)
    <3>1. k <= 1 /\ k < p + 2 /\ ~(k > 0) /\ ~(k > p)
      BY <1>1, <1>2, <1>9
    <3> QED
      BY <1>6, <3>1
  <2>2. Flushed(e, buf) = NoEvent
    BY <2>1 DEF Flushed
  <2>3. Decoder(srv, n, r + 1, NoEvent, <<>>)
    BY <1>8, <2>1
  <2>4. r < Size(srv, n)
    BY <1>2, <2>1
  <2>5. CASE r = 1
    <3>1. l = NewLine("other", "")
      BY <1>7, <1>9, <2>5
    <3>2. WithField(NoEvent, l) = NoEvent
      BY <3>1, Fragments, WithFieldEv
    <3>3. l.field = "other"
      BY <1>3, <3>1
    <3> QED
      BY <2>2, <2>3, <2>4, <3>2, <3>3
  <2>6. CASE r # 1
    <3>1. l.field = "blank"
      BY <1>4, <1>7, <1>9, <2>6
    <3> QED
      BY <2>2, <2>3, <2>4, <3>1
  <2> QED
    BY <2>5, <2>6
<1>10. CASE k = p + 2
  <2>1. ~(k <= 0) /\ k > 1 /\ k > p + 1 /\ k - 2 = p
    BY <1>1, <1>2, <1>10
  <2>2. l.field = "blank" /\ r = Size(srv, n)
    BY <1>2, <1>4, <1>7, <1>10, <2>1
  <2>3. Flushed(e, buf) = Ev(name, data)
    <3>1. CASE first
      <4>1. e = Ev(name, data) /\ buf = <<>>
        BY <1>6, <2>1, <3>1
      <4> QED
        BY <4>1, FlushedEv
    <3>2. CASE ~first
      <4>1. e = Ev(name, <<>>) /\ buf = data
        BY <1>5, <1>6, <2>1, <3>2
      <4> QED
        BY <1>5, <4>1, FlushedEv
    <3> QED
      BY <3>1, <3>2
  <2> QED
    BY <2>2, <2>3 DEF name, data
<1>11. CASE k > 0 /\ k # p + 2 /\ first
  <2>0. ~(k <= 0) /\ k < p + 2 /\ k <= p + 1
    BY <1>1, <1>2, <1>11
  <2>1. CASE k <= p
    <3>1. k \in 1 .. p /\ ~(k > p)
      BY <1>1, <1>2, <1>11, <2>1
    <3>2. l = NewLine("data", data[k])
      BY <1>7, <1>11, <2>0, <3>1
    <3>3. e = NoEvent /\ buf = SubSeq(data, 1, k - 1)
      <4>1. CASE k <= 1
        <5>1. k - 1 < 1 /\ k - 1 \in Int
          BY <1>2, <4>1
        <5>2. SubSeq(data, 1, k - 1) = <<>>
          BY <5>1, SubSeqEmpty
        <5> QED
          BY <1>6, <4>1, <5>2
      <4>2. CASE ~(k <= 1)
        <5>1. k > 1
          BY <1>2, <4>2
        <5> QED
          BY <1>6, <1>11, <2>0, <5>1
      <4> QED
        BY <4>1, <4>2
    <3>4. SubSeq(data, 1, k) = Append(buf, data[k])
      BY <1>1, <3>1, <3>3, NextPart DEF p, data
    <3>5. Decoder(srv, n, r + 1, NoEvent, Append(buf, data[k]))
      BY <1>8, <1>11, <2>0, <2>1, <3>1, <3>4
    <3>6. l.field = "data" /\ l.val = data[k] /\ r < Size(srv, n)
      BY <1>2, <1>3, <2>0, <3>2
    <3> QED
      BY <3>3, <3>5, <3>6
  <2>2. CASE ~(k <= p)
    <3>1. k > p /\ k > 1 /\ k \notin 1 .. p /\ k - 1 = p
      BY <1>1, <1>2, <1>11, <2>2
    <3>2. l = NewLine("event", name)
      BY <1>7, <1>11, <2>0, <3>1
    <3>3. e = NoEvent /\ buf = data
      BY <1>5, <1>6, <1>11, <2>0, <3>1
    <3>4. Flushed(e, buf) = Ev("", data)
      <4>1. e = Ev("", <<>>) /\ buf # <<>>
        BY <1>5, <3>3, Fragments
      <4>2. Flushed(Ev("", <<>>), buf) = Ev("", IF buf # <<>> THEN buf ELSE <<>>)
        BY FlushedEv
      <4> QED
        BY <3>3, <4>1, <4>2
    <3>5. WithField(Flushed(e, buf), l) = Ev(name, data)
      <4>1. WithField(Ev("", data), NewLine("event", name)) = Ev(name, data)
        BY DEF WithField, Ev, NewLine
      <4> QED
        BY <3>2, <3>4, <4>1
    <3>6. Decoder(srv, n, r + 1, Ev(name, data), <<>>)
      BY <1>8, <1>11, <2>0, <2>2, <3>1
    <3>7. l.field = "event" /\ r < Size(srv, n)
      BY <1>2, <1>3, <2>0, <3>2
    <3> QED
      BY <3>5, <3>6, <3>7
  <2> QED
    BY <2>1, <2>2
<1>12. CASE k > 0 /\ k # p + 2 /\ ~first
  <2>0. ~(k <= 0) /\ k < p + 2
    BY <1>1, <1>2, <1>12
  <2>1. CASE k = 1
    <3>1. k <= 1 /\ k - 1 \notin 1 .. p /\ k - 1 < 1 /\ k - 1 \in Int
      BY <1>1, <1>2, <2>1
    <3>2. l = NewLine("event", name)
      BY <1>7, <1>12, <2>0, <3>1
    <3>3. e = NoEvent /\ buf = <<>>
      BY <1>6, <3>1
    <3>4. WithField(Flushed(e, buf), l) = Ev(name, <<>>)
      <4>1. Flushed(e, buf) = Ev("", <<>>)
        BY <3>3, Fragments, FlushedEv
      <4>2. WithField(Ev("", <<>>), NewLine("event", name)) = Ev(name, <<>>)
        BY DEF WithField, Ev, NewLine
      <4> QED
        BY <3>2, <4>1, <4>2
    <3>5. SubSeq(data, 1, k - 1) = <<>>
      BY <3>1, SubSeqEmpty
    <3>6. Decoder(srv, n, r + 1, Ev(name, <<>>), <<>>)
      BY <1>8, <1>12, <2>0, <3>5
    <3>7. l.field = "event" /\ r < Size(srv, n)
      BY <1>2, <1>3, <2>0, <3>2
    <3> QED
      BY <3>4, <3>6, <3>7
  <2>2. CASE k # 1
    <3>1. k > 1 /\ k - 1 \in 1 .. p /\ k - 1 - 1 = k - 2
      BY <1>1, <1>2, <1>12, <2>0, <2>2
    <3>2. l = NewLine("data", data[k - 1])
      BY <1>7, <1>12, <2>0, <3>1
    <3>3. e = Ev(name, <<>>) /\ buf = SubSeq(data, 1, k - 2)
      BY <1>6, <1>12, <3>1
    <3>4. SubSeq(data, 1, k - 1) = Append(buf, data[k - 1])
      BY <1>1, <3>1, <3>3, NextPart DEF p, data
    <3>5. Decoder(srv, n, r + 1, e, Append(buf, data[k - 1]))
      BY <1>8, <1>12, <2>0, <3>3, <3>4
    <3>6. l.field = "data" /\ l.val = data[k - 1] /\ r < Size(srv, n)
      BY <1>2, <1>3, <2>0, <3>2
    <3> QED
      BY <3>5, <3>6
  <2> QED
    BY <2>1, <2>2
<1> QED
  BY <1>2, <1>9, <1>10, <1>11, <1>12

\* Reading a piece of line r: what has been decoded stays a piece of the event.
LEMMA ReadPiece ==
  ASSUME NEW srv, NEW n, NEW r, NEW l \in Pieces(LineAt(srv, n, r)),
         NEW e, NEW buf, Decoded(srv, n, e, buf)
  PROVE  /\ l.field \in {"nocolon", "event", "other", "data"}
         /\ l.field \in {"event", "other"} =>
              Decoded(srv, n, WithField(Flushed(e, buf), l), <<>>)
         /\ l.field = "data" => Decoded(srv, n, e, Append(buf, l.val))
<1>1. LineAt(srv, n, r).field \in {"blank", "event", "other", "data"}
  BY DEF LineAt, Blank, NewLine
<1>2. PICK v \in {"", "cut"} :
        l \in {NewLine("nocolon", ""), NewLine("event", v), NewLine("other", v), NewLine("data", v)}
  BY <1>1 DEF Pieces
<1>3. PICK x, d : /\ Flushed(e, buf) = Ev(x, d)
                  /\ PartialName(srv, n, x) /\ PartialData(n, d)
  BY DecodedFlushed DEF Decoded
<1>4. PartialName(srv, n, v)
  BY Fragments
<1>5. <<>> \in Seq(Values) /\ PartialData(n, <<>>)
  BY NoPiece, Fragments
<1>6. CASE l = NewLine("nocolon", "")
  BY <1>6 DEF NewLine
<1>7. CASE l = NewLine("event", v)
  <2>1. WithField(Flushed(e, buf), l) = Ev(v, d)
    <3>1. \A y, z, u : WithField(Ev(y, z), NewLine("event", u)) = Ev(u, z)
      BY DEF WithField, Ev, NewLine
    <3> QED
      BY <1>3, <1>7, <3>1
  <2>2. l.field = "event"
    BY <1>7 DEF NewLine
  <2> QED
    BY <1>3, <1>4, <1>5, <2>1, <2>2 DEF Decoded
<1>8. CASE l = NewLine("other", v)
  <2>1. WithField(Flushed(e, buf), l) = Ev(x, d)
    <3>1. \A y, z, u : WithField(Ev(y, z), NewLine("other", u)) = Ev(y, z)
      BY DEF WithField, Ev, NewLine
    <3> QED
      BY <1>3, <1>8, <3>1
  <2>2. l.field = "other"
    BY <1>8 DEF NewLine
  <2> QED
    BY <1>3, <1>5, <2>1, <2>2 DEF Decoded
<1>9. CASE l = NewLine("data", v)
  <2>1. l.field = "data" /\ l.val = v
    BY <1>9 DEF NewLine
  <2>2. buf \in Seq(Values) /\ v \in Values
    BY LinesAssumption DEF Decoded, Values
  <2>3. Append(buf, v) \in Seq(Values) /\ PartialData(n, Append(buf, v))
    BY <2>2, CutData, AppendProperties
  <2> QED
    BY <2>1, <2>3 DEF Decoded
<1> QED
  BY <1>2, <1>6, <1>7, <1>8, <1>9

-----------------------------------------------------------------------------
(* The scanner on the stream of a service: n is the event it reads, or has  *)
(* yielded last.                                                           *)

\* In the text, or behind a cut with a piece of an event.
Reading(srv, n, w, end, e, buf) ==
  \/ \E r \in Nat : /\ Position(srv, n, r) /\ Carries(srv, w, end, n, r)
                    /\ Decoder(srv, n, r, e, buf)
  \/ w = <<>> /\ end # "open" /\ Decoded(srv, n, e, buf)

Whole(srv, n) == Item(Ev(srv.names[n], Payloads[n]), "nil")

Scans(srv, n, w, end, pc, e, buf, it) ==
  /\ n \in 1 .. srv.written + 1
  /\ w \in Seq(Carried) /\ end \in Endings \cup {"open"}
  /\ pc = "scan" => Reading(srv, n, w, end, e, buf)
  /\ pc = "yieldRecord" => /\ n <= srv.written /\ it = Whole(srv, n) /\ buf = <<>>
                           /\ Carries(srv, w, end, n + 1, 1)
  /\ pc = "yieldError" => it.err # "nil"
  /\ pc = "final" => Decoded(srv, n, e, buf)
  /\ pc = "yieldLast" => it.err # "nil" \/ Partial(srv, n, it.evt)
  /\ pc \in {"yieldError", "final", "yieldLast", "done"} => end # "open"

Now(srv, n)  == Scans(srv, n, wire, ending, spc, evt, dataBuf, item)
Then(srv, n) == Scans(srv, n, wire', ending', spc', evt', dataBuf', item')

\* Before it has read anything.
LEMMA ScansInit ==
  ASSUME NEW srv \in Services, srv.written = 0, ScanInit
  PROVE  Now(srv, 1)
<1>1. Carries(srv, <<>>, "open", 1, 1)
  <2> DEFINE one == [i \in 1 .. 1 |-> 1]
  <2>1. Marks(srv, <<>>, "open", one, one)
    BY DEF Marks
  <2>2. one[1] = 1
    OBVIOUS
  <2> QED
    BY <2>1, <2>2 DEF Carries
<1>2. Position(srv, 1, 1) /\ Decoder(srv, 1, 1, NoEvent, <<>>)
  <2>1. 1 - Prelude(srv) <= 1 /\ ~(1 - Prelude(srv) > 1)
    BY DEF Prelude
  <2> QED
    BY <2>1 DEF Position, Decoder
<1> QED
  BY <1>1, <1>2 DEF Now, Scans, ScanInit, Reading

\* One line of the stream.
LEMMA ScanLine ==
  ASSUME NEW srv \in Services, NEW n \in 1 .. srv.written + 1,
         NEW w \in Seq(Carried), w # <<>>, NEW end, Reading(srv, n, w, end, evt, dataBuf),
         NEW l, l = Head(w)
  PROVE  /\ l.field \in {"blank", "event", "other", "data", "nocolon"}
         /\ Tail(w) \in Seq(Carried)
         /\ l.field = "blank" =>
              \/ /\ Flushed(evt, dataBuf) = NoEvent
                 /\ Reading(srv, n, Tail(w), end, NoEvent, <<>>)
              \/ /\ n <= srv.written /\ Carries(srv, Tail(w), end, n + 1, 1)
                 /\ Flushed(evt, dataBuf) = Ev(srv.names[n], Payloads[n])
         /\ l.field \in {"event", "other"} =>
              Reading(srv, n, Tail(w), end, WithField(Flushed(evt, dataBuf), l), <<>>)
         /\ l.field = "data" =>
              Reading(srv, n, Tail(w), end, evt, Append(dataBuf, l.val))
         /\ l.field = "nocolon" => end # "open"
<1>2. PICK r \in Nat : /\ Position(srv, n, r) /\ Carries(srv, w, end, n, r)
                       /\ Decoder(srv, n, r, evt, dataBuf)
  BY DEF Reading
<1>3. Tail(w) \in Seq(Carried)
  BY HeadTailProperties
<1> DEFINE after(e, buf) == Reading(srv, n, Tail(w), end, e, buf)
<1>4. /\ n \in 1 .. srv.written /\ r \in 1 .. Size(srv, n)
      /\ \/ /\ l = LineAt(srv, n, r)
            /\ IF r = Size(srv, n) THEN Carries(srv, Tail(w), end, n + 1, 1)
                                   ELSE Carries(srv, Tail(w), end, n, r + 1)
         \/ l \in Pieces(LineAt(srv, n, r)) /\ Tail(w) = <<>> /\ end # "open"
  BY <1>2, CarriesTail
<1>5. srv.written \in Nat /\ n <= srv.written /\ n \in Nat
  <2>1. srv.written \in Nat /\ n \in Nat
    BY PositionType
  <2> QED
    BY <1>4, <2>1
<1>6. CASE l = LineAt(srv, n, r) /\ IF r = Size(srv, n) THEN Carries(srv, Tail(w), end, n + 1, 1)
                                   ELSE Carries(srv, Tail(w), end, n, r + 1)
  <2>1. /\ l.field \in {"blank", "event", "other", "data"}
        /\ l.field = "blank" =>
             \/ /\ r < Size(srv, n) /\ Flushed(evt, dataBuf) = NoEvent
                /\ Decoder(srv, n, r + 1, NoEvent, <<>>)
             \/ r = Size(srv, n) /\ Flushed(evt, dataBuf) = Ev(srv.names[n], Payloads[n])
        /\ l.field \in {"event", "other"} =>
             /\ r < Size(srv, n)
             /\ Decoder(srv, n, r + 1, WithField(Flushed(evt, dataBuf), l), <<>>)
        /\ l.field = "data" =>
             /\ r < Size(srv, n)
             /\ Decoder(srv, n, r + 1, evt, Append(dataBuf, l.val))
    BY <1>2, <1>4, <1>5, <1>6, ReadLine
  <2>2. ASSUME NEW e, NEW buf, r < Size(srv, n), Decoder(srv, n, r + 1, e, buf)
        PROVE  after(e, buf)
    <3>1. r + 1 \in Nat \ {0} /\ r + 1 <= Size(srv, n) /\ r # Size(srv, n)
      <4>1. Size(srv, n) \in Nat /\ r \in Nat /\ r < Size(srv, n)
        BY <1>5, <2>2, PositionType DEF Size
      <4> QED
        BY <4>1
    <3>2. Position(srv, n, r + 1)
      BY <1>5, <3>1 DEF Position
    <3>3. Carries(srv, Tail(w), end, n, r + 1)
      BY <1>6, <3>1
    <3> QED
      BY <2>2, <3>1, <3>2, <3>3 DEF Reading
  <2> HIDE DEF after
  <2>3. l.field = "blank" =>
          \/ Flushed(evt, dataBuf) = NoEvent /\ after(NoEvent, <<>>)
          \/ /\ n <= srv.written /\ Carries(srv, Tail(w), end, n + 1, 1)
             /\ Flushed(evt, dataBuf) = Ev(srv.names[n], Payloads[n])
    BY <1>5, <1>6, <2>1, <2>2
  <2>4. l.field \in {"event", "other"} => after(WithField(Flushed(evt, dataBuf), l), <<>>)
    BY <2>1, <2>2
  <2>5. l.field = "data" => after(evt, Append(dataBuf, l.val))
    BY <2>1, <2>2
  <2> QED
    BY <1>3, <2>1, <2>3, <2>4, <2>5 DEF after
<1>7. CASE l \in Pieces(LineAt(srv, n, r)) /\ Tail(w) = <<>> /\ end # "open"
  <2>1. Decoded(srv, n, evt, dataBuf)
    BY <1>2, DecoderDecoded
  <2>2. /\ l.field \in {"nocolon", "event", "other", "data"}
        /\ l.field \in {"event", "other"} =>
             Decoded(srv, n, WithField(Flushed(evt, dataBuf), l), <<>>)
        /\ l.field = "data" => Decoded(srv, n, evt, Append(dataBuf, l.val))
    BY <1>7, <2>1, ReadPiece
  <2> QED
    BY <1>3, <1>7, <2>2 DEF Reading
<1> QED
  BY <1>4, <1>6, <1>7

\* Every step of the scanner.
LEMMA ScanKeeps ==
  ASSUME NEW srv \in Services, NEW n, Now(srv, n), ScanStep
  PROVE  Then(srv, n)
<1>1. /\ n \in 1 .. srv.written + 1 /\ wire \in Seq(Carried)
      /\ ending \in Endings \cup {"open"}
  BY DEF Now, Scans
<1> DEFINE l == Head(wire)
<1>2. ASSUME NEW f, Scan(f)
      PROVE  /\ l.field = f /\ spc = "scan"
             /\ wire' \in Seq(Carried) /\ ending' \in Endings \cup {"open"}
             /\ l.field = "blank" =>
                  \/ /\ Flushed(evt, dataBuf) = NoEvent
                     /\ Reading(srv, n, wire', ending', NoEvent, <<>>)
                  \/ /\ n <= srv.written /\ Carries(srv, wire', ending', n + 1, 1)
                     /\ Flushed(evt, dataBuf) = Ev(srv.names[n], Payloads[n])
             /\ l.field \in {"event", "other", "id", "retry"} =>
                  Reading(srv, n, wire', ending', WithField(Flushed(evt, dataBuf), l), <<>>)
             /\ l.field = "data" =>
                  Reading(srv, n, wire', ending', evt, Append(dataBuf, l.val))
             /\ l.field = "nocolon" => ending' # "open"
  <2>1. /\ spc = "scan" /\ wire # <<>> /\ wire' = Tail(wire) /\ ending' = ending
        /\ l.field = f
    BY <1>2 DEF Scan
  <2>0. Reading(srv, n, wire, ending, evt, dataBuf)
    BY <2>1 DEF Now, Scans
  <2>2. /\ l.field \in {"blank", "event", "other", "data", "nocolon"}
        /\ wire' \in Seq(Carried) /\ ending' \in Endings \cup {"open"}
        /\ l.field = "blank" =>
             \/ /\ Flushed(evt, dataBuf) = NoEvent
                /\ Reading(srv, n, wire', ending', NoEvent, <<>>)
             \/ /\ n <= srv.written /\ Carries(srv, wire', ending', n + 1, 1)
                /\ Flushed(evt, dataBuf) = Ev(srv.names[n], Payloads[n])
        /\ l.field \in {"event", "other"} =>
             Reading(srv, n, wire', ending', WithField(Flushed(evt, dataBuf), l), <<>>)
        /\ l.field = "data" =>
             Reading(srv, n, wire', ending', evt, Append(dataBuf, l.val))
        /\ l.field = "nocolon" => ending' # "open"
    BY <1>1, <2>0, <2>1, ScanLine
  <2> HIDE DEF l
  <2> QED
    BY <2>1, <2>2
<1> HIDE DEF l
<1>3. CASE BlankLine
  <2>1. Scan("blank") /\ dataBuf' = <<>>
    BY <1>3 DEF BlankLine
  <2>2. \/ /\ Flushed(evt, dataBuf) = NoEvent
           /\ Reading(srv, n, wire', ending', NoEvent, <<>>)
        \/ /\ n <= srv.written /\ Carries(srv, wire', ending', n + 1, 1)
           /\ Flushed(evt, dataBuf) = Ev(srv.names[n], Payloads[n])
    BY <1>2, <2>1
  <2>3. spc = "scan" /\ wire' \in Seq(Carried) /\ ending' \in Endings \cup {"open"}
    BY <1>2, <2>1
  <2>4. CASE /\ Flushed(evt, dataBuf) = NoEvent
             /\ Reading(srv, n, wire', ending', NoEvent, <<>>)
    <3>1. Empty(NoEvent)
      BY DEF Empty, NoEvent
    <3>2. evt' = NoEvent /\ spc' = "scan"
      BY <1>3, <2>3, <2>4, <3>1 DEF BlankLine
    <3> QED
      BY <1>1, <2>1, <2>3, <2>4, <3>2 DEF Then, Scans
  <2>5. CASE /\ n <= srv.written /\ Carries(srv, wire', ending', n + 1, 1)
             /\ Flushed(evt, dataBuf) = Ev(srv.names[n], Payloads[n])
    <3>1. srv.names[n] \in AllNames
      BY <1>1, <2>5, PositionType
    <3>2. ~Empty(Flushed(evt, dataBuf))
      <4>1. Flushed(evt, dataBuf).name = srv.names[n]
        <5>1. \A x, d : Ev(x, d).name = x
          BY DEF Ev
        <5> QED
          BY <2>5, <5>1
      <4>2. srv.names[n] # ""
        BY <3>1 DEF AllNames, EventNames, Progress, Terminal
      <4> QED
        BY <4>1, <4>2 DEF Empty
    <3>3. spc' = "yieldRecord" /\ item' = Whole(srv, n)
      BY <1>3, <2>5, <3>2 DEF BlankLine, Yield, Whole
    <3> QED
      BY <1>1, <2>1, <2>3, <2>5, <3>3 DEF Then, Scans
  <2> QED
    BY <2>2, <2>4, <2>5
<1>4. CASE MalformedLine
  <2>1. Scan("nocolon") /\ spc' = "yieldLast" /\ item'.err = "malformed"
    BY <1>4 DEF MalformedLine, Yield, Item
  <2>2. wire' \in Seq(Carried) /\ ending' \in Endings \cup {"open"} /\ ending' # "open"
    BY <1>2, <2>1
  <2> QED
    BY <1>1, <2>1, <2>2 DEF Then, Scans
<1>5. CASE FieldLine
  <2>1. PICK f \in {"event", "id", "retry", "other"} : Scan(f)
    BY <1>5 DEF FieldLine
  <2>2. /\ evt' = WithField(Flushed(evt, dataBuf), l) /\ dataBuf' = <<>> /\ spc' = spc
    BY <1>5 DEF FieldLine, l
  <2>3. /\ spc = "scan" /\ wire' \in Seq(Carried) /\ ending' \in Endings \cup {"open"}
        /\ Reading(srv, n, wire', ending', WithField(Flushed(evt, dataBuf), l), <<>>)
    BY <1>2, <2>1
  <2> QED
    BY <1>1, <2>2, <2>3 DEF Then, Scans
<1>6. CASE DataLine
  <2>1. Scan("data") /\ dataBuf' = Append(dataBuf, l.val) /\ evt' = evt /\ spc' = spc
    BY <1>6 DEF DataLine, l
  <2>2. /\ spc = "scan" /\ wire' \in Seq(Carried) /\ ending' \in Endings \cup {"open"}
        /\ Reading(srv, n, wire', ending', evt, Append(dataBuf, l.val))
    BY <1>2, <2>1
  <2> QED
    BY <1>1, <2>1, <2>2 DEF Then, Scans
<1>7. CASE EndOfStream
  <2>1. /\ spc = "scan" /\ ending # "open"
        /\ wire' = wire /\ ending' = ending /\ evt' = evt /\ dataBuf' = dataBuf
        /\ \/ spc' = "final"
           \/ spc' = "yieldError" /\ item'.err = ending
    BY <1>7 DEF EndOfStream, Yield, Item, stream, decoder
  <2>2. Decoded(srv, n, evt, dataBuf)
    <3>1. Reading(srv, n, wire, ending, evt, dataBuf)
      BY <2>1 DEF Now, Scans
    <3> QED
      BY <3>1, DecoderDecoded DEF Reading
  <2>3. ending # "nil"
    BY <1>1 DEF Endings
  <2> QED
    BY <1>1, <2>1, <2>2, <2>3 DEF Then, Scans
<1>8. CASE FinalRecord
  <2>1. /\ spc = "final" /\ dataBuf' = <<>> /\ evt' = Flushed(evt, dataBuf)
        /\ wire' = wire /\ ending' = ending
        /\ \/ spc' = "done"
           \/ spc' = "yieldLast" /\ item'.evt = evt' /\ item'.err = "nil"
    BY <1>8 DEF FinalRecord, Yield, Item, stream
  <2>2. ending # "open" /\ Decoded(srv, n, evt, dataBuf)
    BY <2>1 DEF Now, Scans
  <2>3. Partial(srv, n, evt')
    BY <2>1, <2>2, DecodedFlushed
  <2> QED
    BY <1>1, <2>1, <2>2, <2>3 DEF Then, Scans
<1> QED
  BY <1>3, <1>4, <1>5, <1>6, <1>7, <1>8 DEF ScanStep

\* The consumer goes on: after a whole record the scanner is at the next event,
\* after the last one it is over.
LEMMA ContinueKeeps ==
  ASSUME NEW srv \in Services, NEW n, Now(srv, n), Continue, item.err = "nil",
         NEW m \in 1 .. srv.written + 1, spc = "yieldRecord" => m = n + 1
  PROVE  Then(srv, m)
<1>1. /\ n \in 1 .. srv.written + 1 /\ wire \in Seq(Carried)
      /\ ending \in Endings \cup {"open"}
  BY DEF Now, Scans
<1>2. wire' = wire /\ ending' = ending /\ dataBuf' = dataBuf /\ item' = item
  BY DEF Continue, stream
<1>3. CASE spc = "yieldRecord"
  <2>1. /\ n <= srv.written /\ dataBuf = <<>> /\ Carries(srv, wire, ending, n + 1, 1)
    BY <1>3 DEF Now, Scans
  <2>2. spc' = "scan" /\ evt' = NoEvent
    BY <1>3 DEF Continue
  <2>3. Position(srv, m, 1)
    BY DEF Position
  <2>4. Decoder(srv, m, 1, NoEvent, <<>>)
    <3>1. 1 - Prelude(srv) <= 1 /\ ~(1 - Prelude(srv) > 1)
      BY DEF Prelude
    <3> QED
      BY <3>1 DEF Decoder
  <2>5. Reading(srv, m, wire', ending', evt', dataBuf')
    BY <1>2, <1>3, <2>1, <2>2, <2>3, <2>4 DEF Reading
  <2> QED
    BY <1>1, <1>2, <2>2, <2>5 DEF Then, Scans
<1>4. CASE spc = "yieldLast"
  <2>1. spc' = "done" /\ ending # "open"
    BY <1>4 DEF Continue, Now, Scans
  <2> QED
    BY <1>1, <1>2, <2>1 DEF Then, Scans
<1>5. spc # "yieldError"
  BY DEF Now, Scans
<1> QED
  BY <1>3, <1>4, <1>5 DEF Continue, Yielding

\* The end of the stream.
LEMMA CutKeeps ==
  ASSUME NEW srv \in Services, NEW n, Now(srv, n), CutStream
  PROVE  Then(srv, n)
<1>1. /\ n \in 1 .. srv.written + 1 /\ wire \in Seq(Carried)
      /\ ending = "open" /\ ending' \in Endings
      /\ spc' = spc /\ evt' = evt /\ dataBuf' = dataBuf /\ item' = item
  BY DEF Now, Scans, CutStream, decoder
<1>2. ending' # "open"
  BY <1>1 DEF Endings
<1>3. ASSUME NEW m, NEW r, Carries(srv, wire, "open", m, r)
      PROVE  Carries(srv, wire', ending', m, r)
  <2>1. PICK k \in 0 .. Len(wire) :
          \/ wire' = SubSeq(wire, 1, k)
          \/ k < Len(wire) /\ \E p \in Pieces(wire[k + 1]) : wire' = Append(SubSeq(wire, 1, k), p)
    BY DEF CutStream
  <2>2. /\ Carries(srv, SubSeq(wire, 1, k), ending', m, r)
        /\ \A p : k < Len(wire) /\ p \in Pieces(wire[k + 1])
                   => Carries(srv, Append(SubSeq(wire, 1, k), p), ending', m, r)
    BY <1>1, <1>2, <1>3, CarriesCut
  <2> QED
    BY <2>1, <2>2
<1>4. wire' \in Seq(Carried)
  <2>1. PICK k \in 0 .. Len(wire) :
          \/ wire' = SubSeq(wire, 1, k)
          \/ k < Len(wire) /\ \E p \in Pieces(wire[k + 1]) : wire' = Append(SubSeq(wire, 1, k), p)
    BY DEF CutStream
  <2>2. k \in Nat /\ Len(wire) \in Nat /\ k <= Len(wire)
    BY <1>1, LenProperties
  <2>3. SubSeq(wire, 1, k) \in Seq(Carried)
    <3>1. \A i \in 1 .. k : wire[i] \in Carried
      <4>1. \A i \in 1 .. k : i \in 1 .. Len(wire)
        BY <2>2
      <4> QED
        BY <1>1, <4>1, ElementOfSeq
    <3> QED
      BY <2>2, <3>1, SubSeqProperties
  <2>4. ASSUME NEW p, k < Len(wire), p \in Pieces(wire[k + 1]) PROVE p \in Carried
    <3>1. k + 1 \in 1 .. Len(wire)
      BY <2>2, <2>4
    <3> QED
      BY <1>1, <2>4, <3>1, PieceType
  <2> QED
    BY <2>1, <2>3, <2>4, AppendProperties
<1>5. CASE spc = "scan"
  <2>1. PICK r \in Nat : /\ Position(srv, n, r) /\ Carries(srv, wire, "open", n, r)
                         /\ Decoder(srv, n, r, evt, dataBuf)
    BY <1>1, <1>5 DEF Now, Scans, Reading
  <2>2. Reading(srv, n, wire', ending', evt', dataBuf')
    BY <1>1, <1>3, <2>1 DEF Reading
  <2> QED
    BY <1>1, <1>4, <1>5, <2>2 DEF Then, Scans
<1>6. CASE spc = "yieldRecord"
  <2>1. /\ n <= srv.written /\ item = Whole(srv, n) /\ dataBuf = <<>>
        /\ Carries(srv, wire, "open", n + 1, 1)
    BY <1>1, <1>6 DEF Now, Scans
  <2>2. Carries(srv, wire', ending', n + 1, 1)
    BY <1>3, <2>1
  <2> QED
    BY <1>1, <1>4, <1>6, <2>1, <2>2 DEF Then, Scans
<1>7. CASE spc \notin {"scan", "yieldRecord"}
  <2>1. spc \notin {"yieldError", "final", "yieldLast", "done"}
    BY <1>1 DEF Now, Scans
  <2> QED
    BY <1>1, <1>4, <1>7, <2>1 DEF Then, Scans
<1> QED
  BY <1>5, <1>6, <1>7

\* The service writes on.
LEMMA WriteKeeps ==
  ASSUME NEW srv \in Services, NEW n, Now(srv, n), ending = "open",
         NEW new \in Services, new.layout = srv.layout,
         new.written = srv.written + 1,
         \A m \in 1 .. srv.written : new.names[m] = srv.names[m],
         wire' = wire \o Written(new.layout, new.names[new.written], new.written),
         UNCHANGED <<ending, spc, decoder, item>>
  PROVE  Then(new, n)
<1>1. /\ n \in 1 .. srv.written + 1 /\ wire \in Seq(Carried)
      /\ ending' = "open" /\ spc' = spc /\ evt' = evt /\ dataBuf' = dataBuf /\ item' = item
  BY DEF Now, Scans, decoder
<1>2. srv.written \in Nat /\ n \in 1 .. new.written + 1 /\ new.written \in 1 .. new.written + 1
      /\ new.written <= new.written
  <2>1. srv.written \in Nat
    BY <1>1, PositionType
  <2> QED
    BY <1>1, <2>1
<1>3. new.names[new.written] \in AllNames
  BY <1>2, PositionType
<1>4. ASSUME NEW m, NEW r, Carries(srv, wire, "open", m, r)
      PROVE  wire' \in Seq(Carried) /\ Carries(new, wire', "open", m, r)
  BY <1>1, <1>2, <1>3, <1>4, CarriesMore
<1>5. wire' \in Seq(Carried)
  <2>1. new.written \in 1 .. Len(Payloads)
    BY <1>2, PositionType
  <2>2. Written(new.layout, new.names[new.written], new.written) \in Seq(Carried)
    BY <1>3, <2>1, WrittenLines
  <2> QED
    BY <1>1, <2>2, ConcatProperties
<1>6. \A m : Size(new, m) = Size(srv, m) /\ Prelude(new) = Prelude(srv)
  BY DEF Size, Prelude
<1>7. CASE spc = "scan"
  <2>1. PICK r \in Nat : /\ Position(srv, n, r) /\ Carries(srv, wire, "open", n, r)
                         /\ Decoder(srv, n, r, evt, dataBuf)
    BY <1>1, <1>7 DEF Now, Scans, Reading
  <2>2. Position(new, n, r)
    <3>1. n <= srv.written => n <= new.written
      BY <1>1, <1>2
    <3> QED
      BY <1>2, <1>6, <2>1, <3>1 DEF Position
  <2>3. Decoder(new, n, r, evt, dataBuf)
    <3>1. CASE n <= srv.written
      <4>1. new.names[n] = srv.names[n]
        BY <1>1, <1>2, <3>1
      <4> QED
        BY <1>6, <2>1, <4>1 DEF Decoder
    <3>2. CASE ~(n <= srv.written)
      <4>1. r - Prelude(new) <= 1 /\ ~(r - Prelude(new) > 1)
        BY <2>1, <3>2 DEF Position, Prelude
      <4> QED
        BY <1>6, <2>1, <4>1 DEF Decoder
    <3> QED
      BY <3>1, <3>2
  <2>4. Reading(new, n, wire', ending', evt', dataBuf')
    BY <1>1, <1>4, <2>1, <2>2, <2>3 DEF Reading
  <2> QED
    BY <1>1, <1>2, <1>5, <1>7, <2>4 DEF Then, Scans
<1>8. CASE spc = "yieldRecord"
  <2>1. /\ n <= srv.written /\ item = Whole(srv, n) /\ dataBuf = <<>>
        /\ Carries(srv, wire, "open", n + 1, 1)
    BY <1>1, <1>8 DEF Now, Scans
  <2>2. n <= new.written /\ new.names[n] = srv.names[n]
    BY <1>1, <1>2, <2>1
  <2>3. Whole(new, n) = Whole(srv, n)
    BY <2>2 DEF Whole
  <2>4. Carries(new, wire', "open", n + 1, 1)
    BY <1>4, <2>1
  <2> QED
    BY <1>1, <1>2, <1>5, <1>8, <2>1, <2>2, <2>3, <2>4 DEF Then, Scans
<1>9. CASE spc \notin {"scan", "yieldRecord"}
  <2>1. spc \notin {"yieldError", "final", "yieldLast", "done"}
    BY <1>1 DEF Now, Scans
  <2> QED
    BY <1>1, <1>2, <1>5, <1>9, <2>1 DEF Then, Scans
<1> QED
  BY <1>7, <1>8, <1>9

\* What is yielded without an error is event n, or what a cut has left of it.
LEMMA YieldedPart ==
  ASSUME NEW srv \in Services, NEW n, Now(srv, n), Yielding, item.err = "nil"
  PROVE  Partial(srv, n, item.evt)
<1>1. n \in 1 .. srv.written + 1
  BY DEF Now, Scans
<1>2. CASE spc = "yieldRecord"
  <2>1. n <= srv.written /\ item = Whole(srv, n)
    BY <1>2 DEF Now, Scans
  <2>2. item.evt.name = srv.names[n] /\ item.evt.data = Payloads[n]
    BY <2>1 DEF Whole, Item, Ev
  <2>3. n \in 1 .. Len(Payloads)
    BY <1>1, <2>1, PositionType
  <2>4. PartialData(n, Payloads[n])
    <3>1. Parts(n) \in 0 .. Parts(n) /\ Parts(n) = Len(Payloads[n])
          /\ Payloads[n] \in Seq(DataText)
      BY <2>3, PayloadType DEF Parts
    <3>2. SubSeq(Payloads[n], 1, Parts(n)) = Payloads[n]
      BY <3>1, SubSeqFull
    <3> QED
      BY <2>3, <3>1, <3>2, FirstParts
  <2> QED
    BY <2>1, <2>2, <2>4, Fragments DEF Partial
<1>3. CASE spc = "yieldLast"
  BY <1>3 DEF Now, Scans
<1>4. spc # "yieldError"
  BY DEF Now, Scans
<1> QED
  BY <1>2, <1>3, <1>4 DEF Yielding

\* While the stream goes on, only whole events are yielded.
LEMMA YieldedWhole ==
  ASSUME NEW srv \in Services, NEW n, Now(srv, n), Yielding, ending = "open"
  PROVE  /\ item.err = "nil" /\ n \in DOMAIN Payloads /\ item.evt.data = Payloads[n]
         /\ n <= srv.written /\ item.evt.name = srv.names[n]
<1>1. spc = "yieldRecord"
  BY DEF Now, Scans, Yielding
<1>2. n \in 1 .. srv.written + 1 /\ n <= srv.written /\ item = Whole(srv, n)
  BY <1>1 DEF Now, Scans
<1>3. item.err = "nil" /\ item.evt.name = srv.names[n] /\ item.evt.data = Payloads[n]
  BY <1>2 DEF Whole, Item, Ev
<1>4. n \in DOMAIN Payloads
  <2>1. n \in 1 .. Len(Payloads)
    BY <1>2, PositionType
  <2> QED
    BY <2>1, PayloadType
<1> QED
  BY <1>2, <1>3, <1>4

\* Every step of the scanner, and of its consumer out of a yield, brings the end
\* of the iteration nearer.
LEMMA ScanAdvances ==
  ASSUME wire \in Seq(Carried), ScanStep \/ Continue \/ Stop
  PROVE  /\ ScanLeft \in Nat /\ ScanLeft' \in Nat /\ ScanLeft' < ScanLeft
         /\ ending' = ending
<1>1. Len(wire) \in Nat /\ (wire = <<>> => Len(wire) = 0)
  BY LenProperties
<1>2. ASSUME NEW f, Scan(f)
      PROVE  /\ spc = "scan" /\ Len(wire') \in Nat /\ Len(wire') = Len(wire) - 1
             /\ ending' = ending
  BY <1>2, HeadTailProperties DEF Scan
<1>3. CASE BlankLine
  <2>1. spc' \in {"scan", "yieldRecord"}
    BY <1>2, <1>3 DEF BlankLine, Yield
  <2> QED
    BY <1>1, <1>2, <1>3, <2>1 DEF BlankLine, ScanLeft
<1>4. CASE MalformedLine
  BY <1>1, <1>2, <1>4 DEF MalformedLine, Yield, ScanLeft
<1>5. CASE FieldLine \/ DataLine
  <2>1. /\ spc = "scan" /\ spc' = "scan" /\ ending' = ending
        /\ Len(wire') \in Nat /\ Len(wire') = Len(wire) - 1
    BY <1>2, <1>5 DEF FieldLine, DataLine
  <2> QED
    BY <1>1, <2>1 DEF ScanLeft
<1>6. CASE EndOfStream
  <2>1. spc = "scan" /\ spc' \in {"final", "yieldError"} /\ ending' = ending
    BY <1>6 DEF EndOfStream, Yield, stream
  <2> QED
    BY <1>1, <2>1 DEF ScanLeft
<1>7. CASE FinalRecord
  <2>1. spc = "final" /\ spc' \in {"done", "yieldLast"} /\ ending' = ending
    BY <1>7 DEF FinalRecord, Yield, stream
  <2> QED
    BY <2>1 DEF ScanLeft
<1>8. CASE Continue \/ Stop
  <2>1. /\ wire' = wire /\ ending' = ending /\ Yielding
        /\ spc' \in IF spc = "yieldRecord" THEN {"scan", "done"}
                    ELSE IF spc = "yieldError" THEN {"final", "done"} ELSE {"done"}
    BY <1>8 DEF Continue, Stop, stream, Yielding
  <2> QED
    BY <1>1, <2>1 DEF ScanLeft, Yielding
<1> QED
  BY <1>3, <1>4, <1>5, <1>6, <1>7, <1>8 DEF ScanStep

\* The scanner passes the end of a stream in silence only at a clean end of file
\* behind the last line: what it then yields is no error.
AtEof == ending = "eof" /\ wire = <<>>
Passing == spc \in {"final", "done"} \/ (spc = "yieldLast" /\ item.err = "nil")

LEMMA ScanPasses ==
  ASSUME ScanStep, Passing => AtEof
  PROVE  Passing' => AtEof'
<1>1. CASE BlankLine \/ FieldLine \/ DataLine
  BY <1>1 DEF BlankLine, FieldLine, DataLine, Scan, Yield, Passing
<1>2. CASE MalformedLine
  BY <1>2 DEF MalformedLine, Yield, Item, Passing
<1>3. CASE EndOfStream
  BY <1>3 DEF EndOfStream, Yield, Item, Passing, AtEof, stream
<1>4. CASE FinalRecord
  BY <1>4 DEF FinalRecord, Passing, AtEof, stream
<1> QED
  BY <1>1, <1>2, <1>3, <1>4 DEF ScanStep

LEMMA ContinuePasses ==
  ASSUME NEW srv, NEW n, Now(srv, n), Continue, item.err = "nil", Passing => AtEof
  PROVE  Passing' => AtEof'
<1>1. spc # "yieldError" /\ Yielding
  BY DEF Now, Scans, Continue
<1>2. \/ spc = "yieldRecord" /\ spc' = "scan"
      \/ spc = "yieldLast" /\ spc' = "done"
  BY <1>1 DEF Continue, Yielding
<1> QED
  BY <1>2 DEF Continue, Passing, AtEof, stream

-----------------------------------------------------------------------------
(* A stream of which nothing is lost: as many lines were read or are still  *)
(* to be read as were written.                                              *)

\* Nothing that is still to be read is cut, the scanner yields no remains, and
\* it ends behind the last event.
Lossless(srv, n, w, pc, e, buf) ==
  /\ pc = "scan" => Reading(srv, n, w, "open", e, buf)
  /\ pc = "yieldRecord" => Carries(srv, w, "open", n + 1, 1)
  /\ pc # "yieldLast"
  /\ pc \in {"yieldError", "final", "done"} => n = srv.written + 1
  /\ pc \in {"yieldError", "final"} => e = NoEvent /\ buf = <<>>

\* A cut loses a line or more, or nothing: the last line is no piece of one.
Accounts(srv, n, w, end, pc, e, buf, rd, txt) ==
  /\ rd \in Seq(Carried) /\ txt \in Seq(Carried)
  /\ Len(rd) + Len(w) <= Len(txt)
  /\ end = "open" => Len(rd) + Len(w) = Len(txt)
  /\ Len(rd) + Len(w) = Len(txt) => Lossless(srv, n, w, pc, e, buf)

NowAll(srv, n)  == Accounts(srv, n, wire, ending, spc, evt, dataBuf, read, text)
ThenAll(srv, n) == Accounts(srv, n, wire', ending', spc', evt', dataBuf', read', text')

\* Behind the last line nothing is decoded.
LEMMA NoMoreLines ==
  ASSUME NEW srv \in Services, NEW n, NEW e, NEW buf, Reading(srv, n, <<>>, "open", e, buf)
  PROVE  n = srv.written + 1 /\ e = NoEvent /\ buf = <<>>
<1>1. PICK r \in Nat : Carries(srv, <<>>, "open", n, r) /\ Decoder(srv, n, r, e, buf)
  BY DEF Reading
<1>2. n = srv.written + 1 /\ r = 1
  <2>1. PICK ev, ln : ev[1] = n /\ ln[1] = r /\ Marks(srv, <<>>, "open", ev, ln)
    BY <1>1 DEF Carries
  <2>2. Len(<<>>) + 1 = 1
    OBVIOUS
  <2>3. ev[Len(<<>>) + 1] = srv.written + 1 /\ ln[Len(<<>>) + 1] = 1
    BY <2>1 DEF Marks
  <2> QED
    BY <2>1, <2>2, <2>3
<1>3. r - Prelude(srv) <= 1
  BY <1>2 DEF Prelude
<1> QED
  BY <1>1, <1>2, <1>3 DEF Decoder

\* The last line of a text is the blank one behind its last event.
LEMMA LastIsBlank ==
  ASSUME NEW srv \in Services, NEW w \in Seq(Carried), w # <<>>, NEW n, NEW r,
         Carries(srv, w, "open", n, r)
  PROVE  Pieces(w[Len(w)]) = {}
<1> DEFINE i == Len(w)
<1>1. PICK ev, ln : Marks(srv, w, "open", ev, ln)
  BY DEF Carries
<1>2. i \in Nat \ {0} /\ i \in 1 .. Len(w) /\ i + 1 \in 1 .. Len(w) + 1 /\ i \in 1 .. Len(w) + 1
  BY EmptySeq, LenProperties
<1>3. /\ ev[i] \in 1 .. srv.written /\ ln[i] \in 1 .. Size(srv, ev[i]) /\ ln[i] \in Nat
      /\ IF ln[i] = Size(srv, ev[i])
         THEN ev[i + 1] = ev[i] + 1 /\ ln[i + 1] = 1
         ELSE ev[i + 1] = ev[i] /\ ln[i + 1] = ln[i] + 1
      /\ w[i] = LineAt(srv, ev[i], ln[i])
      /\ ln[i + 1] = 1
  BY <1>1, <1>2 DEF Marks
<1> HIDE DEF i
<1>4. ln[i] = Size(srv, ev[i])
  <2>1. ln[i] >= 1
    BY <1>3
  <2> QED
    BY <1>3, <2>1
<1>5. /\ Prelude(srv) \in {0, 2} /\ Parts(ev[i]) \in Nat \ {0}
  <2>1. srv.written \in Nat /\ ev[i] \in 1 .. srv.written + 1 /\ ev[i] <= srv.written
    <3>1. srv.written \in Nat
      <4>1. srv.written \in 0 .. Len(Payloads) /\ Len(Payloads) \in Nat
        BY PayloadsAssumption, LenProperties DEF Services
      <4> QED
        BY <4>1
    <3> QED
      BY <1>3, <3>1
  <2> QED
    BY <2>1, PositionType
<1>6. /\ ~(ln[i] - Prelude(srv) <= 0) /\ ln[i] - Prelude(srv) = Parts(ev[i]) + 2
  BY <1>4, <1>5 DEF Size
<1>7. w[i] = Blank
  BY <1>3, <1>6 DEF LineAt
<1>8. w[i].field = "blank"
  <2>1. Blank.field = "blank"
    BY DEF Blank, NewLine
  <2> QED
    BY <1>7, <2>1
<1> QED
  BY <1>8 DEF Pieces, i

LEMMA AccountsInit ==
  ASSUME NEW srv \in Services, srv.written = 0, ScanInit, text = <<>>
  PROVE  NowAll(srv, 1)
<1>1. Now(srv, 1)
  BY ScansInit
<1>2. wire = <<>> /\ read = <<>> /\ text = <<>> /\ spc = "scan" /\ ending = "open"
  BY DEF ScanInit
<1>3. Reading(srv, 1, wire, "open", evt, dataBuf)
  BY <1>1, <1>2 DEF Now, Scans
<1>4. Lossless(srv, 1, wire, spc, evt, dataBuf)
  BY <1>2, <1>3 DEF Lossless
<1>5. <<>> \in Seq(Carried) /\ Len(<<>>) + Len(<<>>) = Len(<<>>) /\ Len(<<>>) <= Len(<<>>)
  OBVIOUS
<1> QED
  BY <1>2, <1>4, <1>5 DEF NowAll, Accounts

\* Every step of the scanner.
LEMMA ScanAccounts ==
  ASSUME NEW srv \in Services, NEW n, Now(srv, n), NowAll(srv, n), ScanStep, text' = text
  PROVE  ThenAll(srv, n)
<1> DEFINE l == Head(wire)
           kept == Len(read) + Len(wire) = Len(text)
           kept2 == Len(read') + Len(wire') = Len(text')
<1>1. /\ n \in 1 .. srv.written + 1 /\ wire \in Seq(Carried)
      /\ read \in Seq(Carried) /\ text \in Seq(Carried)
      /\ Len(read) + Len(wire) <= Len(text)
      /\ ending = "open" => kept
      /\ kept => Lossless(srv, n, wire, spc, evt, dataBuf)
  BY DEF Now, Scans, NowAll, Accounts
<1>2. ASSUME /\ read' \in Seq(Carried) /\ ending' = ending
             /\ Len(read') + Len(wire') = Len(read) + Len(wire)
             /\ kept => Lossless(srv, n, wire', spc', evt', dataBuf')
      PROVE  ThenAll(srv, n)
  BY <1>1, <1>2 DEF ThenAll, Accounts
<1>3. ASSUME NEW f, Scan(f),
             kept => Lossless(srv, n, wire', spc', evt', dataBuf')
      PROVE  ThenAll(srv, n)
  <2>1. wire # <<>> /\ wire' = Tail(wire) /\ read' = Append(read, l) /\ ending' = ending
    BY <1>3 DEF Scan
  <2>2. l \in Carried /\ Len(wire') = Len(wire) - 1 /\ Len(wire) \in Nat
    BY <1>1, <2>1, HeadTailProperties, LenProperties
  <2> HIDE DEF l
  <2>3. read' \in Seq(Carried) /\ Len(read') = Len(read) + 1 /\ Len(read) \in Nat
    BY <1>1, <2>1, <2>2, AppendProperties, LenProperties
  <2>4. Len(read') + Len(wire') = Len(read) + Len(wire)
    BY <2>2, <2>3
  <2> QED
    BY <1>2, <1>3, <2>1, <2>3, <2>4
<1>4. ASSUME NEW f, Scan(f), kept
      PROVE  /\ l.field = f /\ spc = "scan" /\ f # "nocolon"
             /\ f = "blank" =>
                  \/ /\ Flushed(evt, dataBuf) = NoEvent
                     /\ Reading(srv, n, wire', "open", NoEvent, <<>>)
                  \/ /\ n <= srv.written /\ Carries(srv, wire', "open", n + 1, 1)
                     /\ Flushed(evt, dataBuf) = Ev(srv.names[n], Payloads[n])
             /\ f \in {"event", "other", "id", "retry"} =>
                  Reading(srv, n, wire', "open", WithField(Flushed(evt, dataBuf), l), <<>>)
             /\ f = "data" =>
                  Reading(srv, n, wire', "open", evt, Append(dataBuf, l.val))
  <2>1. spc = "scan" /\ wire # <<>> /\ wire' = Tail(wire) /\ l.field = f
    BY <1>4 DEF Scan
  <2>2. Reading(srv, n, wire, "open", evt, dataBuf)
    BY <1>1, <1>4, <2>1 DEF Lossless
  <2>3. /\ l.field \in {"blank", "event", "other", "data", "nocolon"}
        /\ l.field = "blank" =>
             \/ /\ Flushed(evt, dataBuf) = NoEvent
                /\ Reading(srv, n, wire', "open", NoEvent, <<>>)
             \/ /\ n <= srv.written /\ Carries(srv, wire', "open", n + 1, 1)
                /\ Flushed(evt, dataBuf) = Ev(srv.names[n], Payloads[n])
        /\ l.field \in {"event", "other"} =>
             Reading(srv, n, wire', "open", WithField(Flushed(evt, dataBuf), l), <<>>)
        /\ l.field = "data" =>
             Reading(srv, n, wire', "open", evt, Append(dataBuf, l.val))
        /\ l.field = "nocolon" => FALSE
    BY <1>1, <2>1, <2>2, ScanLine
  <2> HIDE DEF l
  <2> QED
    BY <2>1, <2>3
<1> HIDE DEF l, kept
<1>5. CASE BlankLine
  <2>1. Scan("blank") /\ dataBuf' = <<>>
    BY <1>5 DEF BlankLine
  <2>2. ASSUME kept PROVE Lossless(srv, n, wire', spc', evt', dataBuf')
    <3>1. /\ spc = "scan"
          /\ \/ /\ Flushed(evt, dataBuf) = NoEvent
                /\ Reading(srv, n, wire', "open", NoEvent, <<>>)
             \/ /\ n <= srv.written /\ Carries(srv, wire', "open", n + 1, 1)
                /\ Flushed(evt, dataBuf) = Ev(srv.names[n], Payloads[n])
      BY <1>4, <2>1, <2>2
    <3>2. CASE /\ Flushed(evt, dataBuf) = NoEvent
               /\ Reading(srv, n, wire', "open", NoEvent, <<>>)
      <4>1. Empty(NoEvent)
        BY DEF Empty, NoEvent
      <4>2. evt' = NoEvent /\ spc' = "scan"
        BY <1>5, <3>1, <3>2, <4>1 DEF BlankLine
      <4> QED
        BY <2>1, <3>2, <4>2 DEF Lossless
    <3>3. CASE /\ n <= srv.written /\ Carries(srv, wire', "open", n + 1, 1)
               /\ Flushed(evt, dataBuf) = Ev(srv.names[n], Payloads[n])
      <4>1. Flushed(evt, dataBuf).name = srv.names[n] /\ srv.names[n] # ""
        <5>1. \A x, d : Ev(x, d).name = x
          BY DEF Ev
        <5>2. srv.names[n] \in AllNames
          BY <1>1, <3>3, PositionType
        <5> QED
          BY <3>3, <5>1, <5>2 DEF AllNames, EventNames, Progress, Terminal
      <4>2. spc' = "yieldRecord"
        BY <1>5, <4>1 DEF BlankLine, Empty, Yield
      <4> QED
        BY <3>3, <4>2 DEF Lossless
    <3> QED
      BY <3>1, <3>2, <3>3
  <2> QED
    BY <1>3, <2>1, <2>2
<1>6. CASE MalformedLine
  <2>1. Scan("nocolon")
    BY <1>6 DEF MalformedLine
  <2>2. ~kept
    BY <1>4, <2>1
  <2> QED
    BY <1>3, <2>1, <2>2
<1>7. CASE FieldLine
  <2>1. PICK f \in {"event", "id", "retry", "other"} : Scan(f)
    BY <1>7 DEF FieldLine
  <2>2. evt' = WithField(Flushed(evt, dataBuf), l) /\ dataBuf' = <<>> /\ spc' = spc
    BY <1>7 DEF FieldLine, l
  <2>3. ASSUME kept PROVE Lossless(srv, n, wire', spc', evt', dataBuf')
    BY <1>4, <2>1, <2>2, <2>3 DEF Lossless
  <2> QED
    BY <1>3, <2>1, <2>3
<1>8. CASE DataLine
  <2>1. Scan("data") /\ dataBuf' = Append(dataBuf, l.val) /\ evt' = evt /\ spc' = spc
    BY <1>8 DEF DataLine, l
  <2>2. ASSUME kept PROVE Lossless(srv, n, wire', spc', evt', dataBuf')
    BY <1>4, <2>1, <2>2 DEF Lossless
  <2> QED
    BY <1>3, <2>1, <2>2
<1>9. CASE EndOfStream
  <2>1. /\ spc = "scan" /\ wire = <<>> /\ wire' = wire /\ ending' = ending /\ evt' = evt
        /\ dataBuf' = dataBuf /\ read' = read /\ spc' \in {"final", "yieldError"}
    BY <1>9 DEF EndOfStream, Yield, stream, decoder
  <2>2. ASSUME kept PROVE Lossless(srv, n, wire', spc', evt', dataBuf')
    <3>1. n = srv.written + 1 /\ evt = NoEvent /\ dataBuf = <<>>
      <4>1. Reading(srv, n, <<>>, "open", evt, dataBuf)
        BY <1>1, <2>1, <2>2 DEF Lossless
      <4> QED
        BY <4>1, NoMoreLines
    <3> QED
      BY <2>1, <3>1 DEF Lossless
  <2> QED
    BY <1>1, <1>2, <2>1, <2>2
<1>10. CASE FinalRecord
  <2>1. /\ spc = "final" /\ wire' = wire /\ ending' = ending /\ read' = read
        /\ evt' = Flushed(evt, dataBuf) /\ dataBuf' = <<>>
        /\ Empty(evt') => spc' = "done"
    BY <1>10 DEF FinalRecord, stream
  <2>2. ASSUME kept PROVE Lossless(srv, n, wire', spc', evt', dataBuf')
    <3>1. n = srv.written + 1 /\ evt = NoEvent /\ dataBuf = <<>>
      BY <1>1, <2>1, <2>2 DEF Lossless
    <3>2. Empty(evt')
      BY <2>1, <3>1 DEF Flushed, Empty, NoEvent
    <3> QED
      BY <2>1, <3>1, <3>2 DEF Lossless
  <2> QED
    BY <1>1, <1>2, <2>1, <2>2
<1> QED
  BY <1>5, <1>6, <1>7, <1>8, <1>9, <1>10 DEF ScanStep


\* The consumer goes on.
LEMMA ContinueAccounts ==
  ASSUME NEW srv \in Services, NEW n, Now(srv, n), NowAll(srv, n), Continue, item.err = "nil",
         NEW m \in 1 .. srv.written + 1, spc = "yieldRecord" => m = n + 1, text' = text
  PROVE  ThenAll(srv, m)
<1> DEFINE kept == Len(read) + Len(wire) = Len(text)
<1>1. /\ wire' = wire /\ ending' = ending /\ dataBuf' = dataBuf /\ read' = read
      /\ Yielding
  BY DEF Continue, stream, history
<1>2. kept => Lossless(srv, n, wire, spc, evt, dataBuf)
  BY DEF NowAll, Accounts
<1>3. ASSUME kept PROVE Lossless(srv, m, wire', spc', evt', dataBuf')
  <2>1. spc = "yieldRecord"
    BY <1>1, <1>2, <1>3 DEF Lossless, Yielding, Now, Scans
  <2>2. Carries(srv, wire, "open", m, 1)
    BY <1>2, <1>3, <2>1 DEF Lossless
  <2>3. spc' = "scan" /\ evt' = NoEvent /\ dataBuf' = <<>>
    BY <1>1, <2>1 DEF Continue, Now, Scans
  <2>4. Position(srv, m, 1)
    BY DEF Position
  <2>5. Decoder(srv, m, 1, NoEvent, <<>>)
    <3>1. 1 - Prelude(srv) <= 1 /\ ~(1 - Prelude(srv) > 1)
      BY DEF Prelude
    <3> QED
      BY <3>1 DEF Decoder
  <2>6. Reading(srv, m, wire', "open", evt', dataBuf')
    BY <1>1, <2>2, <2>3, <2>4, <2>5 DEF Reading
  <2> QED
    BY <2>3, <2>6 DEF Lossless
<1> QED
  BY <1>1, <1>3 DEF NowAll, ThenAll, Accounts

\* The end of the stream.
LEMMA CutAccounts ==
  ASSUME NEW srv \in Services, NEW n, Now(srv, n), NowAll(srv, n), CutStream, text' = text
  PROVE  ThenAll(srv, n)
<1>1. /\ wire \in Seq(Carried) /\ Len(wire) \in Nat
      /\ read \in Seq(Carried) /\ text \in Seq(Carried) /\ Len(read) \in Nat /\ Len(text) \in Nat
      /\ ending = "open" /\ ending' # "open" /\ Len(read) + Len(wire) = Len(text)
      /\ spc' = spc /\ evt' = evt /\ dataBuf' = dataBuf /\ read' = read
      /\ Lossless(srv, n, wire, spc, evt, dataBuf)
  BY LenProperties DEF Now, Scans, NowAll, Accounts, CutStream, decoder, history, Endings
<1>2. PICK k \in 0 .. Len(wire) :
        \/ wire' = SubSeq(wire, 1, k)
        \/ k < Len(wire) /\ \E p \in Pieces(wire[k + 1]) : wire' = Append(SubSeq(wire, 1, k), p)
  BY DEF CutStream
<1>3. k \in Nat /\ k <= Len(wire)
  BY <1>1, <1>2
<1>4. SubSeq(wire, 1, k) \in Seq(Carried) /\ Len(SubSeq(wire, 1, k)) = k
  <2>1. \A i \in 1 .. k : wire[i] \in Carried
    <3>1. \A i \in 1 .. k : i \in 1 .. Len(wire)
      BY <1>1, <1>3
    <3> QED
      BY <1>1, <3>1, ElementOfSeq
  <2>2. 1 \in Int /\ k \in Int
    BY <1>3
  <2>3. /\ SubSeq(wire, 1, k) \in Seq(Carried)
        /\ Len(SubSeq(wire, 1, k)) = IF 1 <= k THEN k - 1 + 1 ELSE 0
    BY <2>1, <2>2, SubSeqProperties
  <2> QED
    BY <1>3, <2>3
<1>5. /\ Len(wire') <= Len(wire)
      /\ Len(wire') = Len(wire) => wire' = wire \/ Pieces(wire[Len(wire)]) # {}
  <2>1. CASE wire' = SubSeq(wire, 1, k)
    <3>1. k = Len(wire) => wire' = wire
      BY <1>1, <2>1, SubSeqFull
    <3> QED
      BY <1>3, <1>4, <2>1, <3>1
  <2>2. CASE k < Len(wire) /\ \E p \in Pieces(wire[k + 1]) : wire' = Append(SubSeq(wire, 1, k), p)
    <3>1. PICK p \in Pieces(wire[k + 1]) : wire' = Append(SubSeq(wire, 1, k), p)
      BY <2>2
    <3>2. k + 1 \in 1 .. Len(wire)
      BY <1>1, <1>3, <2>2
    <3>3. p \in Carried
      BY <1>1, <3>2, PieceType
    <3>4. Len(wire') = k + 1
      BY <1>4, <3>1, <3>3, AppendProperties
    <3>5. k + 1 = Len(wire) => Pieces(wire[Len(wire)]) # {}
      BY <3>1
    <3> QED
      BY <1>1, <3>2, <3>4, <3>5
  <2> QED
    BY <1>2, <2>1, <2>2
<1>6. Len(wire') \in Nat
  <2>1. wire' \in Seq(Carried)
    <3>1. Then(srv, n)
      BY CutKeeps
    <3> QED
      BY <3>1 DEF Then, Scans
  <2> QED
    BY <2>1, LenProperties
<1>7. ASSUME Len(read') + Len(wire') = Len(text')
      PROVE  Lossless(srv, n, wire', spc', evt', dataBuf')
  <2>1. Len(wire') = Len(wire)
    BY <1>1, <1>6, <1>7
  <2>2. ASSUME NEW m, NEW r, Carries(srv, wire, "open", m, r) PROVE wire' = wire
    <3>1. CASE wire = <<>>
      BY <1>1, <1>2, <1>3, <2>1, <3>1, <1>5, <1>6
    <3>2. CASE wire # <<>>
      BY <1>1, <1>5, <2>1, <2>2, <3>2, LastIsBlank
    <3> QED
      BY <3>1, <3>2
  <2>3. CASE spc = "scan"
    <3>1. \E m, r : Carries(srv, wire, "open", m, r)
      BY <1>1, <2>3 DEF Lossless, Reading
    <3>2. wire' = wire
      BY <2>2, <3>1
    <3> QED
      BY <1>1, <3>2
  <2>4. CASE spc = "yieldRecord"
    <3>1. wire' = wire
      BY <1>1, <2>2, <2>4 DEF Lossless
    <3> QED
      BY <1>1, <3>1
  <2>5. CASE spc \notin {"scan", "yieldRecord"}
    BY <1>1, <2>5 DEF Lossless
  <2> QED
    BY <2>3, <2>4, <2>5
<1>8. Len(read') + Len(wire') <= Len(text')
  BY <1>1, <1>5, <1>6
<1> QED
  BY <1>1, <1>7, <1>8 DEF ThenAll, Accounts

LEMMA BothLonger ==
  ASSUME NEW a \in Nat, NEW b \in Nat, NEW c \in Nat, NEW d \in Nat, a + b = c
  PROVE  a + (b + d) = c + d /\ a + (b + d) <= c + d
OBVIOUS

\* The service writes on.
LEMMA WriteAccounts ==
  ASSUME NEW srv \in Services, NEW n, Now(srv, n), NowAll(srv, n), ending = "open",
         NEW new \in Services, new.layout = srv.layout,
         new.written = srv.written + 1,
         \A m \in 1 .. srv.written : new.names[m] = srv.names[m],
         wire' = wire \o Written(new.layout, new.names[new.written], new.written),
         text' = text \o Written(new.layout, new.names[new.written], new.written),
         UNCHANGED <<ending, spc, decoder, item, read>>
  PROVE  ThenAll(new, n)
<1> DEFINE more == Written(new.layout, new.names[new.written], new.written)
<1>1. Then(new, n)
  BY WriteKeeps
<1>2. /\ wire \in Seq(Carried) /\ read \in Seq(Carried) /\ text \in Seq(Carried)
      /\ Len(read) + Len(wire) = Len(text) /\ ending' = "open" /\ read' = read
  BY DEF Now, Scans, NowAll, Accounts
<1>3. more \in Seq(Carried)
  <2>1. new.written \in 1 .. new.written + 1 /\ new.written <= new.written
    <3>1. n \in 1 .. srv.written + 1
      BY DEF Now, Scans
    <3>2. srv.written \in Nat
      BY <3>1, PositionType
    <3> QED
      BY <3>2
  <2>2. new.written \in 1 .. Len(Payloads) /\ new.names[new.written] \in AllNames
    BY <2>1, PositionType
  <2> QED
    BY <2>2, WrittenLines
<1> HIDE DEF more
<1>4. /\ Len(wire') = Len(wire) + Len(more)
      /\ text' \in Seq(Carried) /\ Len(text') = Len(text) + Len(more)
  <2>1. wire' = wire \o more /\ text' = text \o more
    BY DEF more
  <2>2. Len(wire \o more) = Len(wire) + Len(more)
    BY <1>2, <1>3, Concat
  <2>3. text \o more \in Seq(Carried) /\ Len(text \o more) = Len(text) + Len(more)
    BY <1>2, <1>3, Concat
  <2> QED
    BY <2>1, <2>2, <2>3
<1>5. Len(wire) \in Nat /\ Len(read) \in Nat /\ Len(text) \in Nat /\ Len(more) \in Nat
  BY <1>2, <1>3, LenProperties
<1>6. Len(read') + Len(wire') = Len(text') /\ Len(read') + Len(wire') <= Len(text')
  <2> DEFINE w == Len(wire')
             t == Len(text')
             a == Len(read)
             b == Len(wire)
             c == Len(text)
             d == Len(more)
  <2>1. w = b + d /\ t = c + d /\ Len(read') = a
    BY <1>2, <1>4
  <2>2. a \in Nat /\ b \in Nat /\ c \in Nat /\ d \in Nat /\ a + b = c
    BY <1>2, <1>5
  <2> HIDE DEF w, t, a, b, c, d
  <2>3. a + w = t /\ a + w <= t
    BY <2>1, <2>2, BothLonger
  <2> QED
    BY <2>1, <2>3 DEF w, t
<1>7. Lossless(new, n, wire', spc', evt', dataBuf')
  BY <1>1, <1>2 DEF Then, Scans, Lossless
<1> QED
  BY <1>2, <1>4, <1>6, <1>7 DEF ThenAll, Accounts

-----------------------------------------------------------------------------
(* Events that were read whole, of a stream that is cut anywhere: the blank  *)
(* lines read tell how many.                                                *)

BlanksOf(srv, n) == IF srv.layout.keepAlive THEN 2 * n ELSE n

\* Blank lines before line r of event n.
BlanksBefore(srv, n, r) ==
  BlanksOf(srv, n - 1) + (IF srv.layout.keepAlive /\ r > 2 THEN 1 ELSE 0)

\* At line r of event n, or behind a piece of it, with b blank lines read.
Counting(srv, n, w, end, e, buf, b) ==
  \/ \E r \in Nat : /\ Position(srv, n, r) /\ Carries(srv, w, end, n, r)
                    /\ Decoder(srv, n, r, e, buf)
                    /\ b = BlanksBefore(srv, n, r)
  \/ w = <<>> /\ end # "open" /\ b < BlanksOf(srv, n)

Counted(srv, n, w, end, pc, e, buf, rd) ==
  /\ rd \in Seq(Carried)
  /\ pc = "scan" => Counting(srv, n, w, end, e, buf, Blanks(rd))
  /\ pc = "yieldRecord" => Blanks(rd) = BlanksOf(srv, n)
  /\ pc \notin {"scan", "yieldRecord"} => Blanks(rd) < BlanksOf(srv, n)

NowCounted(srv, n)  == Counted(srv, n, wire, ending, spc, evt, dataBuf, read)
ThenCounted(srv, n) == Counted(srv, n, wire', ending', spc', evt', dataBuf', read')

LEMMA BlanksType ==
  ASSUME NEW s \in Seq(Carried)
  PROVE  /\ IsFiniteSet({i \in 1 .. Len(s) : s[i].field = "blank"})
         /\ Blanks(s) = Cardinality({i \in 1 .. Len(s) : s[i].field = "blank"})
         /\ Blanks(s) \in Nat
<1> DEFINE B == {i \in 1 .. Len(s) : s[i].field = "blank"}
<1>1. Len(s) \in Nat /\ DOMAIN s = 1 .. Len(s)
  BY LenProperties
<1>2. IsFiniteSet(1 .. Len(s)) /\ B \subseteq 1 .. Len(s)
  BY <1>1, FS_Interval
<1>3. IsFiniteSet(B) /\ Cardinality(B) \in Nat
  BY <1>2, FS_Subset, FS_CardinalityType
<1> QED
  BY <1>1, <1>3 DEF Blanks

LEMMA BlanksGrow ==
  ASSUME NEW s \in Seq(Carried), NEW l \in Carried
  PROVE  /\ Blanks(s) \in Nat
         /\ Blanks(Append(s, l)) = Blanks(s) + (IF l.field = "blank" THEN 1 ELSE 0)
<1> DEFINE B(q) == {i \in 1 .. Len(q) : q[i].field = "blank"}
           t == Append(s, l)
<1>1. /\ t \in Seq(Carried) /\ Len(t) = Len(s) + 1 /\ Len(s) \in Nat
      /\ t[Len(s) + 1] = l /\ \A i \in 1 .. Len(s) : t[i] = s[i]
  BY AppendProperties, LenProperties
<1> HIDE DEF t
<1>4. /\ IsFiniteSet(B(s)) /\ Blanks(s) \in Nat
      /\ Blanks(s) = Cardinality(B(s)) /\ Blanks(t) = Cardinality(B(t))
  BY <1>1, BlanksType
<1>5. B(t) = IF l.field = "blank" THEN B(s) \cup {Len(s) + 1} ELSE B(s)
  BY <1>1
<1>6. Len(s) + 1 \notin B(s)
  BY <1>1
<1>7. Cardinality(B(s) \cup {Len(s) + 1}) = Cardinality(B(s)) + 1
  BY <1>4, <1>6, FS_AddElement
<1> HIDE DEF B
<1>9. Blanks(t) = Blanks(s) + (IF l.field = "blank" THEN 1 ELSE 0)
  BY <1>4, <1>5, <1>7
<1> QED
  BY <1>4, <1>9 DEF t

\* The blank lines of one event: the one behind a comment, and its last.
LEMMA BlanksInEvent ==
  ASSUME NEW srv \in Services, NEW n \in 1 .. srv.written, NEW r \in 1 .. Size(srv, n)
  PROVE  LET l == LineAt(srv, n, r) IN
         /\ BlanksBefore(srv, n, r) \in Nat
         /\ BlanksBefore(srv, n, r) < BlanksOf(srv, n)
         /\ r = Size(srv, n) => /\ l.field = "blank"
                                /\ BlanksBefore(srv, n, r) + 1 = BlanksOf(srv, n)
         /\ r # Size(srv, n) => BlanksBefore(srv, n, r + 1) =
              BlanksBefore(srv, n, r) + (IF l.field = "blank" THEN 1 ELSE 0)
<1> DEFINE k == r - Prelude(srv)
           p == Parts(n)
           l == LineAt(srv, n, r)
<1>0. srv.written \in Nat /\ n \in 1 .. srv.written + 1 /\ n <= srv.written
  <2>1. srv.written \in 0 .. Len(Payloads) /\ Len(Payloads) \in Nat
    BY PayloadsAssumption, LenProperties DEF Services
  <2> QED
    BY <2>1
<1>1. Prelude(srv) = (IF srv.layout.keepAlive THEN 2 ELSE 0) /\ p \in Nat \ {0} /\ n \in Nat \ {0}
  BY <1>0, PositionType DEF Prelude
<1>2. r \in Nat \ {0} /\ (r = Size(srv, n) <=> k = p + 2) /\ k <= p + 2
  BY <1>1 DEF Size
<1>3. l.field = "blank" <=> r = Size(srv, n) \/ (srv.layout.keepAlive /\ r = 2)
  <2>1. \A f, v : NewLine(f, v).field = f
    BY DEF NewLine
  <2>2. Blank.field = "blank"
    BY <2>1 DEF Blank
  <2>3. k <= 0 => (k = 0 <=> r = 2) /\ srv.layout.keepAlive
    BY <1>1, <1>2
  <2>4. k > 0 => ~(srv.layout.keepAlive /\ r = 2)
    BY <1>1, <1>2
  <2>5. CASE k <= 0
    <3>1. l = IF r = 1 THEN NewLine("other", "") ELSE Blank
      BY <2>5 DEF LineAt
    <3>2. r # Size(srv, n) /\ (r = 1 <=> r # 2) /\ srv.layout.keepAlive
      BY <1>1, <1>2, <2>3, <2>5
    <3>3. l.field = IF r = 1 THEN "other" ELSE "blank"
      BY <2>1, <2>2, <3>1
    <3> QED
      BY <3>2, <3>3
  <2>6. CASE ~(k <= 0)
    <3>1. k > 0
      BY <1>1, <1>2, <2>6
    <3>2. \/ k = p + 2 /\ l = Blank
          \/ k # p + 2 /\ \E f \in {"data", "event"} : \E v : l = NewLine(f, v)
      BY <2>6 DEF LineAt
    <3> QED
      BY <1>2, <2>1, <2>2, <2>4, <3>1, <3>2
  <2> QED
    BY <2>5, <2>6
<1> HIDE DEF l
<1>4. Size(srv, n) = Prelude(srv) + p + 2
  BY DEF Size
<1> QED
  BY <1>1, <1>2, <1>3, <1>4 DEF BlanksBefore, BlanksOf, l

LEMMA CountedInit ==
  ASSUME NEW srv \in Services, srv.written = 0, ScanInit
  PROVE  NowCounted(srv, 1)
<1>1. wire = <<>> /\ read = <<>> /\ spc = "scan" /\ ending = "open"
  BY DEF ScanInit
<1>2. PICK r \in Nat : /\ Position(srv, 1, r) /\ Carries(srv, wire, ending, 1, r)
                       /\ Decoder(srv, 1, r, evt, dataBuf)
  BY <1>1, ScansInit DEF Now, Scans, Reading
<1>3. r = 1
  BY <1>2 DEF Position
<1>4. Blanks(<<>>) = 0
  <2>1. {i \in DOMAIN <<>> : <<>>[i].field = "blank"} = {}
    OBVIOUS
  <2> QED
    BY <2>1, FS_EmptySet DEF Blanks
<1>5. BlanksBefore(srv, 1, r) = 0
  BY <1>3 DEF BlanksBefore, BlanksOf
<1>6. <<>> \in Seq(Carried)
  OBVIOUS
<1> QED
  BY <1>1, <1>2, <1>4, <1>5, <1>6 DEF NowCounted, Counted, Counting

\* Every step of the scanner.
LEMMA ScanCounts ==
  ASSUME NEW srv \in Services, NEW n, Now(srv, n), NowCounted(srv, n), ScanStep
  PROVE  ThenCounted(srv, n)
<1> DEFINE l == Head(wire)
           at(e, buf) == Counting(srv, n, wire', ending', e, buf, Blanks(read'))
           fewer == Blanks(read') < BlanksOf(srv, n)
<1>1. n \in 1 .. srv.written + 1 /\ wire \in Seq(Carried) /\ read \in Seq(Carried)
  BY DEF Now, Scans, NowCounted, Counted
<1>2. ASSUME NEW f, Scan(f)
      PROVE  /\ spc = "scan" /\ l.field = f /\ read' \in Seq(Carried)
             /\ f = "blank" =>
                  \/ Flushed(evt, dataBuf) = NoEvent /\ at(NoEvent, <<>>)
                  \/ /\ n <= srv.written
                     /\ Flushed(evt, dataBuf) = Ev(srv.names[n], Payloads[n])
                     /\ Blanks(read') = BlanksOf(srv, n)
             /\ f \in {"event", "id", "retry", "other"} =>
                  at(WithField(Flushed(evt, dataBuf), l), <<>>)
             /\ f = "data" => at(evt, Append(dataBuf, l.val))
             /\ f = "nocolon" => fewer
  <2>1. /\ spc = "scan" /\ wire # <<>> /\ wire' = Tail(wire) /\ ending' = ending
        /\ l.field = f /\ read' = Append(read, l)
    BY <1>2 DEF Scan
  <2>2. l \in Carried
    BY <1>1, <2>1, HeadTailProperties
  <2>3. PICK r \in Nat : /\ Position(srv, n, r) /\ Carries(srv, wire, ending, n, r)
                         /\ Decoder(srv, n, r, evt, dataBuf)
                         /\ Blanks(read) = BlanksBefore(srv, n, r)
    BY <2>1 DEF NowCounted, Counted, Counting
  <2>4. /\ n \in 1 .. srv.written /\ r \in 1 .. Size(srv, n)
        /\ \/ /\ l = LineAt(srv, n, r)
              /\ IF r = Size(srv, n) THEN Carries(srv, wire', ending', n + 1, 1)
                                     ELSE Carries(srv, wire', ending', n, r + 1)
           \/ l \in Pieces(LineAt(srv, n, r)) /\ wire' = <<>> /\ ending' # "open"
    BY <1>1, <2>1, <2>3, CarriesTail
  <2>5. srv.written \in Nat /\ n <= srv.written /\ n \in Nat
    <3>1. srv.written \in Nat /\ n \in Nat
      BY <1>1, PositionType
    <3> QED
      BY <2>4, <3>1
  <2> HIDE DEF l
  <2>6. /\ read' \in Seq(Carried) /\ Blanks(read) \in Nat
        /\ Blanks(read') = Blanks(read) + (IF l.field = "blank" THEN 1 ELSE 0)
    BY <1>1, <2>1, <2>2, BlanksGrow, AppendProperties
  <2>7. CASE l = LineAt(srv, n, r) /\ IF r = Size(srv, n) THEN Carries(srv, wire', ending', n + 1, 1)
                                      ELSE Carries(srv, wire', ending', n, r + 1)
    <3>1. /\ l.field \in {"blank", "event", "other", "data"}
          /\ l.field = "blank" =>
               \/ /\ r < Size(srv, n) /\ Flushed(evt, dataBuf) = NoEvent
                  /\ Decoder(srv, n, r + 1, NoEvent, <<>>)
               \/ r = Size(srv, n) /\ Flushed(evt, dataBuf) = Ev(srv.names[n], Payloads[n])
          /\ l.field \in {"event", "other"} =>
               /\ r < Size(srv, n)
               /\ Decoder(srv, n, r + 1, WithField(Flushed(evt, dataBuf), l), <<>>)
          /\ l.field = "data" =>
               /\ r < Size(srv, n)
               /\ Decoder(srv, n, r + 1, evt, Append(dataBuf, l.val))
      BY <2>3, <2>4, <2>5, <2>7, ReadLine
    <3>2. /\ r = Size(srv, n) => /\ l.field = "blank"
                                 /\ BlanksBefore(srv, n, r) + 1 = BlanksOf(srv, n)
          /\ r # Size(srv, n) => BlanksBefore(srv, n, r + 1) =
               BlanksBefore(srv, n, r) + (IF l.field = "blank" THEN 1 ELSE 0)
      BY <2>4, <2>7, BlanksInEvent
    <3>3. ASSUME NEW e, NEW buf, r < Size(srv, n), Decoder(srv, n, r + 1, e, buf)
          PROVE  at(e, buf)
      <4>1. r + 1 \in Nat \ {0} /\ r + 1 <= Size(srv, n) /\ r # Size(srv, n)
        <5>1. Size(srv, n) \in Nat /\ r \in Nat /\ r < Size(srv, n)
          BY <1>1, <2>5, <3>3, PositionType DEF Size
        <5> QED
          BY <5>1
      <4>2. Position(srv, n, r + 1)
        BY <1>1, <2>5, <4>1 DEF Position
      <4>3. Carries(srv, wire', ending', n, r + 1)
        BY <2>7, <4>1
      <4>4. Blanks(read') = BlanksBefore(srv, n, r + 1)
        BY <2>3, <2>6, <3>2, <4>1
      <4> QED
        BY <3>3, <4>1, <4>2, <4>3, <4>4 DEF Counting
    <3> HIDE DEF at
    <3>4. r = Size(srv, n) => Blanks(read') = BlanksOf(srv, n)
      BY <2>3, <2>6, <3>2
    <3>5. f = "blank" =>
            \/ Flushed(evt, dataBuf) = NoEvent /\ at(NoEvent, <<>>)
            \/ /\ n <= srv.written
               /\ Flushed(evt, dataBuf) = Ev(srv.names[n], Payloads[n])
               /\ Blanks(read') = BlanksOf(srv, n)
      BY <2>1, <2>5, <3>1, <3>3, <3>4
    <3>6. f # "id" /\ f # "retry" /\ f # "nocolon"
      BY <2>1, <3>1
    <3>7. f \in {"event", "other"} => at(WithField(Flushed(evt, dataBuf), l), <<>>)
      BY <2>1, <3>1, <3>3
    <3>8. f = "data" => at(evt, Append(dataBuf, l.val))
      BY <2>1, <3>1, <3>3
    <3> QED
      BY <2>1, <2>6, <3>5, <3>6, <3>7, <3>8
  <2>8. CASE l \in Pieces(LineAt(srv, n, r)) /\ wire' = <<>> /\ ending' # "open"
    <3>0. ASSUME NEW q, NEW x \in Pieces(q) PROVE x.field # "blank"
      <4>1. \A g, v : NewLine(g, v).field = g
        BY DEF NewLine
      <4>2. /\ q.field # "blank"
            /\ x = NewLine("nocolon", "") \/ \E v \in {"", "cut"} : x = NewLine(q.field, v)
        BY <3>0 DEF Pieces
      <4> QED
        BY <4>1, <4>2
    <3>1. l.field # "blank"
      BY <2>8, <3>0
    <3>2. fewer
      <4>1. BlanksBefore(srv, n, r) < BlanksOf(srv, n)
        BY <2>4, BlanksInEvent
      <4> QED
        BY <2>3, <2>6, <3>1, <4>1
    <3>3. \A e, buf : at(e, buf)
      BY <2>8, <3>2 DEF Counting
    <3> HIDE DEF at, fewer
    <3> QED
      BY <2>1, <2>6, <3>1, <3>2, <3>3
  <2> QED
    BY <2>4, <2>7, <2>8
<1> HIDE DEF l, at, fewer
<1>3. CASE BlankLine
  <2>1. Scan("blank") /\ dataBuf' = <<>>
    BY <1>3 DEF BlankLine
  <2>2. CASE Flushed(evt, dataBuf) = NoEvent /\ at(NoEvent, <<>>)
    <3>0. Empty(NoEvent)
      BY DEF Empty, NoEvent
    <3>1. spc' = "scan" /\ evt' = NoEvent
      BY <1>2, <1>3, <2>1, <2>2, <3>0 DEF BlankLine
    <3> QED
      BY <1>2, <2>1, <2>2, <3>1 DEF ThenCounted, Counted, at
  <2>3. CASE /\ n <= srv.written /\ Flushed(evt, dataBuf) = Ev(srv.names[n], Payloads[n])
             /\ Blanks(read') = BlanksOf(srv, n)
    <3>1. Flushed(evt, dataBuf).name = srv.names[n] /\ srv.names[n] # ""
      <4>1. \A x, d : Ev(x, d).name = x
        BY DEF Ev
      <4>2. srv.names[n] \in AllNames
        BY <1>1, <2>3, PositionType
      <4> QED
        BY <2>3, <4>1, <4>2 DEF AllNames, EventNames, Progress, Terminal
    <3>2. spc' = "yieldRecord"
      BY <1>3, <3>1 DEF BlankLine, Empty, Yield
    <3> QED
      BY <1>2, <2>1, <2>3, <3>2 DEF ThenCounted, Counted
  <2> QED
    BY <1>2, <2>1, <2>2, <2>3
<1>4. CASE MalformedLine
  <2>1. Scan("nocolon") /\ spc' = "yieldLast"
    BY <1>4 DEF MalformedLine, Yield
  <2> QED
    BY <1>2, <2>1 DEF ThenCounted, Counted, fewer
<1>5. CASE FieldLine
  <2>1. PICK f \in {"event", "id", "retry", "other"} : Scan(f)
    BY <1>5 DEF FieldLine
  <2>2. evt' = WithField(Flushed(evt, dataBuf), l) /\ dataBuf' = <<>> /\ spc' = spc
    BY <1>5 DEF FieldLine, l
  <2> QED
    BY <1>2, <2>1, <2>2 DEF ThenCounted, Counted, at
<1>6. CASE DataLine
  <2>1. Scan("data") /\ dataBuf' = Append(dataBuf, l.val) /\ evt' = evt /\ spc' = spc
    BY <1>6 DEF DataLine, l
  <2> QED
    BY <1>2, <2>1 DEF ThenCounted, Counted, at
<1>7. CASE EndOfStream
  <2>1. spc = "scan" /\ wire = <<>> /\ read' = read /\ spc' \in {"final", "yieldError"}
    BY <1>7 DEF EndOfStream, Yield
  <2>2. Blanks(read) < BlanksOf(srv, n)
    <3>1. CASE \E r \in Nat : Position(srv, n, r) /\ Blanks(read) = BlanksBefore(srv, n, r)
      <4>1. PICK r \in Nat : Position(srv, n, r) /\ Blanks(read) = BlanksBefore(srv, n, r)
        BY <3>1
      <4>2. n \in Nat \ {0}
        BY <1>1, PositionType
      <4> QED
        BY <4>1, <4>2 DEF BlanksBefore, BlanksOf
    <3> QED
      BY <2>1, <3>1 DEF NowCounted, Counted, Counting
  <2> QED
    BY <1>1, <2>1, <2>2 DEF ThenCounted, Counted
<1>8. CASE FinalRecord
  <2>1. spc = "final" /\ read' = read /\ spc' \in {"done", "yieldLast"}
    BY <1>8 DEF FinalRecord, Yield
  <2> QED
    BY <2>1 DEF NowCounted, ThenCounted, Counted
<1> QED
  BY <1>3, <1>4, <1>5, <1>6, <1>7, <1>8 DEF ScanStep

\* The consumer goes on.
LEMMA ContinueCounts ==
  ASSUME NEW srv \in Services, NEW n, Now(srv, n), NowCounted(srv, n), Continue,
         item.err = "nil", NEW m \in 1 .. srv.written + 1, n <= m,
         spc = "yieldRecord" => m = n + 1
  PROVE  ThenCounted(srv, m)
<1>1. wire' = wire /\ ending' = ending /\ dataBuf' = dataBuf /\ read' = read
  BY DEF Continue, stream, history
<1>2. read \in Seq(Carried) /\ n \in 1 .. srv.written + 1 /\ Yielding /\ spc # "yieldError"
  BY DEF NowCounted, Counted, Continue, Now, Scans
<1>3. srv.written \in Nat /\ n \in Nat /\ m \in Nat
  BY <1>2, PositionType
<1>4. CASE spc = "yieldRecord"
  <2>1. spc' = "scan" /\ evt' = NoEvent /\ dataBuf = <<>> /\ Carries(srv, wire, ending, m, 1)
    BY <1>4 DEF Continue, Now, Scans
  <2>2. Position(srv, m, 1)
    BY DEF Position
  <2>3. Decoder(srv, m, 1, NoEvent, <<>>)
    <3>1. 1 - Prelude(srv) <= 1 /\ ~(1 - Prelude(srv) > 1)
      BY DEF Prelude
    <3> QED
      BY <3>1 DEF Decoder
  <2>4. Blanks(read) = BlanksBefore(srv, m, 1)
    BY <1>3, <1>4 DEF NowCounted, Counted, BlanksBefore, BlanksOf
  <2>5. Counting(srv, m, wire', ending', evt', dataBuf', Blanks(read'))
    BY <1>1, <2>1, <2>2, <2>3, <2>4 DEF Counting
  <2> QED
    BY <1>1, <1>2, <2>1, <2>5 DEF ThenCounted, Counted
<1>5. CASE spc = "yieldLast"
  <2>1. spc' = "done" /\ Blanks(read) < BlanksOf(srv, n)
    BY <1>5 DEF Continue, NowCounted, Counted
  <2>2. Blanks(read) \in Nat
    BY <1>2, BlanksType
  <2>3. Blanks(read) < BlanksOf(srv, m)
    BY <1>3, <2>1, <2>2 DEF BlanksOf
  <2> QED
    BY <1>1, <1>2, <2>1, <2>3 DEF ThenCounted, Counted
<1> QED
  BY <1>2, <1>4, <1>5 DEF Yielding

\* The end of the stream.
LEMMA CutCounts ==
  ASSUME NEW srv \in Services, NEW n, Now(srv, n), NowCounted(srv, n), CutStream
  PROVE  ThenCounted(srv, n)
<1>1. /\ wire \in Seq(Carried) /\ read \in Seq(Carried)
      /\ ending = "open" /\ ending' # "open"
      /\ spc' = spc /\ evt' = evt /\ dataBuf' = dataBuf /\ read' = read
  BY DEF Now, Scans, NowCounted, Counted, CutStream, decoder, history, Endings
<1>2. CASE spc = "scan"
  <2>1. PICK r \in Nat : /\ Position(srv, n, r) /\ Carries(srv, wire, "open", n, r)
                         /\ Decoder(srv, n, r, evt, dataBuf)
                         /\ Blanks(read) = BlanksBefore(srv, n, r)
    BY <1>1, <1>2 DEF NowCounted, Counted, Counting
  <2>2. PICK k \in 0 .. Len(wire) :
          \/ wire' = SubSeq(wire, 1, k)
          \/ k < Len(wire) /\ \E p \in Pieces(wire[k + 1]) : wire' = Append(SubSeq(wire, 1, k), p)
    BY DEF CutStream
  <2>3. /\ Carries(srv, SubSeq(wire, 1, k), ending', n, r)
        /\ \A p : k < Len(wire) /\ p \in Pieces(wire[k + 1])
                   => Carries(srv, Append(SubSeq(wire, 1, k), p), ending', n, r)
    BY <1>1, <2>1, <2>2, CarriesCut
  <2>4. Carries(srv, wire', ending', n, r)
    BY <2>2, <2>3
  <2>5. Counting(srv, n, wire', ending', evt', dataBuf', Blanks(read'))
    BY <1>1, <2>1, <2>4 DEF Counting
  <2> QED
    BY <1>1, <1>2, <2>5 DEF ThenCounted, Counted
<1>3. CASE spc # "scan"
  BY <1>1, <1>3 DEF NowCounted, ThenCounted, Counted
<1> QED
  BY <1>2, <1>3

\* The service writes on.
LEMMA WriteCounts ==
  ASSUME NEW srv \in Services, NEW n, Now(srv, n), NowCounted(srv, n), ending = "open",
         NEW new \in Services, new.layout = srv.layout,
         new.written = srv.written + 1,
         \A m \in 1 .. srv.written : new.names[m] = srv.names[m],
         wire' = wire \o Written(new.layout, new.names[new.written], new.written),
         UNCHANGED <<ending, spc, decoder, item>>, read' = read
  PROVE  ThenCounted(new, n)
<1>1. /\ n \in 1 .. srv.written + 1 /\ wire \in Seq(Carried) /\ read \in Seq(Carried)
      /\ ending' = "open" /\ spc' = spc /\ evt' = evt /\ dataBuf' = dataBuf
  BY DEF Now, Scans, NowCounted, Counted, decoder
<1>2. srv.written \in Nat /\ n \in 1 .. new.written + 1 /\ new.written \in 1 .. new.written + 1
      /\ new.written <= new.written
  <2>1. srv.written \in Nat
    BY <1>1, PositionType
  <2> QED
    BY <1>1, <2>1
<1>3. new.names[new.written] \in AllNames
  BY <1>2, PositionType
<1>4. /\ \A m : Size(new, m) = Size(srv, m) /\ Prelude(new) = Prelude(srv)
      /\ \A m : BlanksOf(new, m) = BlanksOf(srv, m)
      /\ \A r : BlanksBefore(new, n, r) = BlanksBefore(srv, n, r)
  BY DEF Size, Prelude, BlanksOf, BlanksBefore
<1>5. CASE spc = "scan"
  <2>1. PICK r \in Nat : /\ Position(srv, n, r) /\ Carries(srv, wire, "open", n, r)
                         /\ Decoder(srv, n, r, evt, dataBuf)
                         /\ Blanks(read) = BlanksBefore(srv, n, r)
    BY <1>5 DEF NowCounted, Counted, Counting
  <2>2. Carries(new, wire', "open", n, r)
    BY <1>1, <1>2, <1>3, <2>1, CarriesMore
  <2>3. Position(new, n, r)
    <3>1. n <= srv.written => n <= new.written
      BY <1>1, <1>2
    <3> QED
      BY <1>2, <1>4, <2>1, <3>1 DEF Position
  <2>4. Decoder(new, n, r, evt, dataBuf)
    <3>1. CASE n <= srv.written
      <4>1. new.names[n] = srv.names[n]
        BY <1>1, <1>2, <3>1
      <4> QED
        BY <1>4, <2>1, <4>1 DEF Decoder
    <3>2. CASE ~(n <= srv.written)
      <4>1. r - Prelude(new) <= 1 /\ ~(r - Prelude(new) > 1)
        BY <2>1, <3>2 DEF Position, Prelude
      <4> QED
        BY <1>4, <2>1, <4>1 DEF Decoder
    <3> QED
      BY <3>1, <3>2
  <2>5. Counting(new, n, wire', ending', evt', dataBuf', Blanks(read'))
    BY <1>1, <1>4, <2>1, <2>2, <2>3, <2>4 DEF Counting
  <2> QED
    BY <1>1, <1>5, <2>5 DEF ThenCounted, Counted
<1>6. CASE spc # "scan"
  BY <1>1, <1>4, <1>6 DEF NowCounted, ThenCounted, Counted
<1> QED
  BY <1>5, <1>6

\* No event behind the one the scanner is at was read whole, and that one only if
\* the scanner yields it.
LEMMA ReadBefore ==
  ASSUME NEW srv \in Services, srv.layout = layout, NEW n \in Nat, NowCounted(srv, n),
         NEW i \in Nat, ReadWhole(i), spc # "scan"
  PROVE  i <= n /\ (spc # "yieldRecord" => i < n)
<1>1. Blanks(read) >= BlanksOf(srv, i)
  BY DEF ReadWhole, BlanksOf
<1>2. /\ spc = "yieldRecord" => Blanks(read) = BlanksOf(srv, n)
      /\ spc # "yieldRecord" => Blanks(read) < BlanksOf(srv, n)
      /\ Blanks(read) \in Nat
  BY BlanksType DEF NowCounted, Counted
<1> QED
  BY <1>1, <1>2 DEF BlanksOf

-----------------------------------------------------------------------------
(* GetParseResult.                                                         *)

Job == Server(layout, job, Len(job))

\* There is a result once the call has returned; nothing is written or told
\* before the stream is open; until the call returns, the callback has been told
\* of as many events as were counted, and the scanner is at the next one.
ResultAtReturn == result = Watch!NoResult <=> cpc # "returned"
ToldAll ==
  /\ cpc = "send" => updates = <<>> /\ job = <<>>
  /\ cpc # "returned" /\ callback => Len(updates) = count
AtNextEvent == cpc # "returned" => Now(Job, count + 1)
CallInv == TypeOK /\ ResultAtReturn /\ ToldAll /\ AtNextEvent

LEMMA JobType ==
  ASSUME layout \in Layouts, job \in Seq(EventNames), Len(job) <= Len(Payloads)
  PROVE  /\ Job \in Services /\ Job.written = Len(job) /\ Job.names = job
         /\ Job.layout = layout
         /\ Len(job) \in Nat /\ Len(Payloads) \in Nat /\ DOMAIN Payloads = 1 .. Len(Payloads)
<1>1. /\ Len(job) \in Nat /\ Len(Payloads) \in Nat
      /\ DOMAIN Payloads = 1 .. Len(Payloads)
  BY PayloadsAssumption, LenProperties
<1>2. job \in Seq(AllNames)
  <2>1. EventNames \subseteq AllNames
    BY DEF AllNames
  <2>2. \A i \in 1 .. Len(job) : job[i] \in EventNames
    BY ElementOfSeq
  <2>3. job = [i \in 1 .. Len(job) |-> job[i]]
    BY SeqDef
  <2> QED
    BY <1>1, <2>1, <2>2, <2>3
<1> QED
  BY <1>1, <1>2 DEF Job, Server, Services

LEMMA CallInit == Init => CallInv /\ Watch!Init
<1> SUFFICES ASSUME Init PROVE CallInv /\ Watch!Init
  OBVIOUS
<1>1. /\ ScanInit /\ layout \in Layouts /\ job = <<>> /\ cpc = "send" /\ count = 0
      /\ useSSE \in BOOLEAN /\ callback \in BOOLEAN
      /\ updates = <<>> /\ result = [kind |-> "none", event |-> 0]
  BY DEF Init
<1>2. job \in Seq(EventNames) /\ Len(job) = 0 /\ updates \in Seq(EventNames \X DOMAIN Payloads)
      /\ Len(updates) = 0
  BY <1>1
<1>3. Len(Payloads) \in Nat
  BY PayloadsAssumption, LenProperties
<1>4. Job \in Services /\ Job.written = 0
  BY <1>1, <1>2, <1>3, JobType
<1>5. Now(Job, 1)
  BY <1>1, <1>4, ScansInit
<1>6. TypeOK
  <2>1. result.event = 0 /\ 0 \in 0 .. Len(Payloads)
    BY <1>1, <1>3
  <2> QED
    BY <1>1, <1>2, <1>3, <2>1 DEF TypeOK
<1> QED
  BY <1>1, <1>2, <1>5, <1>6
  DEF CallInv, ResultAtReturn, ToldAll, AtNextEvent, Watch!NoResult, Watch!Init

\* While the caller waits: where the scanner is, as numbers.
LEMMA CallFacts ==
  ASSUME CallInv, cpc = "stream"
  PROVE  /\ Job \in Services /\ Job.written = Len(job) /\ Job.names = job
         /\ Now(Job, count + 1) /\ count \in Nat /\ count + 1 \in 1 .. Len(job) + 1
         /\ result = Watch!NoResult /\ (callback => Len(updates) = count)
         /\ Len(job) \in Nat /\ Len(Payloads) \in Nat /\ Len(job) <= Len(Payloads)
         /\ DOMAIN Payloads = 1 .. Len(Payloads)
<1>1. layout \in Layouts /\ job \in Seq(EventNames) /\ Len(job) <= Len(Payloads)
      /\ count \in 0 .. Len(Payloads)
  BY DEF CallInv, TypeOK
<1>2. /\ Job \in Services /\ Job.written = Len(job) /\ Job.names = job
      /\ Len(job) \in Nat /\ Len(Payloads) \in Nat /\ DOMAIN Payloads = 1 .. Len(Payloads)
  BY <1>1, JobType
<1>3. Now(Job, count + 1) /\ result = Watch!NoResult /\ (callback => Len(updates) = count)
  BY DEF CallInv, AtNextEvent, ResultAtReturn, ToldAll
<1>4. count + 1 \in 1 .. Job.written + 1
  BY <1>3 DEF Now, Scans
<1> QED
  BY <1>1, <1>2, <1>3, <1>4

\* The scanner's step, the service's and the end of the stream leave the caller
\* where it was.
LEMMA StreamStep ==
  ASSUME CallInv, cpc = "stream",
         \/ Scanning
         \/ Emit
         \/ StreamEnds
  PROVE  CallInv' /\ [Watch!Next]_(Watch!watchVars)
<1>1. /\ Job \in Services /\ Job.written = Len(job) /\ Job.names = job
      /\ Now(Job, count + 1) /\ result = Watch!NoResult
      /\ Len(job) \in Nat /\ Len(Payloads) \in Nat /\ Len(job) <= Len(Payloads)
  BY CallFacts
<1>2. /\ useSSE' = useSSE /\ callback' = callback /\ layout' = layout /\ cpc' = "stream"
      /\ count' = count /\ updates' = updates /\ result' = result
  BY DEF Scanning, Emit, StreamEnds, call, caller
<1>3. TypeOK
  BY DEF CallInv
<1>4. ResultAtReturn' /\ ToldAll'
  BY <1>2 DEF CallInv, ResultAtReturn, ToldAll, Watch!NoResult
<1>5. CASE Scanning \/ StreamEnds
  <2>1. job' = job /\ (ScanStep \/ CutStream)
    BY <1>5 DEF Scanning, StreamEnds, service
  <2>2. Then(Job, count + 1)
    BY <1>1, <2>1, ScanKeeps, CutKeeps
  <2>3. AtNextEvent'
    <3>1. Job' = Job
      BY <1>2, <2>1 DEF Job
    <3> QED
      BY <1>2, <2>2, <3>1 DEF AtNextEvent, Now, Then
  <2>4. TypeOK'
    BY <1>2, <1>3, <2>1 DEF TypeOK
  <2> QED
    BY <1>2, <1>4, <2>1, <2>3, <2>4 DEF CallInv, Watch!watchVars
<1>6. CASE Emit
  <2>1. PICK name \in EventNames :
          /\ job' = Append(job, name)
          /\ wire' = wire \o Written(layout, name, Len(job) + 1)
    BY <1>6 DEF Emit, Write
  <2>2. /\ ending = "open" /\ Len(job) < Len(Payloads)
        /\ \A i \in 1 .. Len(job) : job[i] \notin Terminal
        /\ UNCHANGED <<ending, spc, decoder, item>>
    BY <1>6 DEF Emit
  <2>3. /\ job' \in Seq(EventNames) /\ Len(job') = Len(job) + 1
        /\ job'[Len(job) + 1] = name /\ \A i \in 1 .. Len(job) : job'[i] = job[i]
    <3>1. job \in Seq(EventNames)
      BY <1>3 DEF TypeOK
    <3> QED
      BY <2>1, <3>1, AppendProperties
  <2>4. Len(job') <= Len(Payloads)
    BY <1>1, <2>2, <2>3
  <2>5. TypeOK'
    BY <1>2, <1>3, <2>3, <2>4 DEF TypeOK
  <2>6. /\ Job' \in Services /\ Job'.written = Job.written + 1 /\ Job'.names = job'
        /\ Job'.layout = layout /\ Job.layout = layout
    <3>1. layout \in Layouts /\ job \in Seq(EventNames)
      BY <1>3 DEF TypeOK
    <3>2. Job' = Server(layout, job', Len(job'))
      BY <1>2 DEF Job
    <3>3. Job' \in Services
      <4>1. job' \in Seq(AllNames)
        <5>1. EventNames \subseteq AllNames
          BY DEF AllNames
        <5>2. \A i \in 1 .. Len(job') : job'[i] \in EventNames
          BY <2>3, ElementOfSeq
        <5>3. job' = [i \in 1 .. Len(job') |-> job'[i]]
          BY <2>3, SeqDef
        <5>4. Len(job') \in Nat
          BY <1>1, <2>3
        <5> QED
          BY <5>1, <5>2, <5>3, <5>4
      <4>2. Len(job') \in 0 .. Len(Payloads)
        BY <1>1, <2>3, <2>4
      <4> QED
        BY <3>1, <3>2, <4>1, <4>2 DEF Server, Services
    <3> QED
      BY <1>1, <2>3, <3>2, <3>3 DEF Job, Server
  <2>7. Then(Job', count + 1)
    <3>1. \A m \in 1 .. Job.written : Job'.names[m] = Job.names[m]
      BY <1>1, <2>3, <2>6
    <3>2. wire' = wire \o Written(Job'.layout, Job'.names[Job'.written], Job'.written)
      BY <1>1, <2>1, <2>3, <2>6
    <3> DEFINE new == Job'
    <3>3. /\ new \in Services /\ new.layout = Job.layout /\ new.written = Job.written + 1
          /\ \A m \in 1 .. Job.written : new.names[m] = Job.names[m]
          /\ wire' = wire \o Written(new.layout, new.names[new.written], new.written)
      BY <2>6, <3>1, <3>2
    <3> QED
      BY <1>1, <2>2, <3>3, WriteKeeps
  <2>8. AtNextEvent'
    BY <1>2, <2>7 DEF AtNextEvent, Now, Then
  <2>9. Watch!Emit
    BY <1>2, <2>1, <2>2 DEF Watch!Emit, Watch!EventNames, Watch!Progress, Watch!Terminal,
       Watch!Unknown, EventNames, Progress, Terminal
  <2> QED
    BY <1>4, <2>5, <2>8, <2>9 DEF CallInv, Watch!Next
<1> QED
  BY <1>5, <1>6

\* A return: nothing of it is told but the result.
LEMMA Returning ==
  ASSUME CallInv, cpc' = "returned", NEW k, k # "none", NEW e \in 0 .. Len(Payloads),
         result' = [kind |-> k, event |-> e],
         UNCHANGED <<call, job, count>>,
         updates' \in Seq(EventNames \X DOMAIN Payloads)
  PROVE  CallInv'
<1>1. result'.event = e /\ result' # Watch!NoResult /\ Watch!NoResult' = Watch!NoResult
  BY DEF Watch!NoResult
<1>2. TypeOK'
  <2>1. useSSE' = useSSE /\ callback' = callback /\ layout' = layout
    BY DEF call
  <2> QED
    BY <1>1, <2>1 DEF CallInv, TypeOK
<1> QED
  BY <1>1, <1>2 DEF CallInv, ResultAtReturn, ToldAll, AtNextEvent

\* The returns that report an error are those of GiveUp.
LEMMA GivingUp ==
  ASSUME CallInv, cpc # "returned", NEW k \in Watch!Errors, Return(k, 0),
         UNCHANGED <<call, job, count, updates>>
  PROVE  CallInv' /\ Watch!GiveUp
<1>1. cpc' = "returned" /\ result' = [kind |-> k, event |-> 0]
  BY DEF Return
<1>2. k # "none"
  BY DEF Watch!Errors
<1>3. updates' \in Seq(EventNames \X DOMAIN Payloads)
  BY DEF CallInv, TypeOK
<1>4. 0 \in 0 .. Len(Payloads)
  <2>1. Len(Payloads) \in Nat
    BY PayloadsAssumption, LenProperties
  <2> QED
    BY <2>1
<1>5. CallInv'
  BY <1>1, <1>2, <1>3, <1>4, Returning
<1>6. result = Watch!NoResult
  BY DEF CallInv, ResultAtReturn
<1> QED
  BY <1>1, <1>5, <1>6 DEF Watch!GiveUp, call

\* An event whose data is a JSON text and whose name is one of the client's is
\* the next one of the job.
LEMMA EventIsNext ==
  ASSUME CallInv, Receiving, item.err = "nil", NEW k \in DOMAIN Payloads, Decodes(item.evt, k),
         item.evt.name \in EventNames
  PROVE  k = count + 1 /\ k <= Len(job) /\ item.evt.name = job[k]
<1>1. /\ Job \in Services /\ Job.written = Len(job) /\ Job.names = job
      /\ Now(Job, count + 1)
  BY CallFacts DEF Receiving
<1>2. Partial(Job, count + 1, item.evt)
  BY <1>1, YieldedPart DEF Receiving
<1>3. k = count + 1
  BY <1>2 DEF Partial, PartialData, Decodes
<1>4. item.evt.name \notin {"", "cut"}
  BY DEF EventNames, Progress, Terminal
<1> QED
  BY <1>1, <1>2, <1>3, <1>4 DEF Partial, PartialName

\* The callback.
LEMMA Notified ==
  ASSUME CallInv, NEW name \in EventNames, NEW k \in DOMAIN Payloads, Notify(name, k)
  PROVE  /\ updates' \in Seq(EventNames \X DOMAIN Payloads)
         /\ callback => Len(updates') = Len(updates) + 1
<1>1. updates \in Seq(EventNames \X DOMAIN Payloads)
  BY DEF CallInv, TypeOK
<1>2. CASE callback
  <2>1. updates' = Append(updates, <<name, k>>) /\ <<name, k>> \in EventNames \X DOMAIN Payloads
    BY <1>2 DEF Notify
  <2> QED
    BY <1>1, <2>1, AppendProperties
<1>3. CASE ~callback
  BY <1>1, <1>3 DEF Notify
<1> QED
  BY <1>2, <1>3

LEMMA ProgressStep ==
  ASSUME CallInv, ProgressEvent
  PROVE  CallInv' /\ Watch!Update
<1>1. PICK k \in DOMAIN Payloads : Decodes(item.evt, k) /\ Notify(item.evt.name, k)
  BY DEF ProgressEvent
<1>2. /\ Receiving /\ item.err = "nil" /\ item.evt.name \in Progress
      /\ count' = count + 1 /\ Continue /\ UNCHANGED <<call, job, cpc, result>>
  BY DEF ProgressEvent, service
<1>3. item.evt.name \in EventNames
  BY <1>2 DEF EventNames
<1>4. k = count + 1 /\ k <= Len(job) /\ item.evt.name = job[k]
  BY <1>1, <1>2, <1>3, EventIsNext
<1>5. /\ Job \in Services /\ Job.written = Len(job)
      /\ Now(Job, count + 1) /\ count \in Nat /\ count + 1 \in 1 .. Len(job) + 1
      /\ result = Watch!NoResult /\ (callback => Len(updates) = count)
      /\ Len(job) \in Nat /\ Len(Payloads) \in Nat /\ Len(job) <= Len(Payloads)
  BY <1>2, CallFacts DEF Receiving
<1>6. /\ updates' \in Seq(EventNames \X DOMAIN Payloads)
      /\ callback => Len(updates') = Len(updates) + 1
  BY <1>1, <1>3, Notified
<1>7. useSSE' = useSSE /\ callback' = callback /\ layout' = layout /\ job' = job
      /\ cpc' = cpc /\ result' = result /\ cpc = "stream"
  BY <1>2 DEF call, Receiving
<1>8. TypeOK'
  <2>1. count' \in 0 .. Len(Payloads)
    BY <1>2, <1>4, <1>5
  <2> QED
    BY <1>6, <1>7, <2>1 DEF CallInv, TypeOK
<1>9. AtNextEvent'
  <2>1. count' + 1 \in 1 .. Job.written + 1 /\ count' + 1 = (count + 1) + 1
    BY <1>2, <1>4, <1>5
  <2>2. Then(Job, count' + 1)
    BY <1>2, <1>5, <2>1, ContinueKeeps
  <2>3. Job' = Job
    BY <1>7 DEF Job
  <2> QED
    BY <2>2, <2>3 DEF AtNextEvent, Now, Then
<1>10. ToldAll'
  BY <1>2, <1>5, <1>6, <1>7 DEF ToldAll
<1>11. ResultAtReturn'
  BY <1>5, <1>7 DEF ResultAtReturn, Watch!NoResult
<1>12. Watch!Update
  <2>1. k \in 1 .. Len(job) /\ Watch!IsNext(k)
    BY <1>4, <1>5 DEF Watch!IsNext
  <2>2. job[k] \in Watch!Progress /\ Watch!Notify(k)
    BY <1>1, <1>2, <1>4 DEF Watch!Progress, Progress, Watch!Notify, Notify
  <2> QED
    BY <1>5, <1>7, <2>1, <2>2 DEF Watch!Update
<1> QED
  BY <1>8, <1>9, <1>10, <1>11, <1>12 DEF CallInv

LEMMA TerminalStep ==
  ASSUME CallInv, TerminalEvent
  PROVE  CallInv' /\ Watch!Finish
<1>1. PICK k \in DOMAIN Payloads :
        /\ Decodes(item.evt, k) /\ Notify(item.evt.name, k)
        /\ Leave(IF item.evt.name = "parse_done" THEN "ok" ELSE "failed", k)
  BY DEF TerminalEvent
<1>2. /\ Receiving /\ item.err = "nil" /\ item.evt.name \in Terminal
      /\ UNCHANGED <<call, job, count>>
  BY DEF TerminalEvent, service
<1>3. item.evt.name \in EventNames
  BY <1>2 DEF EventNames
<1>4. k = count + 1 /\ k <= Len(job) /\ item.evt.name = job[k]
  BY <1>1, <1>2, <1>3, EventIsNext
<1>5. /\ count \in Nat /\ result = Watch!NoResult /\ (callback => Len(updates) = count)
      /\ Len(job) \in Nat /\ Len(Payloads) \in Nat /\ Len(job) <= Len(Payloads)
  BY <1>2, CallFacts DEF Receiving
<1>6. updates' \in Seq(EventNames \X DOMAIN Payloads)
  BY <1>1, <1>3, Notified
<1> DEFINE kind == IF item.evt.name = "parse_done" THEN "ok" ELSE "failed"
<1>7. cpc' = "returned" /\ result' = [kind |-> kind, event |-> k] /\ kind # "none"
  BY <1>1 DEF Leave, Return
<1>8. k \in 0 .. Len(Payloads) /\ k \in 1 .. Len(job)
  BY <1>4, <1>5
<1> HIDE DEF kind
<1>9. CallInv'
  BY <1>2, <1>6, <1>7, <1>8, Returning
<1>10. Watch!Finish
  <2>1. Watch!IsNext(k)
    BY <1>4, <1>5 DEF Watch!IsNext
  <2>2. job[k] \in Watch!Terminal /\ Watch!Notify(k)
    BY <1>1, <1>2, <1>4 DEF Watch!Terminal, Terminal, Watch!Notify, Notify
  <2>3. result' = [kind |-> IF job[k] = "parse_done" THEN "ok" ELSE "failed", event |-> k]
    BY <1>4, <1>7 DEF kind
  <2> QED
    BY <1>2, <1>5, <1>8, <2>1, <2>2, <2>3 DEF Watch!Finish, call
<1> QED
  BY <1>9, <1>10

\* The ways a call ends without an event of the job, and the request.
LEMMA ErrorStep ==
  ASSUME CallInv, ScanError \/ BadData \/ UnknownEvent \/ LoopEnds
  PROVE  CallInv' /\ Watch!GiveUp
<1> DEFINE kinds == {"scanError", "unmarshalError", "unknownEvent", "noEvents", "noTerminal"}
<1>1. cpc # "returned" /\ UNCHANGED <<call, job, count, updates>>
  BY DEF ScanError, BadData, UnknownEvent, LoopEnds, Receiving, service
<1>2. PICK k \in kinds : Return(k, 0)
  <2>1. CASE ScanError
    BY <2>1 DEF ScanError, Leave
  <2>2. CASE BadData
    BY <2>2 DEF BadData, Leave
  <2>3. CASE UnknownEvent
    BY <2>3 DEF UnknownEvent, Leave
  <2>4. CASE LoopEnds
    BY <2>4 DEF LoopEnds
  <2> QED
    BY <2>1, <2>2, <2>3, <2>4
<1>3. k \in Watch!Errors
  BY DEF Watch!Errors
<1> QED
  BY <1>1, <1>2, <1>3, GivingUp

LEMMA RequestStep ==
  ASSUME CallInv, Request
  PROVE  CallInv' /\ [Watch!Next]_(Watch!watchVars)
<1>1. cpc = "send" /\ UNCHANGED <<scanVars, call, job, count, updates>>
  BY DEF Request, service
<1>2. PICK k : \/ k \in Immediate /\ Return(k, 0)
               \/ k = "none" /\ cpc' = "stream" /\ result' = result
  BY DEF Request
<1>3. result = Watch!NoResult /\ updates = <<>>
  BY <1>1 DEF CallInv, ResultAtReturn, ToldAll
<1>4. CASE k \in Immediate /\ Return(k, 0)
  <2>1. k \in Watch!Errors \/ k = "snapshot"
    BY <1>4 DEF Immediate, Watch!Errors
  <2>2. CASE k \in Watch!Errors
    <3>1. CallInv' /\ Watch!GiveUp
      BY <1>1, <1>4, <2>2, GivingUp
    <3> QED
      BY <3>1 DEF Watch!Next
  <2>3. CASE k = "snapshot"
    <3>1. cpc' = "returned" /\ result' = [kind |-> k, event |-> 0]
      BY <1>4 DEF Return
    <3>2. Watch!Snapshot
      BY <1>1, <1>3, <2>3, <3>1 DEF Watch!Snapshot, call
    <3>3. updates' \in Seq(EventNames \X DOMAIN Payloads)
      BY <1>1 DEF CallInv, TypeOK
    <3>4. 0 \in 0 .. Len(Payloads)
      <4>1. Len(Payloads) \in Nat
        BY PayloadsAssumption, LenProperties
      <4> QED
        BY <4>1
    <3>5. CallInv'
      BY <1>1, <2>3, <3>1, <3>3, <3>4, Returning
    <3> QED
      BY <3>2, <3>5 DEF Watch!Next
  <2> QED
    BY <2>1, <2>2, <2>3
<1>5. CASE k = "none" /\ cpc' = "stream" /\ result' = result
  <2>1. /\ useSSE' = useSSE /\ callback' = callback /\ layout' = layout /\ job' = job
        /\ count' = count /\ updates' = updates
        /\ wire' = wire /\ ending' = ending /\ spc' = spc /\ evt' = evt
        /\ dataBuf' = dataBuf /\ item' = item
    BY <1>1 DEF call, scanVars, stream, decoder
  <2>2. Now(Job, count + 1)
    BY <1>1 DEF CallInv, AtNextEvent
  <2>3. AtNextEvent'
    BY <2>1, <2>2 DEF AtNextEvent, Now, Job
  <2>4. TypeOK'
    BY <1>5, <2>1 DEF CallInv, TypeOK
  <2>5. ToldAll' /\ ResultAtReturn'
    BY <1>1, <1>5, <2>1 DEF CallInv, ToldAll, ResultAtReturn, Watch!NoResult
  <2> QED
    BY <1>5, <2>1, <2>3, <2>4, <2>5 DEF CallInv, Watch!watchVars
<1> QED
  BY <1>2, <1>4, <1>5

LEMMA CallNext ==
  ASSUME CallInv, [Next]_vars
  PROVE  CallInv' /\ [Watch!Next]_(Watch!watchVars)
<1>1. CASE Scanning \/ Emit \/ StreamEnds
  <2>1. cpc = "stream"
    BY <1>1 DEF Scanning, Emit, StreamEnds
  <2> QED
    BY <1>1, <2>1, StreamStep
<1>2. CASE ScanError \/ BadData \/ UnknownEvent \/ LoopEnds
  BY <1>2, ErrorStep DEF Watch!Next
<1>3. CASE ProgressEvent
  BY <1>3, ProgressStep DEF Watch!Next
<1>4. CASE TerminalEvent
  BY <1>4, TerminalStep DEF Watch!Next
<1>5. CASE Request
  BY <1>5, RequestStep
<1>6. CASE UNCHANGED vars
  <2>1. /\ useSSE' = useSSE /\ callback' = callback /\ layout' = layout /\ job' = job
        /\ cpc' = cpc /\ count' = count /\ updates' = updates /\ result' = result
        /\ wire' = wire /\ ending' = ending /\ spc' = spc /\ evt' = evt
        /\ dataBuf' = dataBuf /\ item' = item
    BY <1>6 DEF vars, call, service, caller, scanVars, stream, decoder
  <2>2. AtNextEvent'
    BY <2>1 DEF CallInv, AtNextEvent, Now, Job
  <2> QED
    BY <2>1, <2>2
    DEF CallInv, TypeOK, ToldAll, ResultAtReturn, Watch!NoResult, Watch!watchVars
<1> QED
  BY <1>1, <1>2, <1>3, <1>4, <1>5, <1>6 DEF Next, Service, Caller, Terminated

\* The variables of a call keep their types, for any payloads.
THEOREM CallTypeCorrect == Spec => []TypeOK
<1>1. Init => CallInv
  BY CallInit
<1>2. CallInv /\ [Next]_vars => CallInv'
  BY CallNext
<1>3. CallInv => TypeOK
  BY DEF CallInv
<1> QED
  BY <1>1, <1>2, <1>3, PTL DEF Spec

\* GetParseResult keeps what ParseWatch promises, for jobs with any number of
\* events and any payloads, in either layout, wherever the stream is cut: the
\* callbacks come in the job's order under their own names, none twice and none
\* skipped, and a result other than an error is that of the job's terminal event
\* (parse_get.go:151-193, iter.go:104-153).
THEOREM ParseImplementsWatch == Spec => ImplementsParseWatch
<1>1. Init => CallInv /\ Watch!Init
  BY CallInit
<1>2. CallInv /\ [Next]_vars => CallInv' /\ [Watch!Next]_(Watch!watchVars)
  BY CallNext
<1> QED
  BY <1>1, <1>2, PTL DEF Spec, ImplementsParseWatch, Watch!Spec

\* An error that blames the stream is one of a stream that has ended.
StreamErrors == {"scanError", "unmarshalError", "noEvents", "noTerminal"}
BlamesEnded == result.kind \in StreamErrors => ending # "open"

LEMMA BlamesEndedNext ==
  ASSUME CallInv, BlamesEnded, [Next]_vars
  PROVE  BlamesEnded'
<1>1. ASSUME result' = result, ending # "open" => ending' # "open"
      PROVE  BlamesEnded'
  BY <1>1 DEF BlamesEnded
<1>2. ASSUME ending # "open", ending' = ending
      PROVE  BlamesEnded'
  BY <1>2 DEF BlamesEnded
<1>3. ASSUME NEW k, k \notin StreamErrors, result'.kind = k
      PROVE  BlamesEnded'
  BY <1>3 DEF BlamesEnded
<1>4. CASE Scanning \/ Emit
  <2>1. result' = result /\ ending' = ending
    BY <1>4 DEF Scanning, Emit, caller, ScanStep, BlankLine, MalformedLine, FieldLine, DataLine,
       EndOfStream, FinalRecord, Scan, stream
  <2> QED
    BY <1>1, <2>1
<1>5. CASE StreamEnds
  <2>1. result' = result /\ ending' \in Endings
    BY <1>5 DEF StreamEnds, caller, CutStream
  <2> QED
    BY <1>1, <2>1 DEF Endings
<1>6. CASE Request
  <2>1. \/ \E k \in Immediate : result' = [kind |-> k, event |-> 0]
        \/ result' = result
    BY <1>6 DEF Request, Return
  <2>2. ending' = ending
    BY <1>6 DEF Request, scanVars, stream
  <2>3. Immediate \cap StreamErrors = {}
    BY DEF Immediate, StreamErrors
  <2> QED
    BY <1>1, <1>3, <2>1, <2>2, <2>3
<1>7. CASE ScanError \/ BadData
  <2>1. ending' = ending /\ Receiving
    BY <1>7 DEF ScanError, BadData, Leave, Stop, stream
  <2>2. Job \in Services /\ Now(Job, count + 1) /\ Yielding
    BY <2>1, CallFacts DEF Receiving
  <2>3. ending # "open"
    BY <1>7, <2>2, YieldedWhole DEF ScanError, BadData, Decodable, Decodes
  <2> QED
    BY <1>2, <2>1, <2>3
<1>8. CASE ProgressEvent
  <2>1. result' = result /\ ending' = ending
    BY <1>8 DEF ProgressEvent, Continue, stream
  <2> QED
    BY <1>1, <2>1
<1>9. CASE TerminalEvent
  <2>1. result'.kind \in {"ok", "failed"}
    BY <1>9 DEF TerminalEvent, Leave, Return
  <2> QED
    BY <1>3, <2>1 DEF StreamErrors
<1>10. CASE UnknownEvent
  <2>1. result'.kind = "unknownEvent"
    BY <1>10 DEF UnknownEvent, Leave, Return
  <2> QED
    BY <1>3, <2>1 DEF StreamErrors
<1>11. CASE LoopEnds
  <2>1. cpc = "stream" /\ spc = "done" /\ ending' = ending
    BY <1>11 DEF LoopEnds, scanVars, stream
  <2>2. Now(Job, count + 1)
    BY <2>1, CallFacts
  <2>3. ending # "open"
    BY <2>1, <2>2 DEF Now, Scans
  <2> QED
    BY <1>2, <2>1, <2>3
<1>12. CASE UNCHANGED vars
  <2>1. result' = result /\ ending' = ending
    BY <1>12 DEF vars, caller, scanVars, stream
  <2> QED
    BY <1>1, <2>1
<1> QED
  BY <1>4, <1>5, <1>6, <1>7, <1>8, <1>9, <1>10, <1>11, <1>12
  DEF Next, Service, Caller, Terminated

\* While the stream goes on the call blames it for nothing, however the service
\* lays out its events, keep-alive comments and data of many lines included: each
\* is decoded (parse_get.go:143-170, iter.go:98-153).
THEOREM NoErrorInventedOfJob == Spec => []BlamesEnded
<1>1. Init => CallInv /\ BlamesEnded
  <2>1. Init => result.kind = "none"
    BY DEF Init
  <2> QED
    BY <2>1, CallInit DEF BlamesEnded, StreamErrors
<1>2. CallInv /\ BlamesEnded /\ [Next]_vars => CallInv' /\ BlamesEnded'
  BY CallNext, BlamesEndedNext
<1> QED
  BY <1>1, <1>2, PTL DEF Spec

\* How many steps a call can still take once its stream has ended.
CallLeft == IF cpc = "returned" THEN 0 ELSE ScanLeft + 1

\* No call stays behind the end of its stream: every step it takes there, of the
\* scanner, the loop or a callback, brings the return nearer; it comes after at
\* most two steps for every line that had arrived, and six (parse_get.go:143-193,
\* iter.go:104-154).
THEOREM CallEndIsBounded ==
  Spec => [][ending # "open" => CallLeft' \in Nat /\ CallLeft' < CallLeft]_vars
<1> DEFINE Bounded == ending # "open" => CallLeft' \in Nat /\ CallLeft' < CallLeft
           Sent == cpc = "send" => ending = "open"
<1>1. Init => CallInv /\ Sent
  BY CallInit DEF Init, ScanInit
<1>2. Sent /\ [Next]_vars => Sent'
  BY DEF Next, Scanning, Emit, StreamEnds, Request, ScanError, BadData, ProgressEvent,
     TerminalEvent, UnknownEvent, LoopEnds, Terminated, Receiving, Leave, Return, CutStream,
     Service, Caller, vars, scanVars, stream, caller
<1>3. CallInv /\ Sent /\ [Next]_vars => [Bounded]_vars
  <2> SUFFICES ASSUME CallInv, Sent, Next, vars' # vars, ending # "open"
               PROVE  CallLeft' \in Nat /\ CallLeft' < CallLeft
    OBVIOUS
  <2>1. cpc = "stream" => wire \in Seq(Carried)
    BY CallFacts DEF Now, Scans
  <2>2. CASE Scanning
    <3>1. cpc = "stream" /\ cpc' = "stream" /\ ScanStep
      BY <2>2 DEF Scanning, caller
    <3> QED
      BY <2>1, <3>1, ScanAdvances DEF CallLeft
  <2>3. CASE ProgressEvent
    <3>1. cpc = "stream" /\ cpc' = "stream" /\ Continue
      BY <2>3 DEF ProgressEvent, Receiving
    <3> QED
      BY <2>1, <3>1, ScanAdvances DEF CallLeft
  <2>4. CASE ScanError \/ BadData \/ TerminalEvent \/ UnknownEvent
    <3>1. cpc = "stream" /\ cpc' = "returned" /\ Stop
      BY <2>4 DEF ScanError, BadData, TerminalEvent, UnknownEvent, Receiving, Leave, Return
    <3> QED
      BY <2>1, <3>1, ScanAdvances DEF CallLeft
  <2>5. CASE LoopEnds
    BY <2>5 DEF LoopEnds, Return, CallLeft, ScanLeft
  <2> QED
    BY <2>2, <2>3, <2>4, <2>5
    DEF Next, Service, Caller, Request, Emit, StreamEnds, CutStream, Terminated
<1>4. CallInv /\ [Next]_vars => CallInv'
  BY CallNext
<1> HIDE DEF Bounded, Sent
<1>5. Spec => [][Bounded]_vars
  BY <1>1, <1>2, <1>3, <1>4, PTL DEF Spec
<1> QED
  BY <1>5 DEF Bounded

\* A call that says no more than that the events ran out, or never came, says so
\* of a stream that ended cleanly behind the last line it read: a broken
\* connection, a line too long or a context that ended is reported as such
\* (parse_get.go:187-193, iter.go:141-154).
THEOREM MissingEventsAreOfCleanEnd ==
  Spec => [](result.kind \in {"noEvents", "noTerminal"} => AtEof)
<1> DEFINE Silent == result.kind \in {"noEvents", "noTerminal"} => AtEof
           Clean == cpc = "stream" => (Passing => AtEof)
           Fresh == cpc = "send" => spc = "scan"
<1>1. Init => CallInv /\ Silent /\ Clean /\ Fresh
  BY CallInit DEF Init, ScanInit
<1>2. CallInv /\ Silent /\ Clean /\ Fresh /\ [Next]_vars => Silent' /\ Clean' /\ Fresh'
  <2> SUFFICES ASSUME CallInv, Silent, Clean, Fresh, [Next]_vars
               PROVE  Silent' /\ Clean' /\ Fresh'
    OBVIOUS
  <2>1. cpc # "returned" => result.kind = "none"
    BY DEF CallInv, ResultAtReturn, Watch!NoResult
  <2>2. CASE Scanning
    <3>1. /\ cpc = "stream" /\ cpc' = cpc /\ result' = result /\ ScanStep
      BY <2>2 DEF Scanning, caller
    <3> QED
      BY <2>1, <3>1, ScanPasses
  <2>3. CASE ProgressEvent
    <3>1. /\ cpc = "stream" /\ cpc' = cpc /\ result' = result /\ Continue /\ item.err = "nil"
      BY <2>3 DEF ProgressEvent, Receiving
    <3>2. Now(Job, count + 1)
      BY <3>1, CallFacts
    <3> QED
      BY <2>1, <3>1, <3>2, ContinuePasses
  <2>4. CASE ScanError \/ BadData \/ TerminalEvent \/ UnknownEvent
    <3>1. /\ cpc' = "returned"
          /\ result'.kind \in {"scanError", "unmarshalError", "ok", "failed", "unknownEvent"}
      BY <2>4 DEF ScanError, BadData, TerminalEvent, UnknownEvent, Leave, Return
    <3> QED
      BY <3>1
  <2>5. CASE LoopEnds
    <3>1. cpc = "stream" /\ spc = "done" /\ cpc' = "returned" /\ wire' = wire /\ ending' = ending
      BY <2>5 DEF LoopEnds, Return, scanVars, stream
    <3> QED
      BY <3>1 DEF Passing, AtEof
  <2>6. CASE Emit \/ StreamEnds
    <3>1. /\ cpc = "stream" /\ cpc' = cpc /\ result' = result /\ spc' = spc /\ item' = item
          /\ ending = "open"
      BY <2>6 DEF Emit, StreamEnds, CutStream, caller
    <3> QED
      BY <2>1, <3>1 DEF Passing, AtEof
  <2>7. CASE Request
    <3>1. /\ cpc = "send" /\ spc' = spc
          /\ \/ cpc' = "stream" /\ result' = result
             \/ cpc' = "returned" /\ \E k \in Immediate : result' = [kind |-> k, event |-> 0]
      BY <2>7 DEF Request, Return, scanVars
    <3> QED
      BY <2>1, <3>1 DEF Passing, Immediate
  <2>8. CASE UNCHANGED vars
    BY <2>8 DEF vars, caller, scanVars, stream, Passing, AtEof
  <2> QED
    BY <2>2, <2>3, <2>4, <2>5, <2>6, <2>7, <2>8 DEF Next, Service, Caller, Terminated
<1>3. CallInv /\ [Next]_vars => CallInv'
  BY CallNext
<1>4. Silent => (result.kind \in {"noEvents", "noTerminal"} => AtEof)
  OBVIOUS
<1> HIDE DEF Silent, Clean, Fresh
<1> QED
  BY <1>1, <1>2, <1>3, <1>4, PTL DEF Spec

\* Until the call returns the account of the stream is kept, the events it has
\* counted were no terminal ones, and a terminal one is the job's last.
Accounted ==
  cpc # "returned" =>
    /\ NowAll(Job, count + 1)
    /\ \A i \in 1 .. count : job[i] \in Progress
    /\ \A i \in 1 .. Len(job) : job[i] \in Terminal => i = Len(job)
WholeInv == Accounted /\ OutcomeIsReported

LEMMA WholeInit == Init => WholeInv
<1> SUFFICES ASSUME Init PROVE WholeInv
  OBVIOUS
<1>1. /\ ScanInit /\ text = <<>> /\ layout \in Layouts /\ job = <<>> /\ cpc = "send" /\ count = 0
  BY DEF Init
<1>2. Job \in Services /\ Job.written = 0
  <2>1. job \in Seq(EventNames) /\ Len(job) = 0
    BY <1>1
  <2>2. Len(Payloads) \in Nat
    BY PayloadsAssumption, LenProperties
  <2> QED
    BY <1>1, <2>1, <2>2, JobType
<1>3. NowAll(Job, 1)
  BY <1>1, <1>2, AccountsInit
<1> QED
  BY <1>1, <1>3 DEF WholeInv, Accounted, OutcomeIsReported

\* The service's step, as WriteAccounts and WriteCounts want it.
LEMMA EmitWrites ==
  ASSUME CallInv, cpc = "stream", Emit
  PROVE  LET new == Job' IN
         /\ new \in Services /\ new.layout = Job.layout /\ new.written = Job.written + 1
         /\ \A m \in 1 .. Job.written : new.names[m] = Job.names[m]
         /\ wire' = wire \o Written(new.layout, new.names[new.written], new.written)
         /\ text' = text \o Written(new.layout, new.names[new.written], new.written)
         /\ ending = "open" /\ UNCHANGED <<ending, spc, decoder, item>> /\ read' = read
         /\ count' = count /\ layout' = layout
         /\ Len(job') = Len(job) + 1 /\ \A i \in 1 .. Len(job) : job'[i] = job[i]
<1>1. Job.written = Len(job) /\ Job.names = job /\ Len(job) \in Nat /\ Len(Payloads) \in Nat
  BY CallFacts
<1>2. layout' = layout /\ count' = count
  BY DEF Emit, call, caller
<1>3. PICK name \in EventNames :
        /\ job' = Append(job, name)
        /\ wire' = wire \o Written(layout, name, Len(job) + 1)
        /\ text' = text \o Written(layout, name, Len(job) + 1)
  BY DEF Emit, Write
<1>4. ending = "open" /\ UNCHANGED <<ending, spc, decoder, item>> /\ read' = read
  BY DEF Emit, history
<1>5. /\ Len(job') = Len(job) + 1
      /\ job'[Len(job) + 1] = name /\ \A i \in 1 .. Len(job) : job'[i] = job[i]
  <2>1. job \in Seq(EventNames)
    BY DEF CallInv, TypeOK
  <2> QED
    BY <1>3, <2>1, AppendProperties
<1>6. Job' = Server(layout, job', Len(job')) /\ Job = Server(layout, job, Len(job))
  BY <1>2 DEF Job
<1>7. Job' \in Services
  <2>1. CallInv'
    BY StreamStep
  <2>2. layout' \in Layouts /\ job' \in Seq(EventNames) /\ Len(job') <= Len(Payloads)
    BY <2>1 DEF CallInv, TypeOK
  <2> DEFINE j == job'
             l == layout'
  <2>3. l \in Layouts /\ j \in Seq(AllNames) /\ Len(j) \in Nat
    <3>1. EventNames \subseteq AllNames
      BY DEF AllNames
    <3>2. \A i \in 1 .. Len(j) : j[i] \in EventNames
      BY <2>2, ElementOfSeq
    <3>3. j = [i \in 1 .. Len(j) |-> j[i]]
      BY <2>2, SeqDef
    <3>4. Len(j) \in Nat
      BY <1>1, <1>5
    <3> QED
      BY <2>2, <3>1, <3>2, <3>3, <3>4
  <2> QED
    BY <1>1, <1>2, <1>6, <2>2, <2>3 DEF Server, Services
<1> DEFINE new == Job'
<1>8. /\ new.layout = layout /\ new.names = job' /\ new.written = Len(job')
      /\ Job.layout = layout
  BY <1>6 DEF Server
<1> HIDE DEF new
<1>9. /\ new.written = Len(job) + 1 /\ new.names[new.written] = name
      /\ \A m \in 1 .. Job.written : new.names[m] = Job.names[m]
  BY <1>1, <1>5, <1>8
<1> QED
  BY <1>1, <1>2, <1>3, <1>4, <1>5, <1>7, <1>8, <1>9 DEF new

\* The stream's steps.
LEMMA AccountedStep ==
  ASSUME CallInv, Accounted, cpc = "stream", Scanning \/ Emit \/ StreamEnds
  PROVE  Accounted'
<1>1. /\ Job \in Services /\ Now(Job, count + 1) /\ count \in Nat
      /\ count + 1 \in 1 .. Len(job) + 1 /\ Len(job) \in Nat
  BY CallFacts
<1>2. /\ NowAll(Job, count + 1)
      /\ \A i \in 1 .. count : job[i] \in Progress
      /\ \A i \in 1 .. Len(job) : job[i] \in Terminal => i = Len(job)
  BY DEF Accounted
<1>3. layout' = layout /\ count' = count
  BY DEF Scanning, Emit, StreamEnds, call, caller
<1>4. CASE Scanning \/ StreamEnds
  <2>1. job' = job /\ text' = text /\ (ScanStep \/ CutStream)
    BY <1>4 DEF Scanning, StreamEnds, service
  <2>2. ThenAll(Job, count + 1)
    BY <1>1, <1>2, <2>1, ScanAccounts, CutAccounts
  <2>3. Job' = Job
    BY <1>3, <2>1 DEF Job
  <2>4. NowAll(Job, count + 1)'
    BY <1>3, <2>2, <2>3 DEF NowAll, ThenAll
  <2> QED
    BY <1>2, <1>3, <2>1, <2>4 DEF Accounted
<1>5. CASE Emit
  <2>1. \A i \in 1 .. Len(job) : job[i] \notin Terminal
    BY <1>5 DEF Emit
  <2>2. Len(job') = Len(job) + 1 /\ \A i \in 1 .. Len(job) : job'[i] = job[i]
    BY <1>5, EmitWrites
  <2> DEFINE new == Job'
  <2>3. /\ new \in Services /\ new.layout = Job.layout /\ new.written = Job.written + 1
        /\ \A m \in 1 .. Job.written : new.names[m] = Job.names[m]
        /\ wire' = wire \o Written(new.layout, new.names[new.written], new.written)
        /\ text' = text \o Written(new.layout, new.names[new.written], new.written)
        /\ ending = "open" /\ UNCHANGED <<ending, spc, decoder, item>> /\ read' = read
    BY <1>5, EmitWrites
  <2>4. ThenAll(Job', count + 1)
    BY <1>1, <1>2, <2>3, WriteAccounts
  <2>5. NowAll(Job, count + 1)'
    BY <1>3, <2>4 DEF NowAll, ThenAll
  <2>6. \A i \in 1 .. count : job'[i] \in Progress
    <3>1. \A i \in 1 .. count : i \in 1 .. Len(job)
      BY <1>1
    <3> QED
      BY <1>2, <2>2, <3>1
  <2>7. \A i \in 1 .. Len(job') : job'[i] \in Terminal => i = Len(job')
    <3>1. \A i \in 1 .. Len(job) + 1 : i \in 1 .. Len(job) \/ i = Len(job) + 1
      BY <1>1
    <3> QED
      BY <2>1, <2>2, <3>1
  <2> QED
    BY <1>3, <2>5, <2>6, <2>7 DEF Accounted
<1> QED
  BY <1>4, <1>5

\* A progress event.
LEMMA AccountedProgress ==
  ASSUME CallInv, Accounted, ProgressEvent
  PROVE  Accounted'
<1>1. /\ cpc = "stream" /\ Receiving /\ item.err = "nil" /\ item.evt.name \in Progress
      /\ count' = count + 1 /\ Continue /\ layout' = layout /\ job' = job /\ text' = text
  BY DEF ProgressEvent, Receiving, call, service
<1>2. PICK k \in DOMAIN Payloads : Decodes(item.evt, k)
  BY DEF ProgressEvent
<1>3. k = count + 1 /\ k <= Len(job) /\ item.evt.name = job[k]
  BY <1>1, <1>2, EventIsNext DEF EventNames
<1>4. /\ Job \in Services /\ Job.written = Len(job) /\ Now(Job, count + 1)
      /\ count \in Nat /\ Len(job) \in Nat
  BY <1>1, CallFacts
<1>5. /\ NowAll(Job, count + 1)
      /\ \A i \in 1 .. count : job[i] \in Progress
      /\ \A i \in 1 .. Len(job) : job[i] \in Terminal => i = Len(job)
  BY <1>1 DEF Accounted
<1>6. NowAll(Job, count + 1)'
  <2>1. count' + 1 \in 1 .. Job.written + 1 /\ count' + 1 = (count + 1) + 1
    BY <1>1, <1>3, <1>4
  <2>2. ThenAll(Job, count' + 1)
    BY <1>1, <1>4, <1>5, <2>1, ContinueAccounts
  <2>3. Job' = Job
    BY <1>1 DEF Job
  <2> QED
    BY <2>2, <2>3 DEF NowAll, ThenAll
<1>7. \A i \in 1 .. count' : job'[i] \in Progress
  <2>1. \A i \in 1 .. count + 1 : i \in 1 .. count \/ i = count + 1
    BY <1>4
  <2> QED
    BY <1>1, <1>3, <1>5, <2>1
<1> QED
  BY <1>1, <1>5, <1>6, <1>7 DEF Accounted

\* When everything was read, the scanner has come behind the last event only if
\* that is no terminal one.
LEMMA BehindTheLast ==
  ASSUME CallInv, Accounted, cpc = "stream", read = text,
         spc # "yieldRecord", Yielding \/ spc = "done"
  PROVE  ~(job # <<>> /\ Last(job) \in Terminal)
<1>1. /\ Job \in Services /\ Job.written = Len(job) /\ Now(Job, count + 1)
      /\ count \in Nat /\ Len(job) \in Nat
  BY CallFacts
<1>2. /\ NowAll(Job, count + 1)
      /\ \A i \in 1 .. count : job[i] \in Progress
  BY DEF Accounted
<1>3. Lossless(Job, count + 1, wire, spc, evt, dataBuf)
  <2> DEFINE r == Len(read)
             w == Len(wire)
  <2>1. r \in Nat /\ w \in Nat /\ r + w <= r /\ (r + w = r => Lossless(Job, count + 1, wire, spc, evt, dataBuf))
    <3>1. read \in Seq(Carried) /\ wire \in Seq(Carried)
      BY <1>1, <1>2 DEF NowAll, Accounts, Now, Scans
    <3> QED
      BY <1>2, <3>1, LenProperties DEF NowAll, Accounts
  <2> HIDE DEF r, w
  <2> QED
    BY <2>1
<1>4. count = Len(job)
  <2>1. count + 1 = Len(job) + 1
    BY <1>1, <1>3 DEF Lossless, Yielding
  <2> QED
    BY <1>1, <2>1
<1>5. ASSUME job # <<>> PROVE Last(job) \notin Terminal
  <2>1. job \in Seq(EventNames)
    BY DEF CallInv, TypeOK
  <2>2. Len(job) \in 1 .. count
    BY <1>1, <1>4, <1>5, <2>1, EmptySeq
  <2>3. job[Len(job)] \in Progress
    BY <1>2, <2>2
  <2> QED
    BY <2>3 DEF Last, Progress, Terminal
<1> QED
  BY <1>5

\* A return that is not one of the terminal event.
LEMMA ReportedError ==
  ASSUME CallInv, Accounted, ScanError \/ BadData \/ UnknownEvent \/ LoopEnds
  PROVE  OutcomeIsReported'
<1>1. /\ cpc = "stream" /\ job' = job /\ text' = text /\ read' = read
      /\ (Yielding \/ spc = "done")
  BY DEF ScanError, BadData, UnknownEvent, LoopEnds, Receiving, Leave, Stop, service, scanVars,
     history
<1> SUFFICES ASSUME read = text, job # <<>>, Last(job) \in Terminal,
                    Range(job) \subseteq Progress \cup Terminal
             PROVE  FALSE
  BY <1>1 DEF OutcomeIsReported
<1>2. spc = "yieldRecord"
  BY <1>1, BehindTheLast
<1>3. /\ Job \in Services /\ Job.written = Len(job) /\ Job.names = job /\ Now(Job, count + 1)
      /\ count \in Nat /\ count + 1 \in 1 .. Len(job) + 1 /\ Len(job) \in Nat
  BY <1>1, CallFacts
<1>4. /\ count + 1 <= Len(job) /\ item = Whole(Job, count + 1)
  BY <1>2, <1>3 DEF Now, Scans
<1>5. /\ item.err = "nil" /\ item.evt.name = job[count + 1]
      /\ item.evt.data = Payloads[count + 1]
  BY <1>3, <1>4 DEF Whole, Item, Ev
<1>6. Decodable(item.evt)
  <2>1. count + 1 \in DOMAIN Payloads
    BY <1>1, <1>3, <1>4, CallFacts
  <2> QED
    BY <1>5, <2>1 DEF Decodable, Decodes
<1>7. item.evt.name \in Progress \cup Terminal
  <2>1. count + 1 \in 1 .. Len(job)
    BY <1>3, <1>4
  <2>2. job \in Seq(EventNames)
    BY DEF CallInv, TypeOK
  <2>3. DOMAIN job = 1 .. Len(job)
    BY <2>2, LenProperties
  <2> QED
    BY <1>5, <2>1, <2>3 DEF Range
<1> QED
  BY <1>2, <1>5, <1>6, <1>7 DEF ScanError, BadData, UnknownEvent, LoopEnds

LEMMA ReportedTerminal ==
  ASSUME CallInv, Accounted, TerminalEvent
  PROVE  OutcomeIsReported'
<1>1. PICK k \in DOMAIN Payloads :
        /\ Decodes(item.evt, k)
        /\ Leave(IF item.evt.name = "parse_done" THEN "ok" ELSE "failed", k)
  BY DEF TerminalEvent
<1>2. /\ Receiving /\ item.err = "nil" /\ item.evt.name \in Terminal /\ job' = job
      /\ cpc = "stream"
  BY DEF TerminalEvent, service, Receiving
<1>3. k = count + 1 /\ k <= Len(job) /\ item.evt.name = job[k]
  BY <1>1, <1>2, EventIsNext DEF EventNames
<1>4. count \in Nat /\ Len(job) \in Nat
  BY <1>2, CallFacts
<1>5. k = Len(job)
  <2>1. k \in 1 .. Len(job)
    BY <1>3, <1>4
  <2> QED
    BY <1>2, <1>3, <2>1 DEF Accounted
<1>6. result'.kind = IF Last(job) = "parse_done" THEN "ok" ELSE "failed"
  <2>1. Last(job) = item.evt.name
    BY <1>3, <1>5 DEF Last
  <2> QED
    BY <1>1, <2>1 DEF Leave, Return
<1> QED
  BY <1>2, <1>6 DEF OutcomeIsReported, Last

LEMMA WholeNext ==
  ASSUME CallInv, WholeInv, [Next]_vars
  PROVE  WholeInv'
<1>1. Accounted
  BY DEF WholeInv
<1>2. CASE Scanning \/ Emit \/ StreamEnds
  <2>1. cpc = "stream" /\ cpc' = "stream"
    BY <1>2 DEF Scanning, Emit, StreamEnds, caller
  <2>2. Accounted'
    BY <1>1, <1>2, <2>1, AccountedStep
  <2> QED
    BY <2>1, <2>2 DEF WholeInv, OutcomeIsReported
<1>3. CASE ScanError \/ BadData \/ UnknownEvent \/ LoopEnds
  <2>1. cpc' = "returned"
    BY <1>3 DEF ScanError, BadData, UnknownEvent, LoopEnds, Leave, Return
  <2> QED
    BY <1>1, <1>3, <2>1, ReportedError DEF WholeInv, Accounted
<1>4. CASE ProgressEvent
  <2>1. cpc' = "stream"
    BY <1>4 DEF ProgressEvent, Receiving
  <2> QED
    BY <1>1, <1>4, <2>1, AccountedProgress DEF WholeInv, OutcomeIsReported
<1>5. CASE TerminalEvent
  <2>1. cpc' = "returned"
    BY <1>5 DEF TerminalEvent, Leave, Return
  <2> QED
    BY <1>1, <1>5, <2>1, ReportedTerminal DEF WholeInv, Accounted
<1>6. CASE Request
  <2>1. /\ cpc = "send" /\ job' = job /\ text' = text /\ layout' = layout /\ count' = count
        /\ wire' = wire /\ ending' = ending /\ spc' = spc /\ evt' = evt /\ dataBuf' = dataBuf
        /\ read' = read
    BY <1>6 DEF Request, call, service, scanVars, stream, decoder, history
  <2>2. job = <<>>
    BY <2>1 DEF CallInv, ToldAll
  <2>3. Accounted'
    BY <1>1, <2>1 DEF Accounted, NowAll, Job
  <2> QED
    BY <2>1, <2>2, <2>3 DEF WholeInv, OutcomeIsReported
<1>7. CASE UNCHANGED vars
  <2>1. /\ cpc' = cpc /\ job' = job /\ text' = text /\ layout' = layout /\ count' = count
        /\ wire' = wire /\ ending' = ending /\ spc' = spc /\ evt' = evt /\ dataBuf' = dataBuf
        /\ read' = read /\ result' = result
    BY <1>7 DEF vars, caller, call, service, scanVars, stream, decoder, history
  <2>2. Accounted'
    BY <1>1, <2>1 DEF Accounted, NowAll, Job
  <2>3. OutcomeIsReported'
    BY <2>1 DEF WholeInv, OutcomeIsReported, Last, Range
  <2> QED
    BY <2>2, <2>3 DEF WholeInv
<1> QED
  BY <1>2, <1>3, <1>4, <1>5, <1>6, <1>7 DEF Next, Service, Caller, Terminated

\* Until the call returns, the blank lines read are those of the events counted
\* and of the one the scanner is at.
CountedInv ==
  /\ cpc # "returned" => NowCounted(Job, count + 1)
  /\ EventsAreReported

LEMMA ReportedInit == Init => CountedInv
<1> SUFFICES ASSUME Init PROVE CountedInv
  OBVIOUS
<1>1. ScanInit /\ layout \in Layouts /\ job = <<>> /\ cpc = "send" /\ count = 0
  BY DEF Init
<1>2. Job \in Services /\ Job.written = 0
  <2>1. job \in Seq(EventNames) /\ Len(job) = 0
    BY <1>1
  <2>2. Len(Payloads) \in Nat
    BY PayloadsAssumption, LenProperties
  <2> QED
    BY <1>1, <2>1, <2>2, JobType
<1> QED
  BY <1>1, <1>2, CountedInit DEF CountedInv, EventsAreReported

LEMMA ReportedNext ==
  ASSUME CallInv, CountedInv, [Next]_vars
  PROVE  CountedInv'
<1>1. cpc = "stream" =>
        /\ Job \in Services /\ Job.layout = layout /\ Job.written = Len(job)
        /\ Now(Job, count + 1) /\ NowCounted(Job, count + 1)
        /\ count \in Nat /\ count + 1 \in Nat /\ count + 1 \in 1 .. Len(job) + 1
        /\ Len(job) \in Nat /\ (callback => Len(updates) = count)
  BY CallFacts DEF CountedInv, Job, Server
<1>2. CASE Scanning \/ StreamEnds
  <2>1. /\ cpc = "stream" /\ cpc' = "stream" /\ layout' = layout /\ count' = count /\ job' = job
        /\ (ScanStep \/ CutStream)
    BY <1>2 DEF Scanning, StreamEnds, call, caller, service
  <2>2. ThenCounted(Job, count + 1)
    BY <1>1, <2>1, ScanCounts, CutCounts
  <2>3. NowCounted(Job, count + 1)'
    BY <2>1, <2>2 DEF NowCounted, ThenCounted, Job
  <2> QED
    BY <2>1, <2>3 DEF CountedInv, EventsAreReported
<1>3. CASE Emit
  <2>1. cpc = "stream" /\ cpc' = "stream" /\ count' = count
    BY <1>3 DEF Emit, caller
  <2> DEFINE new == Job'
  <2>2. /\ new \in Services /\ new.layout = Job.layout /\ new.written = Job.written + 1
        /\ \A m \in 1 .. Job.written : new.names[m] = Job.names[m]
        /\ wire' = wire \o Written(new.layout, new.names[new.written], new.written)
        /\ ending = "open" /\ UNCHANGED <<ending, spc, decoder, item>> /\ read' = read
    BY <1>3, <2>1, EmitWrites
  <2>3. ThenCounted(Job', count + 1)
    BY <1>1, <2>1, <2>2, WriteCounts
  <2>4. NowCounted(Job, count + 1)'
    BY <2>1, <2>3 DEF NowCounted, ThenCounted
  <2> QED
    BY <2>1, <2>4 DEF CountedInv, EventsAreReported
<1>4. CASE ProgressEvent
  <2>1. /\ cpc = "stream" /\ cpc' = "stream" /\ Receiving /\ item.err = "nil"
        /\ item.evt.name \in Progress /\ count' = count + 1 /\ Continue
        /\ layout' = layout /\ job' = job
    BY <1>4 DEF ProgressEvent, Receiving, call, service
  <2>2. PICK k \in DOMAIN Payloads : Decodes(item.evt, k)
    BY <1>4 DEF ProgressEvent
  <2>3. k = count + 1 /\ k <= Len(job)
    BY <2>1, <2>2, EventIsNext DEF EventNames
  <2>4. /\ count' + 1 \in 1 .. Job.written + 1 /\ count' + 1 = (count + 1) + 1
        /\ count + 1 <= count' + 1
    BY <1>1, <2>1, <2>3
  <2>5. ThenCounted(Job, count' + 1)
    BY <1>1, <2>1, <2>4, ContinueCounts
  <2>6. Job' = Job
    BY <2>1 DEF Job
  <2>7. NowCounted(Job, count + 1)'
    BY <2>5, <2>6 DEF NowCounted, ThenCounted
  <2> QED
    BY <2>1, <2>7 DEF CountedInv, EventsAreReported
<1>5. ASSUME cpc = "stream", cpc' = "returned", spc # "scan",
             UNCHANGED <<layout, job, count, callback, read>>,
             \A n \in 1 .. Len(job) :
               n <= count + 1 /\ (spc # "yieldRecord" => n < count + 1)
                 => /\ n <= count \/ n = result'.event
                    /\ callback => n <= Len(updates')
      PROVE  CountedInv'
  <2>1. ASSUME NEW n \in 1 .. Len(job), ReadWhole(n)
        PROVE  n <= count + 1 /\ (spc # "yieldRecord" => n < count + 1)
    <3>1. n \in Nat
      BY <1>1, <1>5
    <3> QED
      BY <1>1, <1>5, <2>1, <3>1, ReadBefore
  <2>2. \A n : ReadWhole(n)' <=> ReadWhole(n)
    BY <1>5 DEF ReadWhole
  <2>3. EventsAreReported'
    BY <1>5, <2>1, <2>2 DEF EventsAreReported
  <2> QED
    BY <1>5, <2>3 DEF CountedInv
<1>6. CASE ScanError \/ BadData \/ LoopEnds
  <2>1. /\ cpc = "stream" /\ cpc' = "returned"
        /\ UNCHANGED <<layout, job, count, callback, read, updates>>
        /\ Yielding \/ spc = "done"
    BY <1>6 DEF ScanError, BadData, LoopEnds, Receiving, Leave, Return, Stop, call, service,
       scanVars, history
  <2>2. spc # "yieldRecord"
    <3>1. ASSUME spc = "yieldRecord"
          PROVE  item.err = "nil" /\ Decodable(item.evt)
      <4>1. count + 1 \in 1 .. Len(job) /\ item = Whole(Job, count + 1)
        BY <1>1, <2>1, <3>1 DEF Now, Scans
      <4>2. item.err = "nil" /\ item.evt.data = Payloads[count + 1]
        BY <4>1 DEF Whole, Item, Ev
      <4>3. count + 1 \in DOMAIN Payloads
        BY <2>1, <4>1, CallFacts
      <4> QED
        BY <4>2, <4>3 DEF Decodable, Decodes
    <3> QED
      BY <1>6, <3>1 DEF ScanError, BadData, LoopEnds
  <2>3. \A n \in 1 .. Len(job) : n < count + 1 => n <= count
    BY <1>1, <2>1
  <2>4. callback => Len(updates') = count
    BY <1>1, <2>1
  <2> QED
    BY <1>5, <2>1, <2>2, <2>3, <2>4 DEF Yielding
<1>7. CASE TerminalEvent
  <2>1. PICK k \in DOMAIN Payloads :
          /\ Decodes(item.evt, k) /\ Notify(item.evt.name, k)
          /\ Leave(IF item.evt.name = "parse_done" THEN "ok" ELSE "failed", k)
    BY <1>7 DEF TerminalEvent
  <2>2. /\ Receiving /\ item.err = "nil" /\ item.evt.name \in EventNames
        /\ UNCHANGED <<layout, job, count, callback>>
    BY <1>7 DEF TerminalEvent, call, service, EventNames
  <2>3. /\ cpc = "stream" /\ cpc' = "returned" /\ Yielding /\ read' = read
        /\ result'.event = k
    BY <2>1, <2>2 DEF Receiving, Leave, Return, Stop
  <2>4. k = count + 1 /\ (callback => Len(updates') = count + 1)
    BY <1>1, <2>1, <2>2, <2>3, EventIsNext, Notified
  <2>5. \A n \in 1 .. Len(job) : n <= count + 1 => n <= count \/ n = count + 1
    BY <1>1, <2>3
  <2> QED
    BY <1>5, <2>2, <2>3, <2>4, <2>5 DEF Yielding
<1>8. CASE UnknownEvent
  <2>1. cpc' = "returned" /\ result'.kind = "unknownEvent"
    BY <1>8 DEF UnknownEvent, Leave, Return
  <2> QED
    BY <2>1 DEF CountedInv, EventsAreReported
<1>9. CASE Request
  <2>1. /\ cpc = "send" /\ job' = job /\ layout' = layout /\ count' = count
        /\ wire' = wire /\ ending' = ending /\ spc' = spc /\ evt' = evt /\ dataBuf' = dataBuf
        /\ read' = read
    BY <1>9 DEF Request, call, service, scanVars, stream, decoder, history
  <2>2. job' = <<>>
    BY <2>1 DEF CallInv, ToldAll
  <2>3. EventsAreReported'
    BY <2>2 DEF EventsAreReported
  <2>4. NowCounted(Job, count + 1)'
    BY <2>1 DEF CountedInv, NowCounted, Job
  <2> QED
    BY <2>3, <2>4 DEF CountedInv
<1>10. CASE UNCHANGED vars
  <2>1. /\ cpc' = cpc /\ job' = job /\ layout' = layout /\ count' = count
        /\ wire' = wire /\ ending' = ending /\ spc' = spc /\ evt' = evt /\ dataBuf' = dataBuf
        /\ read' = read /\ result' = result /\ updates' = updates /\ callback' = callback
    BY <1>10 DEF vars, caller, call, service, scanVars, stream, decoder, history
  <2>2. NowCounted(Job, count + 1)' <=> NowCounted(Job, count + 1)
    BY <2>1 DEF NowCounted, Job
  <2>3. EventsAreReported'
    BY <2>1 DEF CountedInv, EventsAreReported, ReadWhole
  <2> QED
    BY <2>1, <2>2, <2>3 DEF CountedInv
<1> QED
  BY <1>2, <1>3, <1>4, <1>6, <1>7, <1>8, <1>9, <1>10 DEF Next, Service, Caller, Terminated

\* Nothing of a job that was read whole is lost, in whatever layout the events
\* came: when every line of a job that has ended was read, wherever the stream
\* breaks then, the call returns the outcome of its terminal event and blames
\* nothing; and of a stream cut anywhere, every event whose last line was read has
\* reached the callback and the count, or is the one the call returns with
\* (parse_get.go:143-193, iter.go:98-153).
THEOREM WholeJobReported == Spec => []WholeStreamIsReported
<1>1. Init => CallInv /\ WholeInv /\ CountedInv
  BY CallInit, WholeInit, ReportedInit
<1>2. CallInv /\ WholeInv /\ CountedInv /\ [Next]_vars
        => CallInv' /\ WholeInv' /\ CountedInv'
  BY CallNext, WholeNext, ReportedNext
<1>3. WholeInv /\ CountedInv => WholeStreamIsReported
  BY DEF WholeInv, CountedInv, WholeStreamIsReported
<1> QED
  BY <1>1, <1>2, <1>3, PTL DEF Spec

-----------------------------------------------------------------------------
(* followProcessOutput.                                                    *)

Process == Server(layout, Names, emitted)

\* Until it ends, the iteration has seen no eof and yielded no error.  While its
\* consumer has a line, that is the event the scanner has yielded; otherwise the
\* scanner is at the next one.
Going == fpc \in {"open", "loop", "line"}
Undecided == Going => ~left /\ ~sawEof /\ \A i \in 1 .. Len(yielded) : yielded[i] # 0
HasLine == fpc = "line" => /\ item.err = "nil" /\ Yielding
                           /\ Len(yielded) \in 1 .. emitted
AtNextLine ==
  Going => Now(Process, IF fpc = "line" THEN Len(yielded) ELSE Len(yielded) + 1)
FollowInv ==
  /\ FollowTypeOK /\ Undecided /\ HasLine /\ AtNextLine
  /\ fpc = "error" => Failed

LEMMA ProcessType ==
  ASSUME layout \in Layouts, emitted \in 0 .. Len(Names)
  PROVE  /\ Process \in Services /\ Process.written = emitted /\ Process.names = Names
         /\ Process.layout = layout
         /\ emitted \in Nat /\ Len(Names) \in Nat /\ Len(Names) = Len(Payloads)
         /\ DOMAIN Payloads = 1 .. Len(Payloads)
         /\ \A n \in 1 .. Len(Names) : Names[n] \in {"output", "eof"}
<1>1. Names \in Seq({"output", "eof"}) /\ Len(Names) = Len(Payloads)
  BY NamesAssumption
<1>2. Len(Names) \in Nat /\ DOMAIN Payloads = 1 .. Len(Payloads)
  BY <1>1, PayloadsAssumption, LenProperties
<1>3. \A n \in 1 .. Len(Names) : Names[n] \in {"output", "eof"}
  BY <1>1, ElementOfSeq
<1>4. Names \in Seq(AllNames)
  <2>1. Names = [i \in 1 .. Len(Names) |-> Names[i]]
    BY <1>1, SeqDef
  <2>2. \A n \in 1 .. Len(Names) : Names[n] \in AllNames
    BY <1>3 DEF AllNames
  <2> QED
    BY <1>2, <2>1, <2>2
<1>5. emitted \in Nat
  BY <1>2
<1> QED
  BY <1>1, <1>2, <1>3, <1>4, <1>5 DEF Process, Server, Services

\* What the status of the feed is.
LEMMA StatusIs ==
  ASSUME yielded \in Seq(Nat)
  PROVE  /\ FollowInv => (Going => Status = "on")
         /\ Failed => Status = "error"
<1>1. Failed <=> yielded # <<>> /\ yielded[Len(yielded)] = 0
  BY DEF Failed, Last
<1>2. ASSUME FollowInv, Going PROVE Status = "on"
  <2>1. ~left /\ ~sawEof /\ \A i \in 1 .. Len(yielded) : yielded[i] # 0
    BY <1>2 DEF FollowInv, Undecided
  <2>2. yielded # <<>> => Len(yielded) \in 1 .. Len(yielded)
    BY EmptySeq, LenProperties
  <2>3. ~Failed
    BY <1>1, <2>1, <2>2
  <2>4. fpc # "done"
    BY <1>2 DEF Going
  <2> QED
    BY <2>1, <2>3, <2>4 DEF Status
<1> QED
  BY <1>2 DEF Status

LEMMA FollowInitInv ==
  ASSUME FollowInit
  PROVE  FollowInv /\ Feed!Init
<1>1. /\ ScanInit /\ layout \in Layouts /\ emitted = 0 /\ fpc = "open" /\ body = "none"
      /\ yielded = <<>> /\ ~left /\ ~sawEof /\ sawEof \in BOOLEAN /\ left \in BOOLEAN
  BY DEF FollowInit
<1>2. Len(Names) \in Nat
  BY LenProperties, NamesAssumption
<1>3. yielded \in Seq(0 .. Len(Names)) /\ Len(yielded) = 0 /\ yielded \in Seq(Nat)
  BY <1>1
<1>4. emitted \in 0 .. Len(Names)
  BY <1>1, <1>2
<1>5. Process \in Services /\ Process.written = 0
  BY <1>1, <1>4, ProcessType
<1>6. Now(Process, 1)
  BY <1>1, <1>5, ScansInit
<1>7. FollowTypeOK
  BY <1>1, <1>2, <1>3, <1>4 DEF FollowTypeOK
<1>8. FollowInv
  BY <1>1, <1>3, <1>6, <1>7 DEF FollowInv, Undecided, HasLine, AtNextLine
<1>9. Status = "on"
  BY <1>1, <1>3, <1>8, StatusIs DEF Going
<1> QED
  BY <1>1, <1>8, <1>9 DEF Feed!Init

\* While the iteration goes on: where it is, as numbers.
LEMMA FollowFacts ==
  ASSUME FollowInv
  PROVE  /\ Process \in Services /\ Process.written = emitted /\ Process.names = Names
         /\ Process.layout = layout
         /\ emitted \in Nat /\ Len(Names) \in Nat /\ emitted <= Len(Names)
         /\ Len(Names) = Len(Payloads) /\ DOMAIN Payloads = 1 .. Len(Payloads)
         /\ yielded \in Seq(0 .. Len(Names)) /\ yielded \in Seq(Nat) /\ Len(yielded) \in Nat
         /\ Going => /\ Status = "on" /\ ~left /\ ~sawEof
                     /\ Len(yielded) <= emitted
                     /\ \A i \in 1 .. Len(yielded) : yielded[i] # 0
         /\ \A n \in 1 .. Len(Names) : Names[n] \in {"output", "eof"}
<1>1. layout \in Layouts /\ emitted \in 0 .. Len(Names) /\ yielded \in Seq(0 .. Len(Names))
  BY DEF FollowInv, FollowTypeOK
<1>2. /\ Process \in Services /\ Process.written = emitted /\ Process.names = Names
      /\ Process.layout = layout
      /\ emitted \in Nat /\ Len(Names) \in Nat
      /\ Len(Names) = Len(Payloads) /\ DOMAIN Payloads = 1 .. Len(Payloads)
      /\ \A n \in 1 .. Len(Names) : Names[n] \in {"output", "eof"}
  BY <1>1, ProcessType
<1>3. Len(yielded) \in Nat
  BY <1>1, LenProperties
<1>4. yielded \in Seq(Nat)
  <2>1. yielded = [i \in 1 .. Len(yielded) |-> yielded[i]]
    BY <1>1, SeqDef
  <2>2. \A i \in 1 .. Len(yielded) : yielded[i] \in Nat
    <3>1. \A i \in 1 .. Len(yielded) : yielded[i] \in 0 .. Len(Names)
      BY <1>1, ElementOfSeq
    <3> QED
      BY <3>1
  <2> QED
    BY <1>3, <2>1, <2>2
<1>5. ASSUME Going
      PROVE  /\ Status = "on" /\ ~left /\ ~sawEof /\ Len(yielded) <= emitted
             /\ \A i \in 1 .. Len(yielded) : yielded[i] # 0
  <2>1. /\ Status = "on" /\ ~left /\ ~sawEof
        /\ \A i \in 1 .. Len(yielded) : yielded[i] # 0
    BY <1>4, <1>5, StatusIs DEF FollowInv, Undecided
  <2>2. CASE fpc = "line"
    BY <1>2, <1>3, <2>1, <2>2 DEF FollowInv, HasLine
  <2>3. CASE fpc # "line"
    <3>1. Now(Process, Len(yielded) + 1)
      BY <1>5, <2>3 DEF FollowInv, AtNextLine
    <3>2. Len(yielded) + 1 \in 1 .. emitted + 1
      BY <1>2, <3>1 DEF Now, Scans
    <3> QED
      BY <1>2, <1>3, <2>1, <3>2
  <2> QED
    BY <2>2, <2>3
<1> QED
  BY <1>1, <1>2, <1>3, <1>4, <1>5

\* The service's step, as the lemmas on its writing want it.
LEMMA ProcessWrites ==
  ASSUME FollowInv, ProcessEmits
  PROVE  LET new == Process' IN
         /\ new \in Services /\ new.layout = Process.layout
         /\ new.written = Process.written + 1
         /\ \A m \in 1 .. Process.written : new.names[m] = Process.names[m]
         /\ wire' = wire \o Written(new.layout, new.names[new.written], new.written)
         /\ text' = text \o Written(new.layout, new.names[new.written], new.written)
         /\ ending = "open" /\ UNCHANGED <<ending, spc, decoder, item>> /\ read' = read
<1>1. /\ Process \in Services /\ Process.written = emitted /\ Process.names = Names
      /\ Process.layout = layout /\ emitted \in Nat /\ Len(Names) \in Nat
      /\ Len(Names) = Len(Payloads)
  BY FollowFacts
<1>2. /\ layout' = layout /\ ending = "open" /\ emitted < Len(Names) /\ emitted' = emitted + 1
      /\ wire' = wire \o Written(layout, Names[emitted + 1], emitted + 1)
      /\ text' = text \o Written(layout, Names[emitted + 1], emitted + 1)
      /\ UNCHANGED <<ending, spc, decoder, item>> /\ read' = read
  BY DEF ProcessEmits, Write, decoder, history
<1>3. Process' = Server(layout, Names, emitted + 1)
  BY <1>2 DEF Process
<1>4. Process' \in Services
  <2>1. emitted + 1 \in 0 .. Len(Payloads) /\ emitted + 1 <= Len(Names)
    BY <1>1, <1>2
  <2> QED
    BY <1>1, <1>3, <2>1 DEF Process, Server, Services
<1> DEFINE new == Process'
<1>5. new.layout = layout /\ new.names = Names /\ new.written = emitted + 1
  BY <1>3 DEF Server
<1> HIDE DEF new
<1> QED
  BY <1>1, <1>2, <1>4, <1>5 DEF new

FeedStep ==
  \/ Feed!Write \/ Feed!Give \/ Feed!Complete \/ Feed!Fail
  \/ Feed!Leave \/ Feed!Lose

\* The scanner's step, the service's and the end of the stream.
LEMMA FollowStreamStep ==
  ASSUME FollowInv,
         \/ FollowScans
         \/ ProcessEmits
         \/ OutputEnds
  PROVE  FollowInv' /\ [FeedStep]_(Feed!feedVars)
<1> DEFINE n == IF fpc = "line" THEN Len(yielded) ELSE Len(yielded) + 1
<1>1. /\ Process \in Services /\ Process.written = emitted /\ Process.names = Names
      /\ Process.layout = layout /\ emitted \in Nat /\ Len(Names) \in Nat
  BY FollowFacts
<1>2. /\ layout' = layout /\ fpc' = fpc /\ body' = body /\ yielded' = yielded
      /\ sawEof' = sawEof /\ left' = left
  BY DEF FollowScans, ProcessEmits, OutputEnds, process, follower
<1>3. Going => Now(Process, n)
  BY DEF FollowInv, AtNextLine
<1>4. FollowTypeOK
  BY DEF FollowInv
<1>5. /\ Undecided' /\ (fpc' = "error" => Failed') /\ n' = n /\ (Going' <=> Going)
      /\ Status' = Status
  BY <1>2 DEF FollowInv, Undecided, Failed, Last, Going, Status
<1> HIDE DEF n
<1>6. CASE FollowScans \/ OutputEnds
  <2>1. emitted' = emitted /\ (ScanStep \/ CutStream)
    BY <1>6 DEF FollowScans, OutputEnds, process
  <2>2. Going => Then(Process, n)
    BY <1>1, <1>3, <2>1, ScanKeeps, CutKeeps
  <2>3. AtNextLine'
    <3>1. Process' = Process
      BY <1>2, <2>1 DEF Process
    <3> QED
      BY <1>5, <2>2, <3>1 DEF AtNextLine, Now, Then, n
  <2>4. FollowTypeOK'
    BY <1>2, <1>4, <2>1 DEF FollowTypeOK, Layouts
  <2>5. HasLine'
    <3>1. OutputEnds => spc' = spc /\ item' = item
      BY DEF OutputEnds, CutStream
    <3>2. FollowScans => fpc # "line"
      BY DEF FollowScans
    <3> QED
      BY <1>2, <1>6, <2>1, <3>1, <3>2 DEF FollowInv, HasLine, Yielding
  <2> QED
    BY <1>2, <1>5, <2>1, <2>3, <2>4, <2>5 DEF FollowInv, Feed!feedVars
<1>7. CASE ProcessEmits
  <2>1. ending = "open" /\ emitted < Len(Names) /\ emitted' = emitted + 1
    BY <1>7 DEF ProcessEmits
  <2>2. emitted' \in 0 .. Len(Names)
    BY <1>1, <2>1
  <2> DEFINE new == Process'
  <2>3. /\ new \in Services /\ new.layout = Process.layout
        /\ new.written = Process.written + 1
        /\ \A m \in 1 .. Process.written : new.names[m] = Process.names[m]
        /\ wire' = wire \o Written(new.layout, new.names[new.written], new.written)
        /\ UNCHANGED <<ending, spc, decoder, item>>
    BY <1>7, ProcessWrites
  <2>4. Going => Then(Process', n)
    BY <1>1, <1>3, <2>1, <2>3, WriteKeeps
  <2>5. AtNextLine'
    BY <1>5, <2>4 DEF AtNextLine, Now, Then, n
  <2>6. FollowTypeOK'
    BY <1>2, <1>4, <2>2 DEF FollowTypeOK, Layouts
  <2>7. HasLine'
    BY <1>1, <1>2, <2>1, <2>3 DEF FollowInv, HasLine, Yielding
  <2>8. Feed!Write
    BY <1>2, <1>5, <2>1 DEF Feed!Write
  <2> QED
    BY <1>5, <2>5, <2>6, <2>7, <2>8 DEF FollowInv, FeedStep
<1> QED
  BY <1>6, <1>7

\* An error is the last item.
LEMMA FailStep ==
  ASSUME FollowInv, OpenFails \/ ReceiveError
  PROVE  FollowInv' /\ Feed!Fail
<1>1. /\ Going /\ yielded' = Append(yielded, 0) /\ fpc' = "error"
      /\ layout' = layout /\ emitted' = emitted /\ body' = body
      /\ sawEof' = sawEof /\ left' = left
  BY DEF OpenFails, ReceiveError, HasEvent, Give, Going,
     process
<1>2. /\ Status = "on" /\ ~left /\ ~sawEof /\ Len(yielded) <= emitted
      /\ emitted <= Len(Names) /\ emitted \in Nat /\ Len(Names) \in Nat
      /\ yielded \in Seq(0 .. Len(Names)) /\ Len(yielded) \in Nat
  BY <1>1, FollowFacts
<1>3. /\ yielded' \in Seq(0 .. Len(Names)) /\ Len(yielded') = Len(yielded) + 1
      /\ yielded'[Len(yielded) + 1] = 0
  <2>1. 0 \in 0 .. Len(Names)
    BY <1>2
  <2> QED
    BY <1>1, <1>2, <2>1, AppendProperties
<1>4. Failed'
  <2>1. yielded' # <<>>
    BY <1>2, <1>3
  <2> QED
    BY <1>3, <2>1 DEF Failed, Last
<1>5. FollowTypeOK'
  <2>1. Len(yielded') <= Len(Names) + 1
    BY <1>2, <1>3
  <2> QED
    BY <1>1, <1>3, <2>1 DEF FollowInv, FollowTypeOK, Layouts
<1>6. ~Going'
  BY <1>1 DEF Going
<1>7. FollowInv'
  BY <1>1, <1>4, <1>5, <1>6 DEF FollowInv, Undecided, HasLine, AtNextLine
<1>8. Status' = "error"
  BY <1>4 DEF Status
<1> QED
  BY <1>1, <1>2, <1>7, <1>8 DEF Feed!Fail

\* What the scanner has yielded to the loop is the next event, or what a cut has
\* left of it.
LEMMA ReceivedPart ==
  ASSUME FollowInv, HasEvent, item.err = "nil"
  PROVE  /\ Going /\ Yielding /\ Now(Process, Len(yielded) + 1)
         /\ Partial(Process, Len(yielded) + 1, item.evt)
<1>1. Going /\ fpc = "loop" /\ Yielding
  BY DEF HasEvent, Going
<1>2. Now(Process, Len(yielded) + 1)
  BY <1>1 DEF FollowInv, AtNextLine
<1>3. Process \in Services
  BY FollowFacts
<1> QED
  BY <1>1, <1>2, <1>3, YieldedPart

\* What the loop takes for a line is the next event, and so is what it takes for
\* the end of the process.
LEMMA OutputIsNext ==
  ASSUME FollowInv, ReceiveOutput
  PROVE  LET n == Len(yielded) + 1 IN
         Give(n, "line") /\ n <= emitted /\ Names[n] = "output"
<1> DEFINE n == Len(yielded) + 1
<1>1. PICK k \in DOMAIN Payloads : item.evt.data = Payloads[k] /\ Give(k, "line")
  BY DEF ReceiveOutput, Decodes
<1>2. HasEvent /\ item.err = "nil" /\ item.evt.name = "output"
  BY DEF ReceiveOutput
<1>3. Going /\ Partial(Process, n, item.evt)
  BY <1>2, ReceivedPart
<1>4. Process.written = emitted /\ Process.names = Names
  BY FollowFacts
<1>5. PartialData(n, Payloads[k]) /\ PartialName(Process, n, "output")
  BY <1>1, <1>2, <1>3 DEF Partial
<1>6. k = n
  BY <1>5 DEF PartialData
<1>7. n <= Process.written /\ "output" = Process.names[n]
  BY <1>5 DEF PartialName
<1> QED
  BY <1>1, <1>4, <1>6, <1>7

LEMMA EofIsNext ==
  ASSUME FollowInv, ReceiveEof
  PROVE  LET n == Len(yielded) + 1 IN n <= emitted /\ Names[n] = "eof"
<1> DEFINE n == Len(yielded) + 1
<1>1. HasEvent /\ item.err = "nil" /\ item.evt.name = "eof"
  BY DEF ReceiveEof
<1>2. Partial(Process, n, item.evt)
  BY <1>1, ReceivedPart
<1>3. Process.written = emitted /\ Process.names = Names
  BY FollowFacts
<1>4. PartialName(Process, n, "eof")
  BY <1>1, <1>2 DEF Partial
<1>5. n <= Process.written /\ "eof" = Process.names[n]
  BY <1>4 DEF PartialName
<1> QED
  BY <1>3, <1>5

LEMMA OutputStep ==
  ASSUME FollowInv, ReceiveOutput
  PROVE  FollowInv' /\ Feed!Give
<1> DEFINE n == Len(yielded) + 1
<1>1. Give(n, "line") /\ n <= emitted /\ Names[n] = "output"
  BY OutputIsNext
<1>2. /\ HasEvent /\ item.err = "nil"
      /\ scanVars' = scanVars /\ process' = process
      /\ UNCHANGED <<body, sawEof, left>>
  BY DEF ReceiveOutput
<1>3. Going /\ Yielding /\ Now(Process, n)
  BY <1>2, ReceivedPart
<1>4. /\ Status = "on" /\ ~left /\ ~sawEof /\ Len(yielded) <= emitted
      /\ emitted <= Len(Names) /\ emitted \in Nat /\ Len(Names) \in Nat
      /\ yielded \in Seq(0 .. Len(Names)) /\ Len(yielded) \in Nat
      /\ \A i \in 1 .. Len(yielded) : yielded[i] # 0
  BY <1>3, FollowFacts
<1>5. /\ layout' = layout /\ emitted' = emitted /\ fpc' = "line" /\ yielded' = Append(yielded, n)
      /\ wire' = wire /\ ending' = ending /\ spc' = spc /\ evt' = evt /\ dataBuf' = dataBuf
      /\ item' = item
  BY <1>1, <1>2 DEF Give, process, scanVars, stream,
     decoder
<1>6. /\ yielded' \in Seq(0 .. Len(Names)) /\ Len(yielded') = n
      /\ yielded'[n] = n /\ \A i \in 1 .. Len(yielded) : yielded'[i] = yielded[i]
  <2>1. n \in 0 .. Len(Names)
    BY <1>1, <1>4
  <2> QED
    BY <1>4, <1>5, <2>1, AppendProperties
<1>7. n \in Nat \ {0} /\ n \in 1 .. emitted /\ n <= Len(Names) + 1
  BY <1>1, <1>4
<1> HIDE DEF n
<1>8. \A i \in 1 .. Len(yielded') : yielded'[i] # 0
  <2>1. \A i \in 1 .. n : i \in 1 .. Len(yielded) \/ i = n
    BY <1>4 DEF n
  <2> QED
    BY <1>4, <1>6, <1>7, <2>1
<1>9. FollowTypeOK'
  BY <1>2, <1>5, <1>6, <1>7 DEF FollowInv, FollowTypeOK, Layouts
<1>10. HasLine' /\ Undecided'
  BY <1>2, <1>3, <1>4, <1>5, <1>6, <1>7, <1>8 DEF HasLine, Undecided, Yielding
<1>11. AtNextLine'
  <2>1. Process' = Process
    BY <1>5 DEF Process
  <2> QED
    BY <1>3, <1>5, <1>6, <2>1 DEF AtNextLine, Now
<1>12. Status' = "on"
  <2>1. yielded'[Len(yielded')] # 0
    BY <1>6, <1>7
  <2>2. ~Failed'
    BY <2>1 DEF Failed, Last
  <2> QED
    BY <1>2, <1>4, <1>5, <2>2 DEF Status
<1>13. FollowInv'
  BY <1>5, <1>9, <1>10, <1>11 DEF FollowInv
<1>14. Feed!Give
  BY <1>1, <1>4, <1>5, <1>7, <1>12 DEF Feed!Give, Feed!IsNext, n
<1> QED
  BY <1>13, <1>14

\* After the iteration nothing changes but the service.
LEMMA Over ==
  ASSUME FollowInv, fpc' = "done", UNCHANGED <<layout, emitted, yielded>>,
         body' \in {"none", "open", "closed"}, sawEof' \in BOOLEAN, left' \in BOOLEAN
  PROVE  FollowInv'
<1>1. ~Going' /\ fpc' # "line" /\ fpc' # "error"
  BY DEF Going
<1>2. FollowTypeOK'
  BY DEF FollowInv, FollowTypeOK, Layouts
<1> QED
  BY <1>1, <1>2 DEF FollowInv, Undecided, HasLine, AtNextLine

LEMMA EofStep ==
  ASSUME FollowInv, ReceiveEof
  PROVE  FollowInv' /\ Feed!Complete
<1> DEFINE n == Len(yielded) + 1
<1>1. /\ HasEvent /\ item.err = "nil" /\ item.evt.name = "eof" /\ sawEof'
      /\ fpc' = "done" /\ body' = "closed"
      /\ layout' = layout /\ emitted' = emitted /\ yielded' = yielded /\ left' = left
      /\ sawEof' \in BOOLEAN
  BY DEF ReceiveEof, LeaveScan, process
<1>2. Going
  BY <1>1, ReceivedPart
<1>3. /\ Status = "on" /\ ~left /\ emitted \in Nat /\ Len(yielded) \in Nat
  BY <1>2, FollowFacts
<1>4. n <= emitted /\ Names[n] = "eof"
  BY EofIsNext
<1>5. FollowInv'
  <2>1. left \in BOOLEAN
    BY DEF FollowInv, FollowTypeOK
  <2> QED
    BY <1>1, <2>1, Over
<1>6. Status' = "eof"
  <2>1. ~Failed
    BY <1>3 DEF Status
  <2>2. ~Failed'
    BY <1>1, <2>1 DEF Failed, Last
  <2> QED
    BY <1>1, <1>3, <2>2 DEF Status
<1>7. n \in 1 .. emitted
  BY <1>3, <1>4
<1> QED
  BY <1>1, <1>3, <1>4, <1>5, <1>6, <1>7 DEF Feed!Complete, Feed!IsNext

\* The loop goes on: an event of another name, or a line its consumer has taken.
LEMMA GoOnFacts ==
  ASSUME FollowInv, IgnoreEvent \/ ConsumerContinues
  PROVE  LET n == IF fpc = "line" THEN Len(yielded) ELSE Len(yielded) + 1 IN
         /\ Now(Process, n) /\ item.err = "nil"
         /\ spc = "yieldRecord" => Len(yielded) + 1 = n + 1
<1>1. fpc \in {"loop", "line"}
  BY DEF IgnoreEvent, ConsumerContinues, HasEvent
<1>2. /\ Process \in Services /\ Process.written = emitted /\ Process.names = Names
      /\ emitted \in Nat /\ emitted <= Len(Names) /\ Len(Names) \in Nat
      /\ Len(yielded) \in Nat
      /\ \A n \in 1 .. Len(Names) : Names[n] \in {"output", "eof"}
  BY <1>1, FollowFacts DEF Going
<1>3. CASE fpc = "line"
  BY <1>3 DEF FollowInv, AtNextLine, HasLine, Going
<1>4. CASE fpc = "loop"
  <2>1. IgnoreEvent
    BY <1>4 DEF ConsumerContinues
  <2>2. HasEvent /\ item.err = "nil" /\ item.evt.name \notin {"output", "eof"}
    BY <2>1 DEF IgnoreEvent
  <2>3. Now(Process, Len(yielded) + 1)
    BY <2>2, ReceivedPart
  <2>4. spc # "yieldRecord"
    <3>1. ASSUME spc = "yieldRecord"
          PROVE  /\ Len(yielded) + 1 <= emitted
                 /\ item.evt.name = Names[Len(yielded) + 1]
      <4>1. Len(yielded) + 1 <= emitted /\ item = Whole(Process, Len(yielded) + 1)
        BY <1>2, <2>3, <3>1 DEF Now, Scans
      <4> QED
        BY <1>2, <4>1 DEF Whole, Item, Ev
    <3>2. Len(yielded) + 1 <= emitted => Len(yielded) + 1 \in 1 .. Len(Names)
      BY <1>2
    <3> QED
      BY <1>2, <2>2, <3>1, <3>2
  <2> QED
    BY <1>4, <2>2, <2>3, <2>4
<1> QED
  BY <1>1, <1>3, <1>4

LEMMA GoOnStep ==
  ASSUME FollowInv, IgnoreEvent \/ ConsumerContinues
  PROVE  FollowInv' /\ UNCHANGED Feed!feedVars
<1>1. /\ Continue /\ layout' = layout /\ emitted' = emitted /\ yielded' = yielded
      /\ body' = body /\ sawEof' = sawEof /\ left' = left
      /\ fpc \in {"loop", "line"} /\ fpc' = "loop"
  BY DEF IgnoreEvent, ConsumerContinues, process,
     follower, HasEvent
<1>2. /\ Process \in Services /\ Process.written = emitted /\ Process.names = Names
      /\ emitted \in Nat /\ emitted <= Len(Names) /\ Len(Names) \in Nat
      /\ Len(yielded) \in Nat /\ Len(yielded) <= emitted
      /\ \A n \in 1 .. Len(Names) : Names[n] \in {"output", "eof"}
  BY <1>1, FollowFacts DEF Going
<1>3. Len(yielded) + 1 \in 1 .. Process.written + 1
  BY <1>2
<1>4. Then(Process, Len(yielded) + 1)
  BY <1>1, <1>2, <1>3, GoOnFacts, ContinueKeeps
<1>5. AtNextLine'
  <2>1. Process' = Process
    BY <1>1 DEF Process
  <2> QED
    BY <1>1, <1>4, <2>1 DEF AtNextLine, Now, Then
<1>6. FollowTypeOK'
  BY <1>1 DEF FollowInv, FollowTypeOK, Layouts
<1>7. Undecided' /\ HasLine' /\ fpc' # "error"
  BY <1>1 DEF FollowInv, Undecided, HasLine, Going
<1>8. Status' = Status
  BY <1>1 DEF Status, Failed, Last
<1> QED
  BY <1>1, <1>5, <1>6, <1>7, <1>8 DEF FollowInv, Feed!feedVars

LEMMA LeaveStep ==
  ASSUME FollowInv, ConsumerLeaves
  PROVE  FollowInv' /\ Feed!Leave
<1>1. /\ fpc = "line" /\ left' /\ left' \in BOOLEAN /\ fpc' = "done" /\ body' = "closed"
      /\ layout' = layout /\ emitted' = emitted /\ yielded' = yielded /\ sawEof' = sawEof
  BY DEF ConsumerLeaves, LeaveScan, process
<1>2. Status = "on" /\ yielded # <<>>
  <2>1. Status = "on"
    BY <1>1, FollowFacts DEF Going
  <2>2. Len(yielded) # 0
    BY <1>1, FollowFacts DEF FollowInv, HasLine
  <2> QED
    BY <2>1, <2>2
<1>3. FollowInv'
  <2>1. sawEof \in BOOLEAN
    BY DEF FollowInv, FollowTypeOK
  <2> QED
    BY <1>1, <2>1, Over
<1>4. Status' = "left"
  <2>1. ~Failed
    BY <1>2 DEF Status
  <2>2. ~Failed'
    BY <1>1, <2>1 DEF Failed, Last
  <2> QED
    BY <1>1, <2>2 DEF Status
<1> QED
  BY <1>1, <1>2, <1>3, <1>4 DEF Feed!Leave

LEMMA LoopEndsStep ==
  ASSUME FollowInv, ScanEnds
  PROVE  FollowInv' /\ Feed!Lose
<1>1. /\ fpc = "loop" /\ fpc' = "done" /\ body' = "closed"
      /\ layout' = layout /\ emitted' = emitted /\ yielded' = yielded
      /\ sawEof' = sawEof /\ left' = left
  BY DEF ScanEnds, process
<1>2. Status = "on" /\ ~left /\ ~sawEof
  BY <1>1, FollowFacts DEF Going
<1>3. FollowInv'
  <2>1. sawEof \in BOOLEAN /\ left \in BOOLEAN
    BY DEF FollowInv, FollowTypeOK
  <2> QED
    BY <1>1, <2>1, Over
<1>4. Status' = "lost"
  <2>1. ~Failed
    BY <1>2 DEF Status
  <2>2. ~Failed'
    BY <1>1, <2>1 DEF Failed, Last
  <2> QED
    BY <1>1, <1>2, <2>2 DEF Status
<1> QED
  BY <1>1, <1>2, <1>3, <1>4 DEF Feed!Lose

\* After an error, whatever the consumer answers.
LEMMA AfterErrorStep ==
  ASSUME FollowInv, AfterError
  PROVE  FollowInv' /\ UNCHANGED Feed!feedVars
<1>1. /\ fpc = "error" /\ fpc' = "done" /\ left' \in BOOLEAN
      /\ body' \in {body, "closed"}
      /\ layout' = layout /\ emitted' = emitted /\ yielded' = yielded /\ sawEof' = sawEof
  BY DEF AfterError, LeaveScan, process
<1>2. FollowInv'
  <2>1. sawEof \in BOOLEAN /\ body \in {"none", "open", "closed"}
    BY DEF FollowInv, FollowTypeOK
  <2> QED
    BY <1>1, <2>1, Over
<1>3. Failed /\ Failed'
  <2>1. Failed
    BY <1>1 DEF FollowInv
  <2> QED
    BY <1>1, <2>1 DEF Failed, Last
<1>4. Status = "error" /\ Status' = "error"
  BY <1>3 DEF Status
<1> QED
  BY <1>1, <1>2, <1>4 DEF Feed!feedVars

\* The connection is there, or nothing happens.
LEMMA OpenStep ==
  ASSUME FollowInv, Open \/ UNCHANGED followVars
  PROVE  FollowInv' /\ UNCHANGED Feed!feedVars
<1>1. /\ layout' = layout /\ emitted' = emitted /\ yielded' = yielded
      /\ sawEof' = sawEof /\ left' = left /\ item' = item
      /\ wire' = wire /\ ending' = ending /\ spc' = spc /\ evt' = evt /\ dataBuf' = dataBuf
      /\ \/ fpc' = fpc /\ body' = body
         \/ fpc = "open" /\ fpc' = "loop" /\ body' = "open"
  BY DEF Open, followVars, process, follower, scanVars,
     stream, decoder
<1>2. /\ Going' <=> Going
      /\ fpc' = "line" <=> fpc = "line"
      /\ fpc' = "error" <=> fpc = "error"
      /\ fpc' = "done" <=> fpc = "done"
  BY <1>1 DEF Going
<1>3. AtNextLine'
  <2>1. Process' = Process
    BY <1>1 DEF Process
  <2>2. ASSUME NEW n PROVE Now(Process, n) <=> Then(Process, n)
    BY <1>1 DEF Now, Then
  <2>3. AtNextLine
    BY DEF FollowInv
  <2> QED
    BY <1>1, <1>2, <2>1, <2>2, <2>3 DEF AtNextLine, Now, Then
<1>4. Undecided' /\ HasLine'
  BY <1>1, <1>2 DEF FollowInv, Undecided, HasLine, Yielding
<1>5. FollowTypeOK'
  BY <1>1 DEF FollowInv, FollowTypeOK, Layouts
<1>6. Failed' = Failed /\ Status' = Status
  BY <1>1, <1>2 DEF Failed, Last, Status
<1> QED
  BY <1>1, <1>2, <1>3, <1>4, <1>5, <1>6 DEF FollowInv, Feed!feedVars

LEMMA FollowNextInv ==
  ASSUME FollowInv, [FollowNext]_followVars
  PROVE  FollowInv' /\ [FeedStep]_(Feed!feedVars)
<1>1. CASE FollowScans \/ ProcessEmits \/ OutputEnds
  BY <1>1, FollowStreamStep
<1>2. CASE OpenFails \/ ReceiveError
  BY <1>2, FailStep DEF FeedStep
<1>3. CASE ReceiveOutput
  BY <1>3, OutputStep DEF FeedStep
<1>4. CASE ReceiveEof
  BY <1>4, EofStep DEF FeedStep
<1>5. CASE IgnoreEvent \/ ConsumerContinues
  BY <1>5, GoOnStep
<1>6. CASE ConsumerLeaves
  BY <1>6, LeaveStep DEF FeedStep
<1>7. CASE ScanEnds
  BY <1>7, LoopEndsStep DEF FeedStep
<1>8. CASE AfterError
  BY <1>8, AfterErrorStep
<1>9. CASE Open \/ UNCHANGED followVars
  BY <1>9, OpenStep
<1> QED
  BY <1>1, <1>2, <1>3, <1>4, <1>5, <1>6, <1>7, <1>8, <1>9
  DEF FollowNext, Iterator, FollowOver

\* The variables of the iteration keep their types, for any events and payloads.
THEOREM FollowTypeCorrect == FollowSpec => []FollowTypeOK
<1>1. FollowInit => FollowInv
  BY FollowInitInv
<1>2. FollowInv /\ [FollowNext]_followVars => FollowInv'
  BY FollowNextInv
<1>3. FollowInv => FollowTypeOK
  BY DEF FollowInv
<1> QED
  BY <1>1, <1>2, <1>3, PTL DEF FollowSpec

\* followProcessOutput keeps what LineFeed promises, for processes with any number
\* of events and any payloads, in either layout, wherever the stream is cut: the
\* lines come in order from the first one, each whole and once, one error at most
\* and nothing after it, the end of the process only after its last line
\* (sandbox_process_follow_output.go:43-70, iter.go:104-153).
THEOREM FollowImplementsLineFeed == FollowSpec => ImplementsLineFeed
<1>1. FollowInit => FollowInv /\ Feed!Init
  BY FollowInitInv
<1>2. FollowInv /\ [FollowNext]_followVars
        => FollowInv' /\ [FeedStep]_(Feed!feedVars)
  BY FollowNextInv
<1> QED
  BY <1>1, <1>2, PTL DEF FollowSpec, ImplementsLineFeed, Feed!Spec, FeedStep

\* An error of an open connection is one of a stream that has ended.
FailsEnded ==
  /\ fpc = "open" => body = "none"
  /\ Failed /\ body # "none" => ending # "open"

LEMMA FailsEndedNext ==
  ASSUME FollowInv, FailsEnded, [FollowNext]_followVars
  PROVE  FailsEnded'
<1>1. Going => ~Failed
  BY FollowFacts DEF Status
<1>2. FollowInv'
  BY FollowNextInv
<1>3. ASSUME yielded' = yielded, fpc' # "open" \/ (fpc' = fpc /\ body' = body),
             body' = body \/ body # "none" \/ Going,
             ending # "open" => ending' # "open"
      PROVE  FailsEnded'
  BY <1>1, <1>3 DEF FailsEnded, Failed, Last
<1>4. CASE FollowScans \/ ProcessEmits
  <2>1. FollowScans => ScanStep
    BY DEF FollowScans
  <2>2. ending' = ending
    BY <1>4, <2>1 DEF ProcessEmits, ScanStep, BlankLine, MalformedLine, FieldLine, DataLine,
       EndOfStream, FinalRecord, Scan, stream
  <2> QED
    BY <1>3, <1>4, <2>2 DEF FollowScans, ProcessEmits, follower
<1>5. CASE OutputEnds
  <2>1. ending' \in Endings
    BY <1>5 DEF OutputEnds, CutStream
  <2> QED
    BY <1>3, <1>5, <2>1 DEF OutputEnds, follower, Endings
<1>6. CASE OpenFails
  BY <1>6 DEF FailsEnded, OpenFails, Give
<1>7. CASE ReceiveError
  <2>1. /\ Going /\ Yielding /\ fpc = "loop" /\ fpc' = "error" /\ ending' = ending
    BY <1>7 DEF ReceiveError, HasEvent, Give, Going,
       scanVars, stream
  <2>2. Process \in Services /\ Now(Process, Len(yielded) + 1)
    BY <2>1, FollowFacts DEF FollowInv, AtNextLine
  <2>3. ending # "open"
    BY <1>7, <2>1, <2>2, YieldedWhole
    DEF ReceiveError, Decodable, Decodes
  <2> QED
    BY <2>1, <2>3 DEF FailsEnded
<1>8. CASE ReceiveOutput
  <2>1. fpc' = "line"
    BY <1>8 DEF ReceiveOutput, Give
  <2>2. Undecided' /\ HasLine' /\ Going'
    BY <1>2, <2>1 DEF FollowInv, Going
  <2>3. yielded'[Len(yielded')] # 0
    <3>1. Len(yielded') \in 1 .. emitted'
      BY <2>1, <2>2 DEF HasLine
    <3>2. Len(yielded') \in 1 .. Len(yielded')
      BY <3>1
    <3> QED
      BY <2>2, <3>2 DEF Undecided
  <2> QED
    BY <2>1, <2>3 DEF FailsEnded, Failed, Last
<1>9. CASE \/ Open \/ ReceiveEof \/ IgnoreEvent \/ ConsumerContinues
           \/ ConsumerLeaves \/ ScanEnds
  <2>1. Going /\ fpc' # "open" /\ yielded' = yielded
    BY <1>9 DEF Going, Open, ReceiveEof, IgnoreEvent, HasEvent,
       ConsumerContinues, ConsumerLeaves, ScanEnds, LeaveScan,
       follower
  <2>2. ending' = ending
    BY <1>9 DEF Open, ReceiveEof, IgnoreEvent, ConsumerContinues,
       ConsumerLeaves, ScanEnds, LeaveScan, Stop, Continue,
       scanVars, stream
  <2> QED
    BY <1>3, <2>1, <2>2
<1>10. CASE AfterError
  <2>1. fpc' = "done" /\ yielded' = yielded /\ ending' = ending
        /\ (body' = body \/ body # "none")
    BY <1>10 DEF AfterError, LeaveScan, Stop, scanVars, stream
  <2> QED
    BY <1>3, <2>1
<1>11. CASE UNCHANGED followVars
  BY <1>3, <1>11 DEF followVars, follower, scanVars, stream
<1> QED
  BY <1>4, <1>5, <1>6, <1>7, <1>8, <1>9, <1>10, <1>11
  DEF FollowNext, Iterator, FollowOver

\* While the stream goes on the consumer gets no error, however the service lays
\* out its events (sandbox_process_follow_output.go:43-70, iter.go:98-153).
THEOREM NoErrorInventedOfProcess == FollowSpec => [](Failed /\ body # "none" => ending # "open")
<1>1. FollowInit => FollowInv /\ FailsEnded
  <2>1. FollowInit => fpc = "open" /\ body = "none"
    BY DEF FollowInit
  <2> QED
    BY <2>1, FollowInitInv DEF FailsEnded
<1>2. FollowInv /\ FailsEnded /\ [FollowNext]_followVars => FollowInv' /\ FailsEnded'
  BY FollowNextInv, FailsEndedNext
<1>3. FailsEnded => (Failed /\ body # "none" => ending # "open")
  BY DEF FailsEnded
<1> QED
  BY <1>1, <1>2, <1>3, PTL DEF FollowSpec

\* How many steps an iteration can still take once its stream has ended.
IterLeft == CASE fpc = "line"  -> 2 * ScanLeft + 2
              [] fpc = "loop"  -> 2 * ScanLeft + 3
              [] fpc = "error" -> 1
              [] fpc \in {"open", "done"} -> 0

\* No iteration stays behind the end of its stream while its consumer answers:
\* every step it takes there brings its end nearer, and its body is closed by the
\* last one (sandbox_process_follow_output.go:43-75, iter.go:104-154).
THEOREM IterationEndIsBounded ==
  FollowSpec =>
    [][ending # "open" => IterLeft' \in Nat /\ IterLeft' < IterLeft]_followVars
<1> DEFINE Bounded == ending # "open" => IterLeft' \in Nat /\ IterLeft' < IterLeft
           Opened == /\ body = "none" => ending = "open"
                     /\ fpc = "open" => body = "none"
<1>1. FollowInit => FollowInv /\ Opened
  BY FollowInitInv DEF FollowInit, ScanInit
<1>2. FollowInv /\ Opened /\ [FollowNext]_followVars => Opened' /\ [Bounded]_followVars
  <2> SUFFICES ASSUME FollowInv, Opened, [FollowNext]_followVars
               PROVE  Opened' /\ [Bounded]_followVars
    OBVIOUS
  <2>1. fpc \in {"loop", "line"} => wire \in Seq(Carried)
    BY DEF FollowInv, AtNextLine, Going, Now, Scans
  <2>2. CASE FollowScans
    <3>1. fpc = "loop" /\ fpc' = fpc /\ body' = body /\ ScanStep
      BY <2>2 DEF FollowScans, follower
    <3> QED
      BY <2>1, <3>1, ScanAdvances DEF IterLeft
  <2>3. CASE IgnoreEvent
    <3>1. fpc = "loop" /\ fpc' = fpc /\ body' = body /\ Continue
      BY <2>3 DEF IgnoreEvent, HasEvent, follower
    <3> QED
      BY <2>1, <3>1, ScanAdvances DEF IterLeft
  <2>4. CASE ConsumerContinues
    <3>1. fpc = "line" /\ fpc' = "loop" /\ body' = body /\ Continue
      BY <2>4 DEF ConsumerContinues
    <3> QED
      BY <2>1, <3>1, ScanAdvances DEF IterLeft
  <2>5. CASE ReceiveOutput \/ ReceiveError
    <3>1. /\ fpc = "loop" /\ fpc' \in {"line", "error"} /\ body' = body /\ ending' = ending
          /\ Yielding /\ spc' = spc /\ wire' = wire
      BY <2>5 DEF ReceiveOutput, ReceiveError, HasEvent, Give, scanVars, stream
    <3>2. ScanLeft \in Nat /\ ScanLeft' = ScanLeft
      <4>1. Len(wire) \in Nat
        BY <2>1, <3>1, LenProperties
      <4> QED
        BY <3>1, <4>1 DEF ScanLeft, Yielding
    <3> QED
      BY <3>1, <3>2 DEF IterLeft
  <2>6. CASE ReceiveEof \/ ConsumerLeaves
    <3>1. fpc \in {"loop", "line"} /\ fpc' = "done" /\ body' = "closed" /\ Stop
      BY <2>6 DEF ReceiveEof, ConsumerLeaves, HasEvent, LeaveScan
    <3> QED
      BY <2>1, <3>1, ScanAdvances DEF IterLeft
  <2>7. CASE AfterError
    <3>1. fpc = "error" /\ fpc' = "done" /\ ending' = ending /\ body' \in {body, "closed"}
      BY <2>7 DEF AfterError, LeaveScan, Stop, scanVars, stream
    <3> QED
      BY <3>1 DEF IterLeft
  <2>8. CASE ScanEnds
    <3>1. fpc = "loop" /\ spc = "done" /\ fpc' = "done" /\ body' = "closed"
      BY <2>8 DEF ScanEnds
    <3> QED
      BY <3>1 DEF IterLeft, ScanLeft
  <2>9. CASE ProcessEmits \/ OutputEnds
    <3>1. ending = "open" /\ body = "open" /\ body' = body /\ fpc' = fpc
      BY <2>9 DEF ProcessEmits, OutputEnds, CutStream, follower
    <3> QED
      BY <3>1
  <2>10. CASE OpenFails \/ Open
    <3>1. /\ fpc = "open" /\ fpc' \in {"error", "loop"} /\ ending' = ending
          /\ body' \in {body, "open"}
      BY <2>10 DEF OpenFails, Open, Give, scanVars, stream
    <3> QED
      BY <3>1
  <2>11. CASE UNCHANGED followVars
    BY <2>11 DEF followVars, follower, scanVars, stream
  <2> QED
    BY <2>2, <2>3, <2>4, <2>5, <2>6, <2>7, <2>8, <2>9, <2>10, <2>11
    DEF FollowNext, Iterator, FollowOver
<1>3. FollowInv /\ [FollowNext]_followVars => FollowInv'
  BY FollowNextInv
<1> HIDE DEF Bounded, Opened
<1>4. FollowSpec => [][Bounded]_followVars
  BY <1>1, <1>2, <1>3, PTL DEF FollowSpec
<1> QED
  BY <1>4 DEF Bounded

\* The iteration that ends with neither eof nor an error, though its consumer has
\* not left: the stream was cut, but so that it ended cleanly behind the last line
\* read.  A broken connection, a line too long and a context that ended are
\* reported (sandbox_process_follow_output.go:57-75, iter.go:141-154).
THEOREM LostEofIsOfCleanEnd ==
  FollowSpec => [](fpc = "done" /\ ~left /\ ~sawEof /\ ~Failed => AtEof)
<1> DEFINE Silent == fpc = "done" /\ ~left /\ ~sawEof /\ ~Failed => AtEof
           Clean == fpc \in {"loop", "line"} => (Passing => AtEof)
           Fresh == fpc = "open" => spc = "scan"
<1>1. FollowInit => FollowInv /\ Silent /\ Clean /\ Fresh
  BY FollowInitInv DEF FollowInit, ScanInit
<1>2. FollowInv /\ Silent /\ Clean /\ Fresh /\ [FollowNext]_followVars
        => Silent' /\ Clean' /\ Fresh'
  <2> SUFFICES ASSUME FollowInv, Silent, Clean, Fresh, [FollowNext]_followVars
               PROVE  Silent' /\ Clean' /\ Fresh'
    OBVIOUS
  <2>1. CASE FollowScans
    <3>1. fpc = "loop" /\ fpc' = fpc /\ ScanStep
      BY <2>1 DEF FollowScans, follower
    <3> QED
      BY <3>1, ScanPasses
  <2>2. CASE IgnoreEvent \/ ConsumerContinues
    <3>1. fpc \in {"loop", "line"} /\ fpc' = "loop" /\ Continue /\ item.err = "nil"
      BY <2>2 DEF IgnoreEvent, ConsumerContinues, HasEvent, follower, FollowInv, HasLine
    <3>2. \E n : Now(Process, n)
      BY <3>1 DEF FollowInv, AtNextLine, Going
    <3> QED
      BY <3>1, <3>2, ContinuePasses
  <2>3. CASE ReceiveOutput \/ ReceiveError
    <3>1. /\ fpc = "loop" /\ fpc' \in {"line", "error"}
          /\ UNCHANGED <<wire, ending, spc, item>>
      BY <2>3 DEF ReceiveOutput, ReceiveError, HasEvent, Give, scanVars, stream
    <3> QED
      BY <3>1 DEF Passing, AtEof
  <2>4. CASE ReceiveEof \/ ConsumerLeaves
    <3>1. fpc' = "done" /\ (sawEof' \/ left')
      BY <2>4 DEF ReceiveEof, ConsumerLeaves, LeaveScan
    <3> QED
      BY <3>1
  <2>5. CASE AfterError
    <3>1. fpc' = "done" /\ Failed /\ yielded' = yielded
      BY <2>5 DEF AfterError, LeaveScan, FollowInv
    <3> QED
      BY <3>1 DEF Failed, Last
  <2>6. CASE ScanEnds
    <3>1. fpc = "loop" /\ spc = "done" /\ fpc' = "done" /\ wire' = wire /\ ending' = ending
      BY <2>6 DEF ScanEnds, scanVars, stream
    <3> QED
      BY <3>1 DEF Passing, AtEof
  <2>7. CASE ProcessEmits \/ OutputEnds
    <3>1. ending = "open" /\ UNCHANGED <<fpc, spc, item, yielded, sawEof, left>>
      BY <2>7 DEF ProcessEmits, OutputEnds, CutStream, follower
    <3> QED
      BY <3>1 DEF Passing, AtEof, Failed, Last
  <2>8. CASE OpenFails \/ Open
    <3>1. fpc = "open" /\ fpc' \in {"error", "loop"} /\ spc' = spc
      BY <2>8 DEF OpenFails, Open, Give, scanVars
    <3> QED
      BY <3>1 DEF Passing
  <2>9. CASE UNCHANGED followVars
    BY <2>9 DEF followVars, follower, scanVars, stream, Passing, AtEof, Failed, Last
  <2> QED
    BY <2>1, <2>2, <2>3, <2>4, <2>5, <2>6, <2>7, <2>8, <2>9
    DEF FollowNext, Iterator, FollowOver
<1>3. FollowInv /\ [FollowNext]_followVars => FollowInv'
  BY FollowNextInv
<1>4. Silent => (fpc = "done" /\ ~left /\ ~sawEof /\ ~Failed => AtEof)
  OBVIOUS
<1> HIDE DEF Silent, Clean, Fresh
<1> QED
  BY <1>1, <1>2, <1>3, <1>4, PTL DEF FollowSpec

\* Every event of a process that ends was written and every line of them read.
AllRead == read = text /\ Names # <<>> /\ emitted = Len(Names) /\ Names[Len(Names)] = "eof"
WholeFeed == sawEof /\ yielded = [n \in 1 .. Len(Names) - 1 |-> n]

\* While the iteration goes on the account of the stream is kept, and its consumer
\* has the lines so far, by their numbers; nothing is written to no body.
Received ==
  Going => /\ NowAll(Process, IF fpc = "line" THEN Len(yielded) ELSE Len(yielded) + 1)
           /\ \A i \in 1 .. Len(yielded) : yielded[i] = i /\ Names[i] = "output"
FollowedInv ==
  /\ Received
  /\ body = "none" => emitted = 0
  /\ fpc = "error" => ~AllRead
  /\ fpc = "done" => body # "open" /\ (~left /\ AllRead => WholeFeed)

LEMMA FollowedInit ==
  ASSUME FollowInit
  PROVE  FollowedInv
<1>1. /\ ScanInit /\ layout \in Layouts /\ emitted = 0 /\ text = <<>> /\ fpc = "open"
      /\ body = "none" /\ yielded = <<>>
  BY DEF FollowInit
<1>2. Len(Names) \in Nat /\ Len(yielded) = 0
  BY <1>1, LenProperties, NamesAssumption
<1>3. Process \in Services /\ Process.written = 0
  <2>1. emitted \in 0 .. Len(Names)
    BY <1>1, <1>2
  <2> QED
    BY <1>1, <2>1, ProcessType
<1>4. NowAll(Process, 1)
  BY <1>1, <1>3, AccountsInit
<1> QED
  BY <1>1, <1>2, <1>4 DEF FollowedInv, Received

LEMMA FollowedStream ==
  ASSUME FollowInv, FailsEnded, FollowedInv,
         FollowScans \/ ProcessEmits \/ OutputEnds
  PROVE  FollowedInv'
<1> DEFINE n == IF fpc = "line" THEN Len(yielded) ELSE Len(yielded) + 1
<1>1. /\ layout' = layout /\ fpc' = fpc /\ body' = body /\ yielded' = yielded
      /\ sawEof' = sawEof /\ left' = left
  BY DEF FollowScans, ProcessEmits, OutputEnds, process, follower
<1>2. Going
  <2>1. CASE FollowScans
    BY <2>1 DEF FollowScans, Going
  <2>2. CASE ProcessEmits \/ OutputEnds
    <3>1. body = "open" /\ ending = "open"
      BY <2>2 DEF ProcessEmits, OutputEnds, CutStream
    <3>2. fpc # "done"
      BY <3>1 DEF FollowedInv
    <3>3. fpc # "error"
      BY <3>1 DEF FollowInv, FailsEnded
    <3> QED
      BY <3>2, <3>3 DEF FollowInv, FollowTypeOK, Going
  <2> QED
    BY <2>1, <2>2
<1>3. /\ Process \in Services /\ Process.written = emitted /\ Process.names = Names
      /\ Process.layout = layout /\ emitted \in Nat /\ Len(Names) \in Nat
  BY FollowFacts
<1>4. Now(Process, n)
  BY <1>2 DEF FollowInv, AtNextLine
<1>5. /\ NowAll(Process, n)
      /\ \A i \in 1 .. Len(yielded) : yielded[i] = i /\ Names[i] = "output"
  BY <1>2 DEF FollowedInv, Received
<1>6. n' = n /\ fpc' \notin {"error", "done"}
  BY <1>1, <1>2 DEF Going
<1> HIDE DEF n
<1>7. ASSUME ThenAll(Process', n), body' = "none" => emitted' = 0
      PROVE  FollowedInv'
  <2>1. NowAll(Process, n)'
    BY <1>6, <1>7 DEF NowAll, ThenAll
  <2>2. Received'
    BY <1>1, <1>5, <2>1 DEF Received, n
  <2> QED
    BY <1>6, <1>7, <2>2 DEF FollowedInv
<1>8. CASE FollowScans \/ OutputEnds
  <2>1. emitted' = emitted /\ text' = text /\ (ScanStep \/ CutStream)
    BY <1>8 DEF FollowScans, OutputEnds, process
  <2>2. ThenAll(Process, n)
    BY <1>3, <1>4, <1>5, <2>1, ScanAccounts, CutAccounts
  <2>3. Process' = Process
    BY <1>1, <2>1 DEF Process
  <2>4. body' = "none" => emitted' = 0
    BY <1>1, <2>1 DEF FollowedInv
  <2> QED
    BY <1>7, <2>2, <2>3, <2>4
<1>9. CASE ProcessEmits
  <2> DEFINE new == Process'
  <2>1. /\ new \in Services /\ new.layout = Process.layout
        /\ new.written = Process.written + 1
        /\ \A m \in 1 .. Process.written : new.names[m] = Process.names[m]
        /\ wire' = wire \o Written(new.layout, new.names[new.written], new.written)
        /\ text' = text \o Written(new.layout, new.names[new.written], new.written)
        /\ ending = "open" /\ UNCHANGED <<ending, spc, decoder, item>> /\ read' = read
    BY <1>9, ProcessWrites
  <2>2. ThenAll(Process', n)
    BY <1>3, <1>4, <1>5, <2>1, WriteAccounts
  <2>3. body' # "none"
    BY <1>1, <1>9 DEF ProcessEmits
  <2> QED
    BY <1>7, <2>2, <2>3
<1> QED
  BY <1>8, <1>9

\* The iteration gives up without eof only when something is missing.
LEMMA SomethingIsMissing ==
  ASSUME FollowInv, FollowedInv, fpc = "loop",
         \/ Yielding /\ (item.err # "nil" \/ (item.evt.name = "output" /\ ~Decodable(item.evt)))
         \/ spc = "done"
  PROVE  ~AllRead
<1> SUFFICES ASSUME AllRead PROVE FALSE
  OBVIOUS
<1> DEFINE n == Len(yielded) + 1
<1>1. /\ Process \in Services /\ Process.written = emitted /\ Process.names = Names
      /\ emitted \in Nat /\ Len(Names) \in Nat /\ emitted <= Len(Names) /\ Len(yielded) \in Nat
      /\ Len(Names) = Len(Payloads) /\ DOMAIN Payloads = 1 .. Len(Payloads)
  BY FollowFacts
<1>2. Now(Process, n)
  BY DEF FollowInv, AtNextLine, Going
<1>3. /\ NowAll(Process, n)
      /\ \A i \in 1 .. Len(yielded) : yielded[i] = i /\ Names[i] = "output"
  BY DEF FollowedInv, Received, Going
<1> HIDE DEF n
<1>4. Lossless(Process, n, wire, spc, evt, dataBuf)
  <2> DEFINE r == Len(read)
             w == Len(wire)
  <2>1. /\ r \in Nat /\ w \in Nat /\ r + w <= r
        /\ r + w = r => Lossless(Process, n, wire, spc, evt, dataBuf)
    <3>1. read \in Seq(Carried) /\ wire \in Seq(Carried) /\ read = text
      BY <1>2, <1>3 DEF NowAll, Accounts, Now, Scans, AllRead
    <3> QED
      BY <1>3, <3>1, LenProperties DEF NowAll, Accounts
  <2> HIDE DEF r, w
  <2> QED
    BY <2>1
<1>5. CASE spc = "yieldRecord"
  <2>1. n \in 1 .. emitted + 1 /\ n <= emitted /\ item = Whole(Process, n)
    BY <1>1, <1>2, <1>5 DEF Now, Scans
  <2>2. item.err = "nil" /\ item.evt.data = Payloads[n]
    BY <2>1 DEF Whole, Item, Ev
  <2>3. n \in DOMAIN Payloads
    BY <1>1, <2>1
  <2>4. Decodable(item.evt)
    BY <2>2, <2>3 DEF Decodable, Decodes
  <2> QED
    BY <1>5, <2>2, <2>4
<1>6. CASE spc # "yieldRecord"
  <2>1. n = emitted + 1
    BY <1>1, <1>4, <1>6 DEF Lossless, Yielding
  <2>2. Len(yielded) = Len(Names) /\ Len(Names) \in 1 .. Len(yielded)
    <3>1. Len(Names) # 0
      BY EmptySeq, NamesAssumption DEF AllRead
    <3>2. emitted = Len(Names)
      BY DEF AllRead
    <3> QED
      BY <1>1, <2>1, <3>1, <3>2 DEF n
  <2>3. Names[Len(Names)] = "output"
    BY <1>3, <2>2
  <2> QED
    BY <2>3 DEF AllRead
<1> QED
  BY <1>5, <1>6

LEMMA FollowedNext ==
  ASSUME FollowInv, FailsEnded, FollowedInv,
         [FollowNext]_followVars
  PROVE  FollowedInv'
<1>1. /\ Process \in Services /\ Process.written = emitted /\ Process.names = Names
      /\ emitted \in Nat /\ Len(Names) \in Nat /\ emitted <= Len(Names)
      /\ Len(yielded) \in Nat /\ yielded \in Seq(Nat) /\ yielded \in Seq(0 .. Len(Names))
  BY FollowFacts
<1>0. ASSUME fpc' \in {"loop", "line"}, body' = "none" => emitted' = 0,
             ThenAll(Process', IF fpc' = "line" THEN Len(yielded') ELSE Len(yielded') + 1),
             \A i \in 1 .. Len(yielded') : yielded'[i] = i /\ Names[i] = "output"
      PROVE  FollowedInv'
  BY <1>0 DEF FollowedInv, Received, NowAll, ThenAll
<1>10. ASSUME fpc' = "done", body' # "open", body' = "none" => emitted' = 0,
              left' \/ ~AllRead' \/ WholeFeed'
       PROVE  FollowedInv'
  BY <1>10 DEF FollowedInv, Received, Going
<1>2. CASE FollowScans \/ ProcessEmits \/ OutputEnds
  BY <1>2, FollowedStream
<1>3. CASE OpenFails
  <2>1. /\ fpc = "open" /\ fpc' = "error" /\ body' = body /\ emitted' = emitted
    BY <1>3 DEF OpenFails, Give, process
  <2>2. emitted = 0 /\ body = "none"
    BY <2>1 DEF FollowedInv, FailsEnded
  <2>3. ~AllRead'
    BY <1>1, <2>1, <2>2, EmptySeq, NamesAssumption DEF AllRead
  <2> QED
    BY <2>1, <2>2, <2>3 DEF FollowedInv, Received, Going
<1>4. CASE ReceiveError
  <2>1. /\ fpc = "loop" /\ fpc' = "error" /\ body' = body /\ emitted' = emitted
        /\ read' = read /\ text' = text
        /\ Yielding
    BY <1>4 DEF ReceiveError, HasEvent, Give, process,
       scanVars, history
  <2>4. item.err # "nil" \/ (item.evt.name = "output" /\ ~Decodable(item.evt))
    BY <1>4 DEF ReceiveError
  <2>2. ~AllRead
    BY <2>1, <2>4, SomethingIsMissing
  <2>3. ~AllRead'
    BY <2>1, <2>2 DEF AllRead
  <2> QED
    BY <2>1, <2>3 DEF FollowedInv, Received, Going
<1>5. CASE ReceiveEof
  <2>1. /\ sawEof' /\ fpc' = "done" /\ body' = "closed" /\ yielded' = yielded /\ Going
    BY <1>5 DEF ReceiveEof, LeaveScan, HasEvent, Going
  <2>2. Len(yielded) + 1 <= emitted /\ Names[Len(yielded) + 1] = "eof"
    BY <1>5, EofIsNext
  <2>3. Len(yielded) + 1 = Len(Names)
    <3>1. Len(yielded) + 1 \in DOMAIN Names
      <4>1. DOMAIN Names = 1 .. Len(Names)
        BY LenProperties, NamesAssumption
      <4> QED
        BY <1>1, <2>2, <4>1
    <3> QED
      BY <2>2, <3>1, NamesAssumption
  <2>4. \A i \in 1 .. Len(yielded) : yielded[i] = i
    BY <2>1 DEF FollowedInv, Received
  <2>5. yielded = [n \in 1 .. Len(Names) - 1 |-> n]
    <3>1. Len(Names) - 1 = Len(yielded)
      BY <1>1, <2>3
    <3>2. yielded = [n \in 1 .. Len(yielded) |-> yielded[n]]
      BY <1>1, SeqDef
    <3> QED
      BY <2>4, <3>1, <3>2
  <2>6. WholeFeed'
    BY <2>1, <2>5 DEF WholeFeed
  <2> QED
    BY <1>10, <2>1, <2>6
<1>6. CASE ReceiveOutput
  <2> DEFINE n == Len(yielded) + 1
  <2>1. Give(n, "line") /\ n <= emitted /\ Names[n] = "output"
    BY <1>6, OutputIsNext
  <2>2. /\ fpc = "loop" /\ fpc' = "line" /\ yielded' = Append(yielded, n) /\ body' = body
        /\ layout' = layout /\ emitted' = emitted /\ text' = text
        /\ wire' = wire /\ ending' = ending /\ spc' = spc /\ evt' = evt /\ dataBuf' = dataBuf
        /\ read' = read
    BY <1>6, <2>1 DEF ReceiveOutput, HasEvent, Give, process,
       scanVars, stream, decoder, history
  <2>3. /\ NowAll(Process, n)
        /\ \A i \in 1 .. Len(yielded) : yielded[i] = i /\ Names[i] = "output"
    BY <2>2 DEF FollowedInv, Received, Going
  <2>4. /\ Len(yielded') = n /\ yielded'[n] = n
        /\ \A i \in 1 .. Len(yielded) : yielded'[i] = yielded[i]
    <3>1. n \in Nat
      BY <1>1
    <3> QED
      BY <1>1, <2>2, <3>1, AppendProperties
  <2>5. ThenAll(Process', n)
    <3>1. Process' = Process
      BY <2>2 DEF Process
    <3> QED
      BY <2>2, <2>3, <3>1 DEF NowAll, ThenAll
  <2>6. \A i \in 1 .. Len(yielded') : yielded'[i] = i /\ Names[i] = "output"
    <3>1. \A i \in 1 .. n : i \in 1 .. Len(yielded) \/ i = n
      BY <1>1
    <3> HIDE DEF n
    <3> QED
      BY <2>1, <2>3, <2>4, <3>1
  <2>7. body' = "none" => emitted' = 0
    BY <2>2 DEF FollowedInv
  <2> HIDE DEF n
  <2> QED
    BY <1>0, <2>2, <2>4, <2>5, <2>6, <2>7
<1>7. CASE IgnoreEvent \/ ConsumerContinues
  <2> DEFINE n == IF fpc = "line" THEN Len(yielded) ELSE Len(yielded) + 1
  <2>1. /\ Continue /\ fpc \in {"loop", "line"} /\ fpc' = "loop" /\ body' = body
        /\ layout' = layout /\ emitted' = emitted /\ yielded' = yielded /\ text' = text
    BY <1>7 DEF IgnoreEvent, ConsumerContinues, process,
       follower, HasEvent
  <2>2. /\ NowAll(Process, n)
        /\ \A i \in 1 .. Len(yielded) : yielded[i] = i /\ Names[i] = "output"
    BY <2>1 DEF FollowedInv, Received, Going
  <2>3. /\ Now(Process, n) /\ item.err = "nil"
        /\ spc = "yieldRecord" => Len(yielded) + 1 = n + 1
    BY <1>7, GoOnFacts
  <2> HIDE DEF n
  <2>4. Len(yielded) + 1 \in 1 .. Process.written + 1
    <3>1. Len(yielded) <= emitted
      BY <2>1, FollowFacts DEF Going
    <3> QED
      BY <1>1, <3>1
  <2>5. ThenAll(Process, Len(yielded) + 1)
    BY <1>1, <2>1, <2>2, <2>3, <2>4, ContinueAccounts
  <2>6. Process' = Process
    BY <2>1 DEF Process
  <2>7. body' = "none" => emitted' = 0
    BY <2>1 DEF FollowedInv
  <2> QED
    BY <1>0, <2>1, <2>2, <2>5, <2>6, <2>7
<1>8. CASE ConsumerLeaves
  <2>1. left' /\ fpc' = "done" /\ body' = "closed"
    BY <1>8 DEF ConsumerLeaves, LeaveScan
  <2> QED
    BY <1>10, <2>1
<1>9. CASE ScanEnds
  <2>1. /\ fpc = "loop" /\ spc = "done" /\ fpc' = "done" /\ body' = "closed"
        /\ emitted' = emitted /\ read' = read /\ text' = text
    BY <1>9 DEF ScanEnds, process, scanVars, history
  <2>2. ~AllRead'
    BY <2>1, SomethingIsMissing DEF AllRead
  <2> QED
    BY <1>10, <2>1, <2>2
<1>11. CASE AfterError
  <2>1. /\ fpc = "error" /\ fpc' = "done" /\ body' # "open" /\ emitted' = emitted
        /\ read' = read /\ text' = text
        /\ body' = "none" => body = "none"
    BY <1>11 DEF AfterError, LeaveScan, process, scanVars,
       history, Stop
  <2>2. ~AllRead'
    BY <2>1 DEF FollowedInv, AllRead
  <2>3. body' = "none" => emitted' = 0
    BY <2>1 DEF FollowedInv
  <2> QED
    BY <1>10, <2>1, <2>2, <2>3
<1>12. CASE Open
  <2>1. /\ fpc = "open" /\ fpc' = "loop" /\ body' = "open" /\ yielded' = yielded
        /\ layout' = layout /\ emitted' = emitted /\ text' = text
        /\ wire' = wire /\ ending' = ending /\ spc' = spc /\ evt' = evt /\ dataBuf' = dataBuf
        /\ read' = read
    BY <1>12 DEF Open, process, scanVars, stream, decoder,
       history
  <2>2. /\ NowAll(Process, Len(yielded) + 1)
        /\ \A i \in 1 .. Len(yielded) : yielded[i] = i /\ Names[i] = "output"
    BY <2>1 DEF FollowedInv, Received, Going
  <2>3. Process' = Process
    BY <2>1 DEF Process
  <2>4. ThenAll(Process', Len(yielded) + 1)
    BY <2>1, <2>2, <2>3 DEF NowAll, ThenAll
  <2> QED
    BY <1>0, <2>1, <2>2, <2>4
<1>13. CASE UNCHANGED followVars
  <2>1. /\ fpc' = fpc /\ body' = body /\ yielded' = yielded /\ sawEof' = sawEof /\ left' = left
        /\ layout' = layout /\ emitted' = emitted /\ text' = text
        /\ wire' = wire /\ ending' = ending /\ spc' = spc /\ evt' = evt /\ dataBuf' = dataBuf
        /\ read' = read
    BY <1>13 DEF followVars, follower, process, scanVars, stream,
       decoder, history
  <2>2. Process' = Process
    BY <2>1 DEF Process
  <2>3. Received'
    BY <2>1, <2>2 DEF FollowedInv, Received, Going, NowAll
  <2> QED
    BY <2>1, <2>3 DEF FollowedInv, AllRead, WholeFeed
<1> QED
  BY <1>2, <1>3, <1>4, <1>5, <1>6, <1>7, <1>8, <1>9, <1>11, <1>12, <1>13
  DEF FollowNext, Iterator, FollowOver

\* While the iteration goes on, the blank lines read are those of the lines its
\* consumer has, of the event the scanner is at and of none behind it.
Followed ==
  \A n \in 1 .. emitted : ReadWhole(n) =>
    IF Names[n] = "eof" THEN sawEof ELSE n <= Len(yielded) /\ yielded[n] = n
FollowCounted ==
  /\ Going => NowCounted(Process, IF fpc = "line" THEN Len(yielded) ELSE Len(yielded) + 1)
  /\ fpc \in {"error", "done"} => Followed

LEMMA FollowCountedInit ==
  ASSUME FollowInit
  PROVE  FollowCounted
<1>1. ScanInit /\ layout \in Layouts /\ emitted = 0 /\ fpc = "open" /\ yielded = <<>>
  BY DEF FollowInit
<1>2. emitted \in 0 .. Len(Names) /\ Len(yielded) = 0
  BY <1>1, LenProperties, NamesAssumption
<1>3. Process \in Services /\ Process.written = 0
  BY <1>1, <1>2, ProcessType
<1>4. NowCounted(Process, 1)
  BY <1>1, <1>3, CountedInit
<1> QED
  BY <1>1, <1>2, <1>4 DEF FollowCounted

\* Where the scanner has yielded, only the event it is at can be missing.
LEMMA OneIsMissing ==
  ASSUME FollowInv, FollowedInv, FollowCounted, Going, spc # "scan",
         NEW n \in 1 .. emitted, ReadWhole(n)
  PROVE  /\ n <= Len(yielded) \/ (fpc # "line" /\ n = Len(yielded) + 1 /\ spc = "yieldRecord")
         /\ n <= Len(yielded) => Names[n] = "output" /\ yielded[n] = n
<1> DEFINE at == IF fpc = "line" THEN Len(yielded) ELSE Len(yielded) + 1
<1>1. /\ Process \in Services /\ Process.layout = layout /\ Len(yielded) \in Nat
      /\ emitted \in Nat
  BY FollowFacts
<1>2. /\ NowCounted(Process, at) /\ at \in Nat /\ n \in Nat
      /\ \A i \in 1 .. Len(yielded) : yielded[i] = i /\ Names[i] = "output"
  BY <1>1 DEF FollowCounted, FollowedInv, Received
<1> HIDE DEF at
<1>3. n <= at /\ (spc # "yieldRecord" => n < at)
  BY <1>1, <1>2, ReadBefore
<1>4. n <= Len(yielded) \/ (fpc # "line" /\ n = Len(yielded) + 1 /\ spc = "yieldRecord")
  BY <1>1, <1>2, <1>3 DEF at
<1>5. n <= Len(yielded) => n \in 1 .. Len(yielded)
  BY <1>1
<1> QED
  BY <1>2, <1>4, <1>5

LEMMA FollowCountedNext ==
  ASSUME FollowInv, FailsEnded, FollowedInv, FollowCounted, [FollowNext]_followVars
  PROVE  FollowCounted'
<1> DEFINE n == IF fpc = "line" THEN Len(yielded) ELSE Len(yielded) + 1
<1>1. /\ Process \in Services /\ Process.written = emitted /\ Process.names = Names
      /\ Process.layout = layout /\ emitted \in Nat /\ emitted <= Len(Names)
      /\ Len(Names) \in Nat /\ Len(yielded) \in Nat /\ yielded \in Seq(Nat)
  BY FollowFacts
<1>2. Going => Now(Process, n) /\ NowCounted(Process, n)
  BY DEF FollowInv, AtNextLine, FollowCounted
<1> HIDE DEF n
<1>3. ASSUME fpc' = fpc, yielded' = yielded, Going, ThenCounted(Process', n)
      PROVE  FollowCounted'
  <2>1. Going' /\ n' = n
    BY <1>3 DEF Going, n
  <2>2. NowCounted(Process, n)'
    BY <1>3, <2>1 DEF NowCounted, ThenCounted
  <2> QED
    BY <1>3, <2>1, <2>2 DEF FollowCounted, Going, n
\* The iteration is over or about to be, and the last event is accounted for.
<1>4. ASSUME fpc' \in {"error", "done"}, layout' = layout, emitted' = emitted, read' = read,
             \A m \in 1 .. emitted : ReadWhole(m) =>
               IF Names[m] = "eof" THEN sawEof' ELSE m <= Len(yielded') /\ yielded'[m] = m
      PROVE  FollowCounted'
  <2>1. \A m : ReadWhole(m)' <=> ReadWhole(m)
    BY <1>4 DEF ReadWhole
  <2> QED
    BY <1>4, <2>1 DEF FollowCounted, Followed, Going
<1>5. CASE FollowScans
  <2>1. /\ fpc = "loop" /\ fpc' = fpc /\ yielded' = yielded /\ ScanStep /\ Process' = Process
    BY <1>5 DEF FollowScans, process, follower, Process
  <2>2. ThenCounted(Process, n)
    BY <1>1, <1>2, <2>1, ScanCounts DEF Going
  <2> QED
    BY <1>3, <2>1, <2>2 DEF Going
<1>6. CASE ProcessEmits \/ OutputEnds
  <2>1. body = "open" /\ ending = "open" /\ fpc' = fpc /\ yielded' = yielded
    BY <1>6 DEF ProcessEmits, OutputEnds, CutStream, follower
  <2>2. Going
    BY <2>1 DEF FollowedInv, FollowInv, FollowTypeOK, FailsEnded, Going
  <2>3. CASE OutputEnds
    <3>1. CutStream /\ Process' = Process
      BY <2>3 DEF OutputEnds, process, Process
    <3>2. ThenCounted(Process, n)
      BY <1>1, <1>2, <2>2, <3>1, CutCounts
    <3> QED
      BY <1>3, <2>1, <2>2, <3>1, <3>2
  <2>4. CASE ProcessEmits
    <3> DEFINE new == Process'
    <3>1. /\ new \in Services /\ new.layout = Process.layout
          /\ new.written = Process.written + 1
          /\ \A m \in 1 .. Process.written : new.names[m] = Process.names[m]
          /\ wire' = wire \o Written(new.layout, new.names[new.written], new.written)
          /\ ending = "open" /\ UNCHANGED <<ending, spc, decoder, item>> /\ read' = read
      BY <2>4, ProcessWrites
    <3>2. ThenCounted(Process', n)
      BY <1>1, <1>2, <2>2, <3>1, WriteCounts
    <3> QED
      BY <1>3, <2>1, <2>2, <3>2
  <2> QED
    BY <1>6, <2>3, <2>4
<1>7. CASE OpenFails
  <2>1. fpc = "open" /\ fpc' = "error" /\ layout' = layout /\ emitted' = emitted /\ read' = read
    BY <1>7 DEF OpenFails, Give, process, scanVars, history
  <2>2. emitted = 0
    BY <2>1 DEF FollowedInv, FailsEnded
  <2>3. 1 .. emitted = {}
    BY <2>2
  <2> QED
    BY <1>4, <2>1, <2>3
<1>8. CASE Open
  <2>1. /\ fpc = "open" /\ fpc' = "loop" /\ yielded' = yielded
        /\ layout' = layout /\ emitted' = emitted
        /\ wire' = wire /\ ending' = ending /\ spc' = spc /\ evt' = evt /\ dataBuf' = dataBuf
        /\ read' = read
    BY <1>8 DEF Open, process, scanVars, stream, decoder, history
  <2>2. Going /\ Going' /\ n = Len(yielded) + 1 /\ Process' = Process
    BY <2>1 DEF Going, n, Process
  <2>3. NowCounted(Process, Len(yielded) + 1)'
    BY <1>2, <2>1, <2>2 DEF NowCounted
  <2> QED
    BY <2>1, <2>3 DEF FollowCounted
<1>9. CASE ReceiveError
  <2>1. /\ fpc = "loop" /\ fpc' = "error" /\ yielded' = Append(yielded, 0) /\ Yielding
        /\ layout' = layout /\ emitted' = emitted /\ read' = read
        /\ item.err # "nil" \/ ~Decodable(item.evt)
    BY <1>9 DEF ReceiveError, HasEvent, Give, process, scanVars, history
  <2>2. spc # "scan" /\ Going /\ n = Len(yielded) + 1
    BY <2>1 DEF Yielding, Going, n
  <2>3. spc # "yieldRecord"
    <3>1. ASSUME spc = "yieldRecord" PROVE FALSE
      <4>1. n <= emitted /\ n \in 1 .. emitted + 1 /\ item = Whole(Process, n)
        BY <1>1, <1>2, <2>2, <3>1 DEF Now, Scans
      <4>2. item.err = "nil" /\ item.evt.data = Payloads[n]
        BY <4>1 DEF Whole, Item, Ev
      <4>3. n \in DOMAIN Payloads
        <5>1. DOMAIN Payloads = 1 .. Len(Names)
          BY FollowFacts
        <5> QED
          BY <1>1, <4>1, <5>1
      <4> QED
        BY <2>1, <4>2, <4>3 DEF Decodable, Decodes
    <3> QED
      BY <3>1
  <2>4. ASSUME NEW m \in 1 .. emitted, ReadWhole(m)
        PROVE  Names[m] = "output" /\ m <= Len(yielded') /\ yielded'[m] = m
    <3>1. m <= Len(yielded) /\ Names[m] = "output" /\ yielded[m] = m
      BY <2>2, <2>3, <2>4, OneIsMissing
    <3>2. m \in 1 .. Len(yielded)
      BY <1>1, <3>1
    <3> QED
      BY <1>1, <2>1, <3>1, <3>2, AppendProperties
  <2> QED
    BY <1>4, <2>1, <2>4
<1>10. CASE ReceiveEof
  <2>1. /\ fpc = "loop" /\ fpc' = "done" /\ sawEof' /\ Yielding
        /\ layout' = layout /\ emitted' = emitted /\ yielded' = yielded /\ read' = read
    BY <1>10 DEF ReceiveEof, HasEvent, LeaveScan, Stop, process
  <2>2. Names[Len(yielded) + 1] = "eof"
    BY <1>10, EofIsNext
  <2>3. ASSUME NEW m \in 1 .. emitted, ReadWhole(m), Names[m] # "eof"
        PROVE  m <= Len(yielded') /\ yielded'[m] = m
    <3>1. spc # "scan" /\ Going
      BY <2>1 DEF Yielding, Going
    <3> QED
      BY <2>1, <2>2, <2>3, <3>1, OneIsMissing
  <2> QED
    BY <1>4, <2>1, <2>3
<1>11. CASE ReceiveOutput
  <2>1. yielded' = Append(yielded, Len(yielded) + 1)
    BY <1>11, OutputIsNext DEF Give
  <2>2. /\ fpc = "loop" /\ fpc' = "line" /\ layout' = layout /\ emitted' = emitted
        /\ wire' = wire /\ ending' = ending /\ spc' = spc /\ evt' = evt /\ dataBuf' = dataBuf
        /\ read' = read
    BY <1>11 DEF ReceiveOutput, HasEvent, Give, process, scanVars, stream, decoder, history
  <2>3. NowCounted(Process, Len(yielded) + 1)
    BY <1>2, <2>2 DEF Going, n
  <2>4. Len(yielded') = Len(yielded) + 1 /\ Process' = Process
    <3>1. Len(yielded) + 1 \in Nat
      BY <1>1
    <3> QED
      BY <1>1, <2>1, <2>2, <3>1, AppendProperties DEF Process
  <2>5. NowCounted(Process, Len(yielded))'
    BY <2>2, <2>3, <2>4 DEF NowCounted
  <2> QED
    BY <2>2, <2>5 DEF FollowCounted
<1>12. CASE IgnoreEvent \/ ConsumerContinues
  <2>1. /\ Continue /\ fpc \in {"loop", "line"} /\ fpc' = "loop"
        /\ layout' = layout /\ emitted' = emitted /\ yielded' = yielded
    BY <1>12 DEF IgnoreEvent, ConsumerContinues, HasEvent, process, follower
  <2>2. item.err = "nil" /\ (spc = "yieldRecord" => Len(yielded) + 1 = n + 1)
    BY <1>12, GoOnFacts DEF n
  <2>3. Len(yielded) + 1 \in 1 .. Process.written + 1 /\ n <= Len(yielded) + 1
    <3>1. Len(yielded) <= emitted
      BY <2>1, FollowFacts DEF Going
    <3> QED
      BY <1>1, <3>1 DEF n
  <2>4. ThenCounted(Process, Len(yielded) + 1)
    BY <1>1, <1>2, <2>1, <2>2, <2>3, ContinueCounts DEF Going
  <2>5. Process' = Process
    BY <2>1 DEF Process
  <2>6. NowCounted(Process, Len(yielded) + 1)'
    BY <2>1, <2>4, <2>5 DEF NowCounted, ThenCounted
  <2> QED
    BY <2>1, <2>6 DEF FollowCounted
<1>13. CASE ConsumerLeaves \/ ScanEnds
  <2>1. /\ fpc \in {"line", "loop"} /\ fpc' = "done" /\ yielded' = yielded
        /\ layout' = layout /\ emitted' = emitted /\ read' = read
        /\ fpc = "line" \/ spc = "done"
    BY <1>13 DEF ConsumerLeaves, ScanEnds, LeaveScan, Stop, process, scanVars, history
  <2>2. spc # "scan" /\ Going /\ (fpc = "line" \/ spc # "yieldRecord")
    <3>1. fpc = "line" => Yielding
      BY DEF FollowInv, HasLine
    <3> QED
      BY <2>1, <3>1 DEF Going, Yielding
  <2>3. \A m \in 1 .. emitted : ReadWhole(m) =>
          Names[m] = "output" /\ m <= Len(yielded) /\ yielded[m] = m
    BY <2>2, OneIsMissing
  <2> QED
    BY <1>4, <2>1, <2>3
<1>14. CASE AfterError
  <2>1. /\ fpc = "error" /\ fpc' = "done" /\ yielded' = yielded /\ sawEof' = sawEof
        /\ layout' = layout /\ emitted' = emitted /\ read' = read
    BY <1>14 DEF AfterError, LeaveScan, Stop, process, scanVars, history
  <2> QED
    BY <1>4, <2>1 DEF FollowCounted, Followed
<1>15. CASE UNCHANGED followVars
  <2>1. /\ fpc' = fpc /\ yielded' = yielded /\ sawEof' = sawEof
        /\ layout' = layout /\ emitted' = emitted
        /\ wire' = wire /\ ending' = ending /\ spc' = spc /\ evt' = evt /\ dataBuf' = dataBuf
        /\ read' = read
    BY <1>15 DEF followVars, follower, process, scanVars, stream, decoder, history
  <2>2. Process' = Process
    BY <2>1 DEF Process
  <2>3. CASE Going
    BY <1>2, <1>3, <2>1, <2>2, <2>3 DEF NowCounted, ThenCounted
  <2>4. CASE ~Going
    <3>1. fpc \in {"error", "done"}
      BY <2>4 DEF FollowInv, FollowTypeOK, Going
    <3> QED
      BY <1>4, <2>1, <3>1 DEF FollowCounted, Followed
  <2> QED
    BY <2>3, <2>4
<1> QED
  BY <1>5, <1>6, <1>7, <1>8, <1>9, <1>10, <1>11, <1>12, <1>13, <1>14, <1>15
  DEF FollowNext, Iterator, FollowOver

\* Every event that was read whole has reached the consumer.
LEMMA FollowedEvents ==
  ASSUME FollowInv, FailsEnded, FollowedInv, FollowCounted
  PROVE  EventsAreFollowed
<1>1. CASE fpc \in {"error", "done"}
  BY <1>1 DEF FollowCounted, Followed, EventsAreFollowed
<1>2. CASE fpc = "open"
  <2>1. emitted = 0
    BY <1>2 DEF FollowedInv, FailsEnded
  <2>2. 1 .. emitted = {}
    BY <2>1
  <2> QED
    BY <2>2 DEF EventsAreFollowed
<1>3. CASE fpc = "line"
  <2>1. spc # "scan" /\ Going
    BY <1>3 DEF FollowInv, HasLine, Yielding, Going
  <2>2. \A m \in 1 .. emitted : ReadWhole(m) =>
          Names[m] = "output" /\ m <= Len(yielded) /\ yielded[m] = m
    BY <1>3, <2>1, OneIsMissing
  <2> QED
    BY <2>2 DEF EventsAreFollowed
<1> QED
  BY <1>1, <1>2, <1>3 DEF FollowInv, FollowTypeOK, EventsAreFollowed

\* Nothing of a process that was read whole is lost, in whatever layout the events
\* came: when every line of a process that has ended was read, its consumer has
\* every output and then the end, wherever the stream breaks then; of a stream cut
\* anywhere, every event whose last line was read has reached the consumer,
\* whenever the iterator is not in its loop; and an error of an open connection is
\* one of a stream that has ended
\* (sandbox_process_follow_output.go:43-70, iter.go:98-153).
THEOREM WholeProcessFollowed == FollowSpec => []WholeStreamIsFollowed
<1> DEFINE inv == FollowInv /\ FailsEnded /\ FollowedInv /\ FollowCounted
<1>1. FollowInit => inv
  <2>1. FollowInit => fpc = "open" /\ body = "none"
    BY DEF FollowInit
  <2> QED
    BY <2>1, FollowInitInv, FollowedInit, FollowCountedInit DEF FailsEnded
<1>2. inv /\ [FollowNext]_followVars => inv'
  BY FollowNextInv, FailsEndedNext, FollowedNext, FollowCountedNext
<1>3. inv => WholeStreamIsFollowed
  BY FollowedEvents DEF WholeStreamIsFollowed, FailsEnded, FollowedInv,
     AllRead, WholeFeed, Last
<1> QED
  BY <1>1, <1>2, <1>3, PTL DEF FollowSpec
=============================================================================
