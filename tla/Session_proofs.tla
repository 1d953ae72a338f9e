--------------------------- MODULE Session_proofs ---------------------------
(***************************************************************************)
(* Proofs about Session, for every number of requests and launches: types, *)
(* that no process is left running unowned, that the session id never goes *)
(* back, the order of what every request yields, and that a wrong answer   *)
(* needs a watchdog.                                                       *)
(***************************************************************************)
EXTENDS Session, SequenceTheorems, TLAPS

-----------------------------------------------------------------------------
(* Sequences of events.                                                    *)

(* Every event of s comes before every event of t.                         *)
Precedes(s, t) ==
  \A i \in 1..Len(s), j \in 1..Len(t) : Before(s[i], t[j])

NoDelta(s) == \A i \in 1..Len(s) : s[i].kind # "delta"

Sorted(s) == \A i, j \in 1..Len(s) : i < j => Before(s[i], s[j])

(* What has been yielded, d, and what is still to come, from the pump's    *)
(* hand back to the process: held, buf, stdout and todo.                   *)
InOrder(d, h, b, s, t) ==
  /\ Sorted(d) /\ Sorted(h) /\ Sorted(b) /\ Sorted(s) /\ Sorted(t)
  /\ Precedes(d, h) /\ Precedes(d, b) /\ Precedes(d, s) /\ Precedes(d, t)
  /\ Precedes(h, b) /\ Precedes(h, s) /\ Precedes(h, t)
  /\ Precedes(b, s) /\ Precedes(b, t)
  /\ Precedes(s, t)

UpTo(s, n) == \A i \in 1..Len(s) : s[i].req <= n
From(s, n) == \A i \in 1..Len(s) : s[i].req >= n

(* What holds of p because it is made of events of s in the order of s.    *)
PartOf(p, s) ==
  /\ p \in Seq(Event)
  /\ Sorted(s) => Sorted(p)
  /\ \A t \in Seq(Event) : /\ Precedes(s, t) => Precedes(p, t)
                           /\ Precedes(t, s) => Precedes(t, p)
  /\ \A k \in Int : /\ UpTo(s, k) => UpTo(p, k)
                    /\ From(s, k) => From(p, k)

-----------------------------------------------------------------------------
(* The empty sequence is in order with everything.                         *)
LEMMA OfNothing ==
  /\ Sorted(<<>>)
  /\ \A t : Precedes(<<>>, t) /\ Precedes(t, <<>>)
  /\ \A n : UpTo(<<>>, n) /\ From(<<>>, n)
BY DEF Sorted, Precedes, UpTo, From

(* A part of a sequence keeps its place and its order.                     *)
LEMMA OfPart ==
  ASSUME NEW s \in Seq(Event), NEW m \in Nat \ {0}, NEW n \in 0..Len(s)
  PROVE  PartOf(SubSeq(s, m, n), s)
<1> DEFINE p == SubSeq(s, m, n)
<1>1. Len(s) \in Nat
  BY LenProperties
<1>2. \A i \in m..n : s[i] \in Event
  BY <1>1, ElementOfSeq
<1>3. /\ p \in Seq(Event)
      /\ Len(p) = IF m <= n THEN n - m + 1 ELSE 0
      /\ \A i \in 1..(n - m + 1) : p[i] = s[m + i - 1]
  <2>1. m \in Int /\ n \in Int
    BY <1>1
  <2> QED BY <1>2, <2>1, SubSeqProperties
<1> HIDE DEF p
<1>4. \A i \in 1..Len(p) : m + i - 1 \in 1..Len(s) /\ p[i] = s[m + i - 1]
  BY <1>1, <1>3
<1>5. Sorted(s) => Sorted(p)
  <2> SUFFICES ASSUME Sorted(s), NEW i \in 1..Len(p), NEW j \in 1..Len(p), i < j
               PROVE  Before(p[i], p[j])
    BY DEF Sorted
  <2>1. m + i - 1 < m + j - 1
    BY <1>1, <1>3
  <2> QED BY <1>4, <2>1 DEF Sorted
<1>6. ASSUME NEW t \in Seq(Event)
      PROVE  /\ Precedes(s, t) => Precedes(p, t)
             /\ Precedes(t, s) => Precedes(t, p)
  BY <1>4 DEF Precedes
<1>7. ASSUME NEW k \in Int
      PROVE  /\ UpTo(s, k) => UpTo(p, k)
             /\ From(s, k) => From(p, k)
  BY <1>4 DEF UpTo, From
<1>8. PartOf(p, s)
  BY <1>3, <1>5, <1>6, <1>7 DEF PartOf
<1> QED BY <1>8 DEF p

(* What comes first in a sorted sequence precedes the rest.                *)
LEMMA OfCut ==
  ASSUME NEW s \in Seq(Event), Sorted(s), NEW n \in 1..Len(s)
  PROVE  Precedes(SubSeq(s, 1, n), SubSeq(s, n + 1, Len(s)))
<1> DEFINE p == SubSeq(s, 1, n)
           q == SubSeq(s, n + 1, Len(s))
<1>1. Len(s) \in Nat
  BY LenProperties
<1>2. \A i \in 1..Len(s) : s[i] \in Event
  BY ElementOfSeq
<1>3. /\ Len(p) = n
      /\ \A i \in 1..n : p[i] = s[i]
  <2>1. /\ Len(p) = IF 1 <= n THEN n - 1 + 1 ELSE 0
        /\ \A i \in 1..(n - 1 + 1) : p[i] = s[1 + i - 1]
    <3>1. n \in Int /\ \A i \in 1..n : s[i] \in Event
      BY <1>1, <1>2
    <3> QED BY <3>1, SubSeqProperties
  <2> HIDE DEF p
  <2> QED BY <2>1, <1>1
<1>4. /\ Len(q) = Len(s) - n
      /\ \A i \in 1..(Len(s) - n) : q[i] = s[n + i]
  <2>1. /\ Len(q) = IF n + 1 <= Len(s) THEN Len(s) - (n + 1) + 1 ELSE 0
        /\ \A i \in 1..(Len(s) - (n + 1) + 1) : q[i] = s[(n + 1) + i - 1]
    <3>1. n + 1 \in Int /\ Len(s) \in Int /\ \A i \in (n + 1)..Len(s) : s[i] \in Event
      BY <1>1, <1>2
    <3> QED BY <3>1, SubSeqProperties
  <2> HIDE DEF q
  <2> QED BY <2>1, <1>1
<1> HIDE DEF p, q
<1>5. ASSUME NEW i \in 1..Len(p), NEW j \in 1..Len(q)
      PROVE  Before(p[i], q[j])
  <2>1. i \in 1..Len(s) /\ n + j \in 1..Len(s) /\ i < n + j
    BY <1>1, <1>3, <1>4
  <2>2. p[i] = s[i] /\ q[j] = s[n + j]
    BY <1>3, <1>4
  <2> QED BY <2>1, <2>2 DEF Sorted
<1>6. Precedes(p, q)
  BY <1>5 DEF Precedes
<1> QED BY <1>6 DEF p, q

(* A sequence that is followed by one more event.                          *)
LEMMA OfAppend ==
  ASSUME NEW s \in Seq(Event), NEW e \in Event
  PROVE  LET p == Append(s, e) IN
         /\ p \in Seq(Event)
         /\ << e >> \in Seq(Event)
         /\ Sorted(s) /\ Precedes(s, << e >>) => Sorted(p)
         /\ \A t \in Seq(Event) :
              /\ Precedes(s, t) /\ Precedes(<< e >>, t) => Precedes(p, t)
              /\ Precedes(t, s) /\ Precedes(t, << e >>) => Precedes(t, p)
         /\ \A k \in Int : /\ UpTo(s, k) /\ e.req <= k => UpTo(p, k)
                           /\ From(s, k) /\ e.req >= k => From(p, k)
         /\ p[Len(p)] = e
<1> DEFINE p == Append(s, e)
<1>1. Len(s) \in Nat
  BY LenProperties
<1>2. /\ p \in Seq(Event)
      /\ Len(p) = Len(s) + 1
      /\ \A i \in 1..Len(s) : p[i] = s[i]
      /\ p[Len(s) + 1] = e
  BY AppendProperties
<1> HIDE DEF p
<1> DEFINE o == << e >>
<1>3. o \in Seq(Event) /\ Len(o) = 1 /\ o[1] = e
  OBVIOUS
<1> HIDE DEF o
<1>4. \A i \in 1..Len(p) : (i \in 1..Len(s) /\ p[i] = s[i]) \/ (i = Len(s) + 1 /\ p[i] = o[1])
  BY <1>1, <1>2, <1>3
<1>5. 1 \in 1..Len(o)
  BY <1>3
<1>6. Sorted(s) /\ Precedes(s, o) => Sorted(p)
  <2> SUFFICES ASSUME Sorted(s), Precedes(s, o),
                      NEW i \in 1..Len(p), NEW j \in 1..Len(p), i < j
               PROVE  Before(p[i], p[j])
    BY DEF Sorted
  <2>1. i \in 1..Len(s) /\ p[i] = s[i]
    BY <1>1, <1>2
  <2>2. CASE j \in 1..Len(s)
    BY <1>2, <2>1, <2>2 DEF Sorted
  <2>3. CASE j = Len(s) + 1
    BY <1>2, <1>3, <1>5, <2>1, <2>3 DEF Precedes
  <2> QED BY <1>4, <2>2, <2>3
<1>7. ASSUME NEW t \in Seq(Event)
      PROVE  /\ Precedes(s, t) /\ Precedes(o, t) => Precedes(p, t)
             /\ Precedes(t, s) /\ Precedes(t, o) => Precedes(t, p)
  BY <1>4, <1>5 DEF Precedes
<1>8. ASSUME NEW k \in Int
      PROVE  /\ UpTo(s, k) /\ e.req <= k => UpTo(p, k)
             /\ From(s, k) /\ e.req >= k => From(p, k)
  BY <1>3, <1>4 DEF UpTo, From
<1> QED BY <1>1, <1>2, <1>3, <1>6, <1>7, <1>8 DEF p, o

(* The first event of a sequence, and the rest.                            *)
LEMMA OfHead ==
  ASSUME NEW s \in Seq(Event), s # <<>>
  PROVE  /\ Head(s) \in Event
         /\ Len(s) \in Nat \ {0}
         /\ Head(s) = s[1]
         /\ << Head(s) >> = SubSeq(s, 1, 1)
         /\ Tail(s) = SubSeq(s, 2, Len(s))
         /\ Tail(s) \in Seq(Event)
         /\ Sorted(s) => Precedes(<< Head(s) >>, Tail(s))
         /\ \A k \in Int : /\ UpTo(s, k) => Head(s).req <= k
                           /\ From(s, k) => Head(s).req >= k
<1>1. Len(s) \in Nat \ {0} /\ Len(s) \in Nat
  BY EmptySeq, LenProperties
<1>2. Head(s) \in Event /\ Tail(s) \in Seq(Event)
  BY HeadTailProperties
<1>3. 1 \in 1..Len(s) /\ 1 \in Nat \ {0}
  BY <1>1
<1>4. Head(s) = s[1]
  OBVIOUS
<1>5. << Head(s) >> = SubSeq(s, 1, 1)
  <2> DEFINE q == SubSeq(s, 1, 1)
             h == << Head(s) >>
  <2>1. \A i \in 1..1 : s[i] \in Event
    BY <1>2, <1>4
  <2>2. /\ q \in Seq(Event)
        /\ Len(q) = IF 1 <= 1 THEN 1 - 1 + 1 ELSE 0
        /\ \A i \in 1..(1 - 1 + 1) : q[i] = s[1 + i - 1]
    BY <2>1, SubSeqProperties
  <2>3. h \in Seq(Event) /\ Len(h) = 1 /\ h[1] = s[1]
    BY <1>2, <1>4
  <2> HIDE DEF q, h
  <2>4. Len(h) = Len(q) /\ \A i \in 1..Len(h) : h[i] = q[i]
    BY <2>2, <2>3
  <2>5. h = q
    BY <2>2, <2>3, <2>4, SeqEqual
  <2> QED BY <2>5 DEF h, q
<1>6. Tail(s) = SubSeq(s, 2, Len(s))
  BY TailIsSubSeq
<1>7. Sorted(s) => Precedes(<< Head(s) >>, Tail(s))
  <2>1. Sorted(s) => Precedes(SubSeq(s, 1, 1), SubSeq(s, 1 + 1, Len(s)))
    BY <1>3, OfCut
  <2>2. 1 + 1 = 2
    OBVIOUS
  <2> QED BY <1>5, <1>6, <2>1, <2>2
<1>8. ASSUME NEW k \in Int
      PROVE  /\ UpTo(s, k) => Head(s).req <= k
             /\ From(s, k) => Head(s).req >= k
  BY <1>3, <1>4 DEF UpTo, From
<1> QED BY <1>1, <1>2, <1>4, <1>5, <1>6, <1>7, <1>8

(* Both are parts of it.                                                   *)
LEMMA OfBehead ==
  ASSUME NEW s \in Seq(Event), s # <<>>
  PROVE  PartOf(<< Head(s) >>, s) /\ PartOf(Tail(s), s)
<1>1. Len(s) \in Nat \ {0} /\ << Head(s) >> = SubSeq(s, 1, 1)
      /\ Tail(s) = SubSeq(s, 2, Len(s))
  BY OfHead
<1>2. 1 \in Nat \ {0} /\ 2 \in Nat \ {0} /\ 1 \in 0..Len(s) /\ Len(s) \in 0..Len(s)
  BY <1>1
<1>3. PartOf(SubSeq(s, 1, 1), s) /\ PartOf(SubSeq(s, 2, Len(s)), s)
  BY <1>2, OfPart
<1> QED BY <1>1, <1>3

-----------------------------------------------------------------------------
(* The line of events, and what the steps of the program do to it.         *)

(* The process answers: the next event goes from todo to stdout.           *)
LEMMA LineEmit ==
  ASSUME NEW d \in Seq(Event), NEW h \in Seq(Event), NEW b \in Seq(Event),
         NEW s \in Seq(Event), NEW t \in Seq(Event),
         InOrder(d, h, b, s, t), t # <<>>
  PROVE  InOrder(d, h, b, Append(s, Head(t)), Tail(t))
<1>1. Head(t) \in Event /\ Tail(t) \in Seq(Event) /\ << Head(t) >> \in Seq(Event)
  BY OfHead
<1> DEFINE e == Head(t)
           o == << Head(t) >>
           z == Tail(t)
<1>2. /\ Sorted(z) /\ Precedes(o, z)
      /\ \A u \in Seq(Event) : Precedes(u, t) => Precedes(u, o) /\ Precedes(u, z)
  <2>1. Sorted(t) => Precedes(o, z)
    BY OfHead
  <2>2. PartOf(o, t) /\ PartOf(z, t)
    BY OfBehead
  <2>3. Sorted(t)
    BY DEF InOrder
  <2> HIDE DEF o, z
  <2> QED BY <2>1, <2>2, <2>3 DEF PartOf
<1>3. /\ Sorted(s) /\ Precedes(s, o) => Sorted(Append(s, e))
      /\ \A u \in Seq(Event) :
           /\ Precedes(s, u) /\ Precedes(o, u) => Precedes(Append(s, e), u)
           /\ Precedes(u, s) /\ Precedes(u, o) => Precedes(u, Append(s, e))
  <2>1. e \in Event
    BY <1>1
  <2> QED BY <2>1, OfAppend
<1>4. z \in Seq(Event)
  BY <1>1
<1> HIDE DEF e, o, z
<1>5. /\ Precedes(d, o) /\ Precedes(h, o) /\ Precedes(b, o) /\ Precedes(s, o)
      /\ Precedes(d, z) /\ Precedes(h, z) /\ Precedes(b, z) /\ Precedes(s, z)
  BY <1>2 DEF InOrder
<1>6. /\ Sorted(Append(s, e)) /\ Precedes(Append(s, e), z)
      /\ Precedes(d, Append(s, e)) /\ Precedes(h, Append(s, e))
      /\ Precedes(b, Append(s, e))
  BY <1>2, <1>3, <1>4, <1>5 DEF InOrder
<1>7. InOrder(d, h, b, Append(s, e), z)
  BY <1>2, <1>5, <1>6 DEF InOrder
<1> QED BY <1>7 DEF e, z

(* The process goes on with the answer whose result comes next.            *)
LEMMA LineStream ==
  ASSUME NEW d \in Seq(Event), NEW h \in Seq(Event), NEW b \in Seq(Event),
         NEW s \in Seq(Event), NEW t \in Seq(Event),
         InOrder(d, h, b, s, t), t # <<>>, Head(t).kind = "result"
  PROVE  /\ Delta(Head(t).req) \in Event
         /\ InOrder(d, h, b, Append(s, Delta(Head(t).req)), t)
<1> DEFINE e == Delta(Head(t).req)
           o == << e >>
<1>1. Head(t) \in Event /\ Head(t) = t[1] /\ 1 \in 1..Len(t)
  BY OfHead
<1>2. e \in Event /\ e.req = t[1].req /\ e.kind = "delta"
  BY <1>1 DEF Event, Delta
<1>3. o \in Seq(Event) /\ Len(o) = 1 /\ o[1] = e
  BY <1>2
<1> HIDE DEF e, o
<1>4. ASSUME NEW u \in Seq(Event), Precedes(u, t) PROVE Precedes(u, o)
  <2> SUFFICES ASSUME NEW i \in 1..Len(u) PROVE Before(u[i], e)
    BY <1>3 DEF Precedes
  <2>1. Before(u[i], t[1])
    BY <1>1, <1>4 DEF Precedes
  <2> QED BY <1>1, <1>2, <2>1 DEF Before
<1>5. Precedes(o, t)
  <2> SUFFICES ASSUME NEW j \in 1..Len(t) PROVE Before(e, t[j])
    BY <1>3 DEF Precedes
  <2>1. CASE j = 1
    BY <1>1, <1>2, <2>1 DEF Before
  <2>2. CASE j # 1
    <3>1. 1 < j
      BY <2>2
    <3>2. Before(t[1], t[j])
      BY <1>1, <3>1 DEF InOrder, Sorted
    <3> QED BY <1>1, <1>2, <3>2 DEF Before
  <2> QED BY <2>1, <2>2
<1>6. /\ Precedes(d, o) /\ Precedes(h, o) /\ Precedes(b, o) /\ Precedes(s, o)
  BY <1>4 DEF InOrder
<1>7. /\ Sorted(s) /\ Precedes(s, << e >>) => Sorted(Append(s, e))
      /\ \A u \in Seq(Event) :
           /\ Precedes(s, u) /\ Precedes(<< e >>, u) => Precedes(Append(s, e), u)
           /\ Precedes(u, s) /\ Precedes(u, << e >>) => Precedes(u, Append(s, e))
  BY <1>2, OfAppend
<1>8. o = << e >>
  BY DEF o
<1> DEFINE a == Append(s, e)
<1> HIDE DEF a
<1>9. Sorted(a) /\ Precedes(a, t) /\ Precedes(d, a) /\ Precedes(h, a) /\ Precedes(b, a)
  BY <1>5, <1>6, <1>7, <1>8 DEF InOrder, a
<1>10. InOrder(d, h, b, a, t)
  BY <1>9 DEF InOrder
<1> QED BY <1>2, <1>10 DEF a, e

(* A reader takes n lines. They stay in the line when it is the reader of  *)
(* the current Send, and leave it when it is another.                      *)
LEMMA LineRead ==
  ASSUME NEW d \in Seq(Event), NEW h \in Seq(Event), NEW b \in Seq(Event),
         NEW s \in Seq(Event), NEW t \in Seq(Event),
         InOrder(d, h, b, s, t), NEW n \in 1..Len(s)
  PROVE  /\ b = <<>> => InOrder(d, h, SubSeq(s, 1, n), SubSeq(s, n + 1, Len(s)), t)
         /\ InOrder(d, h, b, SubSeq(s, n + 1, Len(s)), t)
<1> DEFINE p == SubSeq(s, 1, n)
           q == SubSeq(s, n + 1, Len(s))
<1>1. /\ 1 \in Nat \ {0} /\ n + 1 \in Nat \ {0}
      /\ n \in 0..Len(s) /\ Len(s) \in 0..Len(s)
  BY LenProperties
<1>2. Precedes(p, q)
  BY OfCut DEF InOrder
<1>3. PartOf(p, s) /\ PartOf(q, s)
  BY <1>1, OfPart
<1> HIDE DEF p, q
<1>4. /\ Sorted(p) /\ Precedes(d, p) /\ Precedes(h, p) /\ Precedes(p, t)
      /\ Sorted(q) /\ Precedes(d, q) /\ Precedes(h, q) /\ Precedes(b, q)
      /\ Precedes(q, t)
  BY <1>3 DEF InOrder, PartOf
<1>5. InOrder(d, h, p, q, t)
  BY <1>2, <1>4 DEF InOrder
<1>6. InOrder(d, h, b, q, t)
  BY <1>4 DEF InOrder
<1> QED BY <1>5, <1>6 DEF p, q

(* The pump takes the event that is on offer.                              *)
LEMMA LineTake ==
  ASSUME NEW d \in Seq(Event), NEW b \in Seq(Event),
         NEW s \in Seq(Event), NEW t \in Seq(Event),
         InOrder(d, <<>>, b, s, t), b # <<>>
  PROVE  InOrder(d, << Head(b) >>, Tail(b), s, t)
<1> DEFINE o == << Head(b) >>
           z == Tail(b)
<1>1. Sorted(b) => Precedes(o, z)
  BY OfHead
<1>2. PartOf(o, b) /\ PartOf(z, b)
  BY OfBehead
<1> HIDE DEF o, z
<1>3. /\ Sorted(o) /\ Precedes(d, o) /\ Precedes(o, s) /\ Precedes(o, t)
      /\ Sorted(z) /\ Precedes(d, z) /\ Precedes(z, s) /\ Precedes(z, t)
      /\ Precedes(o, z)
  BY <1>1, <1>2 DEF InOrder, PartOf
<1>4. InOrder(d, o, z, s, t)
  BY <1>3 DEF InOrder
<1> QED BY <1>4 DEF o, z

(* The agent takes the event that the pump holds, or the event is dropped. *)
LEMMA LineGive ==
  ASSUME NEW d \in Seq(Event), NEW h \in Seq(Event), NEW b \in Seq(Event),
         NEW s \in Seq(Event), NEW t \in Seq(Event),
         InOrder(d, h, b, s, t), Len(h) = 1
  PROVE  /\ h[1] \in Event
         /\ InOrder(Append(d, h[1]), <<>>, b, s, t)
<1>1. h[1] \in Event
  <2>1. 1 \in 1..Len(h)
    OBVIOUS
  <2> QED BY <2>1, ElementOfSeq, Zenon
<1>2. h = << h[1] >>
  BY <1>1, SeqEqual
<1>3. Precedes(d, << h[1] >>) /\ \A u \in {b, s, t} : Precedes(<< h[1] >>, u)
  BY <1>2, Zenon DEF InOrder
<1>4. /\ Sorted(Append(d, h[1]))
      /\ \A u \in {b, s, t} : Precedes(Append(d, h[1]), u)
  BY <1>1, <1>3, OfAppend DEF InOrder
<1> QED BY <1>1, <1>4, OfNothing DEF InOrder

(* Places that are emptied leave the rest in order.                        *)
LEMMA LineDrop ==
  ASSUME NEW d, NEW h, NEW b, NEW s, NEW t, InOrder(d, h, b, s, t)
  PROVE  /\ InOrder(d, <<>>, b, s, t)
         /\ InOrder(d, h, <<>>, s, t)
         /\ InOrder(d, h, b, s, <<>>)
         /\ Sorted(d) => InOrder(d, <<>>, <<>>, <<>>, <<>>)
BY OfNothing DEF InOrder

(* What the process is to answer, once the message of r is written to it.  *)
Written(t, r) == t \o << [req |-> r, kind |-> "init"], [req |-> r, kind |-> "result"] >>

(* A message that is written is answered after everything of the requests  *)
(* before it.                                                              *)
LEMMA LineWrite ==
  ASSUME NEW d \in Seq(Event), NEW h \in Seq(Event), NEW b \in Seq(Event),
         NEW s \in Seq(Event), NEW t \in Seq(Event), NEW r \in Reqs,
         InOrder(d, h, b, s, t),
         UpTo(d, r - 1), UpTo(h, r - 1), UpTo(b, r - 1), UpTo(s, r - 1), UpTo(t, r - 1)
  PROVE  /\ Written(t, r) \in Seq(Event)
         /\ InOrder(d, h, b, s, Written(t, r))
         /\ UpTo(Written(t, r), r)
         /\ From(t, r) => From(Written(t, r), r)
<1> DEFINE i == [req |-> r, kind |-> "init"]
           k == [req |-> r, kind |-> "result"]
           w == t \o << i, k >>
<1>1. i \in Event /\ k \in Event /\ i.req = r /\ k.req = r /\ i.kind = "init" /\ k.kind = "result"
  BY DEF Event
<1>2. r \in Int /\ r - 1 \in Int /\ r - 1 <= r
  BY DEF Reqs
<1>3. w = Append(Append(t, i), k) /\ Append(t, i) \in Seq(Event)
  <2> HIDE DEF i, k
  <2> QED BY <1>1, AppendProperties
<1> HIDE DEF i, k, w
<1>4. \A u \in Seq(Event) : UpTo(u, r - 1) => Precedes(u, << i >>) /\ Precedes(u, << k >>)
  <2> SUFFICES ASSUME NEW u \in Seq(Event), UpTo(u, r - 1)
               PROVE  Precedes(u, << i >>) /\ Precedes(u, << k >>)
    OBVIOUS
  <2>1. ASSUME NEW x \in 1..Len(u) PROVE u[x].req < r
    <3>1. u[x] \in Event
      BY ElementOfSeq
    <3>2. u[x].req \in Int /\ u[x].req <= r - 1
      BY <3>1 DEF UpTo, Event, Reqs
    <3> QED BY <1>2, <3>2
  <2> QED BY <1>1, <2>1, SMTT(60) DEF Precedes, Before
<1>5. Precedes(<< i >>, << k >>)
  BY <1>1 DEF Precedes, Before
<1>6. \A u \in Seq(Event) : UpTo(u, r - 1) => UpTo(u, r)
  <2> SUFFICES ASSUME NEW u \in Seq(Event), UpTo(u, r - 1), NEW x \in 1..Len(u)
               PROVE  u[x].req <= r
    BY DEF UpTo
  <2>1. u[x] \in Event
    BY ElementOfSeq
  <2> QED BY <1>2, <2>1, SMTT(60) DEF UpTo, Event, Reqs
<1>7. /\ Sorted(Append(t, i))
      /\ Precedes(d, Append(t, i)) /\ Precedes(h, Append(t, i))
      /\ Precedes(b, Append(t, i)) /\ Precedes(s, Append(t, i))
      /\ Precedes(Append(t, i), << k >>)
      /\ UpTo(Append(t, i), r)
      /\ From(t, r) => From(Append(t, i), r)
  <2>1. /\ Sorted(t) /\ Precedes(t, << i >>)
        /\ Precedes(d, t) /\ Precedes(d, << i >>)
        /\ Precedes(h, t) /\ Precedes(h, << i >>)
        /\ Precedes(b, t) /\ Precedes(b, << i >>)
        /\ Precedes(s, t) /\ Precedes(s, << i >>)
        /\ Precedes(t, << k >>)
    BY <1>4 DEF InOrder
  <2>2. << k >> \in Seq(Event) /\ i.req <= r /\ i.req >= r /\ UpTo(t, r)
    BY <1>1, <1>2, <1>6
  <2>3. /\ Sorted(t) /\ Precedes(t, << i >>) => Sorted(Append(t, i))
        /\ \A u \in Seq(Event) :
             /\ Precedes(t, u) /\ Precedes(<< i >>, u) => Precedes(Append(t, i), u)
             /\ Precedes(u, t) /\ Precedes(u, << i >>) => Precedes(u, Append(t, i))
        /\ \A x \in Int : /\ UpTo(t, x) /\ i.req <= x => UpTo(Append(t, i), x)
                          /\ From(t, x) /\ i.req >= x => From(Append(t, i), x)
    BY <1>1, OfAppend
  <2> DEFINE a == Append(t, i)
  <2>4. /\ Sorted(t) /\ Precedes(t, << i >>) => Sorted(a)
        /\ \A u \in Seq(Event) :
             /\ Precedes(t, u) /\ Precedes(<< i >>, u) => Precedes(a, u)
             /\ Precedes(u, t) /\ Precedes(u, << i >>) => Precedes(u, a)
    BY <2>3
  <2>5. /\ UpTo(t, r) /\ i.req <= r => UpTo(a, r)
        /\ From(t, r) /\ i.req >= r => From(a, r)
    BY <1>2, <2>3
  <2> HIDE DEF a
  <2>6. Sorted(a) /\ Precedes(a, << k >>)
        /\ Precedes(d, a) /\ Precedes(h, a) /\ Precedes(b, a) /\ Precedes(s, a)
    BY <1>5, <2>1, <2>2, <2>4
  <2>7. UpTo(a, r) /\ (From(t, r) => From(a, r))
    BY <2>2, <2>5
  <2> QED BY <2>6, <2>7 DEF a
<1>8. /\ w \in Seq(Event)
      /\ Sorted(w)
      /\ Precedes(d, w) /\ Precedes(h, w) /\ Precedes(b, w) /\ Precedes(s, w)
      /\ UpTo(w, r)
      /\ From(t, r) => From(w, r)
  <2>1. Precedes(d, << k >>) /\ Precedes(h, << k >>) /\ Precedes(b, << k >>)
        /\ Precedes(s, << k >>)
    BY <1>4
  <2>2. k.req <= r /\ k.req >= r
    BY <1>1, <1>2
  <2> DEFINE a == Append(t, i)
  <2>3. a \in Seq(Event) /\ w = Append(a, k)
    BY <1>3
  <2>4. /\ Append(a, k) \in Seq(Event)
        /\ Sorted(a) /\ Precedes(a, << k >>) => Sorted(Append(a, k))
        /\ \A u \in Seq(Event) :
             Precedes(u, a) /\ Precedes(u, << k >>) => Precedes(u, Append(a, k))
        /\ \A x \in Int : /\ UpTo(a, x) /\ k.req <= x => UpTo(Append(a, k), x)
                          /\ From(a, x) /\ k.req >= x => From(Append(a, k), x)
    <3> HIDE DEF a
    <3> QED BY <1>1, <2>3, OfAppend
  <2>5. /\ Sorted(a) /\ Precedes(a, << k >>) /\ UpTo(a, r) /\ (From(t, r) => From(a, r))
        /\ Precedes(d, a) /\ Precedes(h, a) /\ Precedes(b, a) /\ Precedes(s, a)
    BY <1>7
  <2> HIDE DEF a
  <2>6. w \in Seq(Event) /\ Sorted(w)
        /\ Precedes(d, w) /\ Precedes(h, w) /\ Precedes(b, w) /\ Precedes(s, w)
    BY <2>1, <2>3, <2>4, <2>5
  <2>7. UpTo(w, r) /\ (From(t, r) => From(w, r))
    BY <1>2, <2>2, <2>3, <2>4, <2>5
  <2> QED BY <2>6, <2>7
<1>9. InOrder(d, h, b, s, w)
  BY <1>8 DEF InOrder
<1>10. w = Written(t, r)
  BY DEF w, i, k, Written
<1> QED BY <1>8, <1>9, <1>10

(* After a result comes nothing of its request or of one before it.        *)
LEMMA LineEnds ==
  ASSUME NEW h \in Seq(Event), NEW t \in Seq(Event), NEW r \in Reqs,
         Len(h) = 1, h[1].kind = "result", h[1].req = r,
         Precedes(h, t), UpTo(t, r)
  PROVE  t = <<>>
<1>1. 1 \in 1..Len(h) /\ h[1] \in Event
  <2>1. 1 \in 1..Len(h)
    OBVIOUS
  <2> QED BY <2>1, ElementOfSeq, Zenon
<1>2. SUFFICES ASSUME t # <<>> PROVE FALSE
  OBVIOUS
<1>3. Len(t) \in Nat \ {0} /\ 1 \in 1..Len(t)
  BY <1>2, EmptySeq
<1>4. t[1] \in Event /\ t[1].req <= r /\ Before(h[1], t[1])
  BY <1>1, <1>3, ElementOfSeq DEF UpTo, Precedes
<1>5. t[1].req \in Int /\ r \in Int
  BY <1>4 DEF Event, Reqs
<1> QED BY <1>4, <1>5 DEF Before

-----------------------------------------------------------------------------
(* The inductive invariant. A request's events are in order because the    *)
(* places they pass through are: what the current Send may still draw from *)
(* comes after everything that was yielded, and after nothing that a       *)
(* reader of an earlier Send took away. An answer is the request's own     *)
(* because a Send that ended otherwise than by its watchdog leaves nothing *)
(* behind that a later one can be given.                                   *)

(* The launches: the Session, the last Send and the id are never ahead of  *)
(* each other, and a process that is not running any more answers nothing. *)
Launches ==
  /\ gen \in Gens
  /\ sendGen <= gen
  /\ sessionID <= sendGen
  /\ \A g \in Gens : g > gen => proc[g] = "none"
  /\ \A g \in Gens : g > sendGen => todo[g] = <<>> /\ stdout[g] = <<>>
  /\ \A g \in Gens : proc[g] \in {"none", "dead"} => todo[g] = <<>>

(* Where the agent, its pump and the readers can be.                       *)
Places ==
  /\ agent # "idle" => cur \in Reqs /\ sendGen \in Gens
  /\ agent = "write" => reader[cur] = "none" /\ outcome[cur] = "none"
                        /\ delivered[cur] = <<>>
  /\ pump # "closed" => /\ agent = "receive"
                        /\ outcome[cur] = "none"
                        /\ reader[cur] # "none"
  /\ pump # "deliver" => held = <<>>
  /\ sendGen # 0 => cur # 0
  /\ cur \in Reqs /\ reader[cur] # "none" => readerGen[cur] = sendGen
  /\ \A r \in Reqs : r > cur =>
       reader[r] = "none" /\ outcome[r] = "none" /\ delivered[r] = <<>>

(* What each reader scans and holds, and why it has ended.                 *)
Readers ==
  \A r \in Reqs :
    /\ reader[r] # "none" => readerGen[r] \in Gens
    /\ reader[r] = "none" => buf[r] = <<>>
    /\ reader[r] = "offering" => buf[r] # <<>>
    /\ reader[r] = "ended" =>
         \/ ctxDone
         \/ proc[readerGen[r]] = "dead" /\ stdout[readerGen[r]] = <<>>

(* The last request that was written to a process.                         *)
LastWritten == IF agent = "write" THEN cur - 1 ELSE cur

(* No event is about a request that was not written yet.                   *)
NoneAhead ==
  /\ \A g \in Gens : UpTo(todo[g], LastWritten) /\ UpTo(stdout[g], LastWritten)
  /\ \A r \in Reqs : UpTo(buf[r], LastWritten) /\ UpTo(delivered[r], LastWritten)
  /\ UpTo(held, LastWritten)
  /\ \A r \in Reqs : UpTo(delivered[r], r)

(* The line of events that the current Send draws from is in order, and    *)
(* comes after whatever was yielded before.                                *)
LineInOrder ==
  /\ \A r \in Reqs : Sorted(delivered[r]) /\ NoDelta(delivered[r])
  /\ \A q, r \in Reqs : q < r => Precedes(delivered[q], delivered[r])
  /\ cur \in Reqs /\ sendGen \in Gens => \A r \in Reqs :
       InOrder(delivered[r], held, buf[cur], stdout[sendGen], todo[sendGen])

NoWatchdogYet == \A q \in Reqs : outcome[q] # "watchdog"

(* Until a watchdog fires, nothing of an earlier request can still be      *)
(* passed on, and nothing is left over when a Send has ended, unless ctx   *)
(* is done: then no reader offers anything any more.                       *)
NothingStale ==
  NoWatchdogYet =>
    /\ From(held, cur)
    /\ pump # "closed" /\ reader[cur] = "offering" => Head(buf[cur]).req = cur
    /\ ~ctxDone /\ pump # "closed" =>
         From(buf[cur], cur) /\ From(stdout[sendGen], cur) /\ From(todo[sendGen], cur)
    /\ ~ctxDone /\ pump = "closed" /\ sendGen \in Gens =>
         stdout[sendGen] = <<>> /\ todo[sendGen] = <<>>

SessInv ==
  /\ TypeOK
  /\ NoOrphanProcess
  /\ Launches
  /\ Places
  /\ Readers
  /\ NoneAhead
  /\ LineInOrder
  /\ NothingStale
  /\ AnswerIsOwn

-----------------------------------------------------------------------------
(* Requests and launches are counted from one.                             *)
LEMMA Bounds ==
  /\ Requests \in Nat \ {0} /\ MaxStarts \in Nat \ {0}
  /\ Reqs \subseteq Nat \ {0} /\ Gens \subseteq Nat \ {0} /\ 1 \in Gens
BY SessionAssumption DEF Reqs, Gens

(* Spawn has started the first launch, and nothing was sent.               *)
LEMMA SessInit == Init => SessInv
<1> SUFFICES ASSUME Init PROVE SessInv
  OBVIOUS
<1> USE Bounds
<1>0. <<>> \in Seq(Event) /\ Len(<<>>) = 0
  BY EmptySeq
<1>1. TypeOK
  <2>1. /\ [g \in Gens |-> <<>>] \in [Gens -> Seq(Event)]
        /\ [r \in Reqs |-> <<>>] \in [Reqs -> Seq(Event)]
    BY <1>0
  <2>2. todo \in [Gens -> Seq(Event)] /\ stdout \in [Gens -> Seq(Event)]
    BY <2>1 DEF Init
  <2>3. buf \in [Reqs -> Seq(Event)] /\ delivered \in [Reqs -> Seq(Event)]
    BY <2>1 DEF Init
  <2>4. held \in Seq(Event) /\ Len(held) = 0 /\ pump = "closed"
    BY <1>0 DEF Init
  <2>5. /\ gen \in 0..MaxStarts /\ sessionID \in 0..MaxStarts
        /\ cur \in 0..Requests /\ sendGen \in 0..MaxStarts
        /\ agent = "idle"
    BY DEF Init
  <2>6. /\ proc \in [Gens -> {"none", "alive", "stopping", "dead"}]
        /\ reader \in [Reqs -> {"none", "scanning", "offering", "ended"}]
        /\ outcome \in [Reqs -> Outcome]
    BY DEF Init, Outcome
  <2>7. readerGen \in [Reqs -> 0..MaxStarts]
    <3>1. 0 \in 0..MaxStarts
      OBVIOUS
    <3> QED BY <3>1 DEF Init
  <2>8. running \in BOOLEAN /\ ctxDone \in BOOLEAN
    BY DEF Init
  <2> QED BY <2>2, <2>3, <2>4, <2>5, <2>6, <2>7, <2>8 DEF TypeOK
<1>2. NoOrphanProcess
  BY DEF Init, NoOrphanProcess
<1>3. Launches
  BY DEF Init, Launches, Gens
<1>4. Places
  BY DEF Init, Places
<1>5. Readers
  BY DEF Init, Readers
<1>6. NoneAhead
  BY OfNothing DEF Init, NoneAhead
<1>7. LineInOrder
  BY OfNothing DEF Init, LineInOrder, NoDelta
<1>8. NothingStale
  BY OfNothing DEF Init, NothingStale, Gens
<1>9. AnswerIsOwn
  BY DEF Init, AnswerIsOwn
<1> QED BY <1>1, <1>2, <1>3, <1>4, <1>5, <1>6, <1>7, <1>8, <1>9 DEF SessInv

(* The actions, each by its name.                                          *)
LEMMA StepCases ==
  ASSUME [Next]_vars
  PROVE  \/ Start \/ Close \/ CancelCtx
         \/ \E g \in Gens : ProcEmit(g)
         \/ \E g \in Gens : ProcStreams(g)
         \/ \E g \in Gens : ProcDies(g)
         \/ SendBegin \/ SendWrite
         \/ \E r \in Reqs : ReadChunk(r)
         \/ \E r \in Reqs : OfferLine(r)
         \/ \E r \in Reqs : ReaderEnds(r)
         \/ PumpReceive \/ PumpDeliver \/ PumpEnds \/ Watchdog \/ Complete
         \/ UNCHANGED vars
BY DEF Next, Pump

(* Where the process writes the next event of a stream.                    *)
LEMMA StreamAt ==
  ASSUME TypeOK, NEW g \in Gens, ProcStreams(g)
  PROVE  /\ todo[g] \in Seq(Event) /\ todo[g] # <<>> /\ stdout[g] \in Seq(Event)
         /\ Head(todo[g]) \in Event /\ Head(todo[g]).kind = "result"
         /\ Delta(Head(todo[g]).req) \in Event
         /\ Delta(Head(todo[g]).req).req = Head(todo[g]).req
         /\ Append(stdout[g], Delta(Head(todo[g]).req)) \in Seq(Event)
         /\ stdout' = [stdout EXCEPT ![g] = Append(stdout[g], Delta(Head(todo[g]).req))]
         /\ proc[g] \in {"alive", "stopping"}
         /\ UNCHANGED <<running, gen, sessionID, ctxDone, proc, todo, agent, cur, sendGen,
                        pump, held, reader, readerGen, buf, delivered, outcome>>
<1>1. todo[g] \in Seq(Event) /\ stdout[g] \in Seq(Event) /\ todo[g] # <<>>
  BY DEF ProcStreams, TypeOK
<1>2. Head(todo[g]) \in Event
  BY <1>1, OfHead
<1>3. Delta(Head(todo[g]).req) \in Event
      /\ Delta(Head(todo[g]).req).req = Head(todo[g]).req
  BY <1>2 DEF Delta, Event
<1>4. Append(stdout[g], Delta(Head(todo[g]).req)) \in Seq(Event)
  BY <1>1, <1>3, AppendProperties
<1> QED BY <1>1, <1>2, <1>3, <1>4
        DEF ProcStreams, sessVars, agentVars, readVars, histVars

(* What the agent takes: all but deltas is recorded.                       *)
LEMMA GiveAt ==
  ASSUME TypeOK, Places, PumpDeliver
  PROVE  /\ cur \in Reqs /\ Len(held) = 1 /\ held \in Seq(Event) /\ held[1] \in Event
         /\ delivered[cur] \in Seq(Event) /\ Append(delivered[cur], held[1]) \in Seq(Event)
         /\ \/ held[1].kind = "delta" /\ delivered' = delivered
            \/ /\ held[1].kind # "delta"
               /\ delivered' = [delivered EXCEPT ![cur] = Append(delivered[cur], held[1])]
<1>1. cur \in Reqs /\ Len(held) = 1 /\ held \in Seq(Event)
  BY DEF PumpDeliver, Places, TypeOK
<1>2. held[1] \in Event
  <2>1. 1 \in 1..Len(held)
    BY <1>1
  <2> QED BY <1>1, <2>1, ElementOfSeq, Zenon
<1>3. delivered[cur] \in Seq(Event) /\ Append(delivered[cur], held[1]) \in Seq(Event)
  BY <1>1, <1>2, AppendProperties DEF TypeOK
<1>4. delivered' = [delivered EXCEPT ![cur] =
                       IF IsDelta(held[1]) THEN delivered[cur]
                                           ELSE Append(delivered[cur], held[1])]
  BY DEF PumpDeliver
<1>5. [delivered EXCEPT ![cur] = delivered[cur]] = delivered
  BY DEF TypeOK
<1> QED BY <1>1, <1>2, <1>3, <1>4, <1>5 DEF IsDelta

(* The types are kept, given what the goroutines can be doing.             *)
LEMMA Types ==
  ASSUME TypeOK, Launches, Places, Readers, [Next]_vars
  PROVE  TypeOK'
<1> USE Bounds
<1>1. CASE Start
  BY <1>1 DEF Start, NotRunning, Launch, TypeOK, Gens, agentVars, readVars, histVars
<1>2. CASE Close
  BY <1>2 DEF Close, TypeOK, agentVars, readVars, histVars
<1>3. CASE CancelCtx
  BY <1>3 DEF CancelCtx, TypeOK, sessVars, procVars, agentVars, readVars, histVars
<1>4. ASSUME NEW g \in Gens, ProcEmit(g) PROVE TypeOK'
  <2>1. Append(stdout[g], Head(todo[g])) \in Seq(Event) /\ Tail(todo[g]) \in Seq(Event)
    <3>1. todo[g] \in Seq(Event) /\ stdout[g] \in Seq(Event) /\ todo[g] # <<>>
      BY <1>4 DEF ProcEmit, TypeOK
    <3>2. Head(todo[g]) \in Event /\ Tail(todo[g]) \in Seq(Event)
      BY <3>1, OfHead
    <3> QED BY <3>1, <3>2, AppendProperties
  <2> QED BY <1>4, <2>1 DEF ProcEmit, TypeOK, sessVars, agentVars, readVars, histVars
<1>a. ASSUME NEW g \in Gens, ProcStreams(g) PROVE TypeOK'
  <2>1. stdout' \in [Gens -> Seq(Event)]
    <3>1. PICK s \in Seq(Event) : stdout' = [stdout EXCEPT ![g] = s]
      BY <1>a, StreamAt
    <3> QED BY <3>1 DEF TypeOK
  <2>2. UNCHANGED <<running, gen, sessionID, ctxDone, proc, todo, agent, cur, sendGen,
                    pump, held, reader, readerGen, buf, delivered, outcome>>
    BY <1>a, StreamAt
  <2> QED BY <2>1, <2>2 DEF TypeOK
<1>5. ASSUME NEW g \in Gens, ProcDies(g) PROVE TypeOK'
  <2>1. <<>> \in Seq(Event)
    BY EmptySeq
  <2> QED BY <1>5, <2>1 DEF ProcDies, TypeOK, sessVars, agentVars, readVars, histVars
<1>6. CASE SendBegin
  <2>1. cur' \in 0..Requests
    BY <1>6 DEF SendBegin, TypeOK
  <2>2. sendGen' \in 0..MaxStarts /\ agent' \in {"idle", "write", "receive"}
    BY <1>6 DEF SendBegin, TypeOK
  <2>3. outcome' \in [Reqs -> Outcome]
    BY <1>6 DEF SendBegin, TypeOK, Outcome
  <2> QED BY <1>6, <2>1, <2>2, <2>3 DEF SendBegin, TypeOK, sessVars, procVars, readVars
<1>7. CASE SendWrite
  <2>1. cur \in Reqs /\ sendGen \in Gens
    BY <1>7 DEF SendWrite, Places
  <2>2. todo' \in [Gens -> Seq(Event)]
    <3> DEFINE m == << [req |-> cur, kind |-> "init"], [req |-> cur, kind |-> "result"] >>
    <3>1. m \in Seq(Event)
      BY <2>1 DEF Event
    <3> HIDE DEF m
    <3>2. todo[sendGen] \o m \in Seq(Event)
      BY <2>1, <3>1, ConcatProperties DEF TypeOK
    <3>3. todo' = todo \/ todo' = [todo EXCEPT ![sendGen] = @ \o m]
      BY <1>7 DEF SendWrite, WriteMessage, m
    <3> QED BY <3>2, <3>3 DEF TypeOK
  <2>3. proc[sendGen] = "alive" \/ proc[sendGen] # "alive"
    OBVIOUS
  <2>4. UNCHANGED <<running, gen, sessionID, ctxDone, proc, stdout, cur, sendGen, held, buf,
                    delivered>>
    BY <1>7 DEF SendWrite, sessVars
  <2>5. /\ agent' \in {"idle", "receive"}
        /\ outcome' \in [Reqs -> Outcome]
        /\ reader' \in [Reqs -> {"none", "scanning", "offering", "ended"}]
        /\ readerGen' \in [Reqs -> 0..MaxStarts]
    <3>1. agent' \in {"idle", "receive"}
      BY <1>7 DEF SendWrite
    <3>2. \/ UNCHANGED outcome
          \/ outcome' = [outcome EXCEPT ![cur] = "refused"]
      BY <1>7 DEF SendWrite
    <3>3. outcome' \in [Reqs -> Outcome]
      BY <2>1, <3>2 DEF TypeOK, Outcome
    <3>4. \/ UNCHANGED <<reader, readerGen>>
          \/ /\ reader' = [reader EXCEPT ![cur] = "scanning"]
             /\ readerGen' = [readerGen EXCEPT ![cur] = sendGen]
      BY <1>7 DEF SendWrite
    <3>5. reader' \in [Reqs -> {"none", "scanning", "offering", "ended"}]
      BY <2>1, <3>4 DEF TypeOK
    <3>6. readerGen' \in [Reqs -> 0..MaxStarts]
      BY <2>1, <3>4, SMTT(60) DEF TypeOK
    <3> QED BY <3>1, <3>3, <3>5, <3>6
  <2>6. pump' \in {"receive", "deliver", "closed"} /\ (pump' = "deliver" <=> Len(held) = 1)
    <3>1. held = <<>> /\ Len(held) = 0
      BY <1>7 DEF SendWrite, Places
    <3>2. pump' \in {"receive", "closed"}
      BY <1>7 DEF SendWrite, Places
    <3> QED BY <3>1, <3>2
  <2> QED BY <2>2, <2>4, <2>5, <2>6 DEF TypeOK
<1>8. ASSUME NEW r \in Reqs, ReadChunk(r) PROVE TypeOK'
  <2> DEFINE g == readerGen[r]
  <2>1. g \in Gens
    BY <1>8 DEF ReadChunk, Readers
  <2>2. PICK n \in 1..Len(stdout[g]) :
          /\ buf' = [buf EXCEPT ![r] = SubSeq(stdout[g], 1, n)]
          /\ stdout' = [stdout EXCEPT ![g] = SubSeq(stdout[g], n + 1, Len(stdout[g]))]
    BY <1>8 DEF ReadChunk, Remaining
  <2>3. stdout[g] \in Seq(Event) /\ Len(stdout[g]) \in Nat
    BY <2>1, LenProperties DEF TypeOK
  <2>4. /\ SubSeq(stdout[g], 1, n) \in Seq(Event)
        /\ SubSeq(stdout[g], n + 1, Len(stdout[g])) \in Seq(Event)
    <3>1. 1 \in Nat \ {0} /\ n \in 0..Len(stdout[g]) /\ n + 1 \in Nat \ {0}
          /\ Len(stdout[g]) \in 0..Len(stdout[g])
      BY <2>3
    <3> QED BY <2>3, <3>1, OfPart DEF PartOf
  <2> QED BY <1>8, <2>2, <2>4
          DEF ReadChunk, TypeOK, sessVars, agentVars, histVars
<1>9. ASSUME NEW r \in Reqs, OfferLine(r) PROVE TypeOK'
  BY <1>9 DEF OfferLine, TypeOK, sessVars, procVars, agentVars, histVars
<1>10. ASSUME NEW r \in Reqs, ReaderEnds(r) PROVE TypeOK'
  <2>1. <<>> \in Seq(Event)
    BY EmptySeq
  <2> QED BY <1>10, <2>1 DEF ReaderEnds, TypeOK, sessVars, procVars, agentVars, histVars
<1>11. CASE PumpReceive
  <2>1. cur \in Reqs /\ sendGen \in Gens /\ readerGen[cur] = sendGen
    BY <1>11 DEF PumpReceive, Places
  <2>2. buf[cur] \in Seq(Event) /\ buf[cur] # <<>>
    BY <1>11, <2>1 DEF PumpReceive, Readers, TypeOK
  <2>3. Head(buf[cur]) \in Event /\ Tail(buf[cur]) \in Seq(Event)
    BY <2>2, OfHead
  <2>4. held' \in Seq(Event) /\ Len(held') = 1 /\ pump' = "deliver"
    BY <1>11, <2>3 DEF PumpReceive, NextLine
  <2>5. sessionID' \in 0..MaxStarts
    BY <1>11, <2>1 DEF PumpReceive, TrackID, TypeOK
  <2> QED BY <1>11, <2>1, <2>3, <2>4, <2>5
          DEF PumpReceive, TypeOK, procVars, agentVars, histVars
<1>12. CASE PumpDeliver
  <2>1. cur \in Reqs /\ sendGen \in Gens /\ readerGen[cur] = sendGen
    BY <1>12 DEF PumpDeliver, Places
  <2>2. delivered' = delivered
          \/ delivered' = [delivered EXCEPT ![cur] = Append(delivered[cur], held[1])]
    BY <1>12, GiveAt
  <2>3. delivered' \in [Reqs -> Seq(Event)]
    BY <1>12, <2>1, <2>2, GiveAt DEF TypeOK
  <2>4. held' \in Seq(Event) /\ Len(held') = 0 /\ pump' \in {"closed", "receive"}
    BY <1>12, EmptySeq DEF PumpDeliver
  <2>5. sessionID' \in 0..MaxStarts /\ outcome' \in [Reqs -> Outcome]
    BY <1>12, <2>1 DEF PumpDeliver, TrackID, TypeOK, Outcome
  <2> QED BY <1>12, <2>1, <2>3, <2>4, <2>5
          DEF PumpDeliver, TypeOK, procVars, agentVars, readVars
<1>13. CASE PumpEnds
  <2>1. <<>> \in Seq(Event) /\ Len(<<>>) = 0
    BY EmptySeq
  <2> QED BY <1>13, <2>1
          DEF PumpEnds, TypeOK, Outcome, sessVars, procVars, agentVars, readVars
<1>14. CASE Watchdog
  BY <1>14 DEF Watchdog, MayFire, TypeOK, Outcome, sessVars, procVars, agentVars, readVars
<1>15. CASE Complete
  BY <1>15 DEF Complete, TypeOK, sessVars, procVars, readVars, histVars
<1>16. CASE UNCHANGED vars
  BY <1>16 DEF vars, TypeOK, sessVars, procVars, agentVars, readVars, histVars
<1> QED BY <1>1, <1>2, <1>3, <1>4, <1>a, <1>5, <1>6, <1>7, <1>8, <1>9, <1>10, <1>11,
           <1>12, <1>13, <1>14, <1>15, <1>16, StepCases

(* What ReadChunk takes, and from where.                                   *)
LEMMA ChunkAt ==
  ASSUME TypeOK, Readers, NEW r \in Reqs, ReadChunk(r)
  PROVE  LET g == readerGen[r]
             s == stdout[g]
         IN /\ g \in Gens /\ s \in Seq(Event) /\ s # <<>>
            /\ reader[r] = "scanning" /\ buf[r] = <<>>
            /\ \E n \in 1..Len(s) :
                 /\ buf' = [buf EXCEPT ![r] = SubSeq(s, 1, n)]
                 /\ stdout' = [stdout EXCEPT ![g] = SubSeq(s, n + 1, Len(s))]
                 /\ SubSeq(s, 1, n) \in Seq(Event) /\ SubSeq(s, 1, n) # <<>>
                 /\ PartOf(SubSeq(s, 1, n), s)
                 /\ PartOf(SubSeq(s, n + 1, Len(s)), s)
            /\ UNCHANGED <<sessVars, ctxDone, proc, todo, agentVars, pump, held,
                           reader, readerGen, histVars>>
<1> DEFINE g == readerGen[r]
           s == stdout[g]
<1>1. g \in Gens
  BY Bounds DEF ReadChunk, Readers
<1>2. s \in Seq(Event) /\ Len(s) \in Nat
  BY <1>1, LenProperties DEF TypeOK
<1>3. PICK n \in 1..Len(s) :
        /\ buf' = [buf EXCEPT ![r] = SubSeq(s, 1, n)]
        /\ stdout' = [stdout EXCEPT ![g] = SubSeq(s, n + 1, Len(s))]
  BY DEF ReadChunk, Remaining
<1>4. s # <<>>
  BY <1>2, <1>3
<1>5. /\ 1 \in Nat \ {0} /\ n \in 0..Len(s) /\ n + 1 \in Nat \ {0}
      /\ Len(s) \in 0..Len(s) /\ n \in Nat \ {0}
  BY <1>2, <1>3
<1>6. PartOf(SubSeq(s, 1, n), s) /\ PartOf(SubSeq(s, n + 1, Len(s)), s)
  BY <1>2, <1>5, OfPart
<1>7. SubSeq(s, 1, n) \in Seq(Event) /\ SubSeq(s, 1, n) # <<>>
  <2>1. SubSeq(s, 1, n) \in Seq(Event)
    BY <1>6 DEF PartOf
  <2>2. n \in Int /\ \A i \in 1..n : s[i] \in Event
    BY <1>2, <1>5, ElementOfSeq
  <2>3. Len(SubSeq(s, 1, n)) = IF 1 <= n THEN n - 1 + 1 ELSE 0
    BY <2>2, SubSeqProperties
  <2>4. Len(SubSeq(s, 1, n)) = n
    BY <1>5, <2>3
  <2> QED BY <1>5, <2>1, <2>4, EmptySeq
<1> QED BY <1>1, <1>2, <1>3, <1>4, <1>6, <1>7 DEF ReadChunk

(* Only the launch that Session uses can be alive.                         *)
LEMMA OrphanStep ==
  ASSUME TypeOK, Launches, NoOrphanProcess, [Next]_vars
  PROVE  NoOrphanProcess'
<1> USE Bounds
<1>1. CASE Start
  BY <1>1 DEF Start, NotRunning, Launch, NoOrphanProcess, TypeOK
<1>2. CASE Close
  BY <1>2 DEF Close, NoOrphanProcess, TypeOK, Launches
<1>3. ASSUME NEW g \in Gens, ProcDies(g) PROVE NoOrphanProcess'
  BY <1>3 DEF ProcDies, NoOrphanProcess, TypeOK, sessVars
<1>4. ASSUME UNCHANGED <<running, gen, proc>> PROVE NoOrphanProcess'
  BY <1>4 DEF NoOrphanProcess
<1>5. Start \/ Close \/ (\E g \in Gens : ProcDies(g)) \/ UNCHANGED <<running, gen, proc>>
  BY StepCases DEF CancelCtx, ProcEmit, ProcStreams, SendBegin, SendWrite, ReadChunk, OfferLine,
     ReaderEnds, PumpReceive, PumpDeliver, PumpEnds, Watchdog, Complete, vars, sessVars,
     procVars
<1> QED BY <1>1, <1>2, <1>3, <1>4, <1>5

(* The Session, the last Send and the id stay in step with the launches.   *)
LEMMA LaunchesStep ==
  ASSUME TypeOK, NoOrphanProcess, Launches, Places, Readers, [Next]_vars
  PROVE  Launches'
<1> USE Bounds
<1>0. gen \in Nat /\ sendGen \in Nat /\ sessionID \in Nat /\ \A g \in Gens : g \in Nat
  BY DEF TypeOK
<1>1. CASE Start
  <2>1. gen' \in Gens /\ gen' = gen + 1 /\ UNCHANGED <<sessionID, sendGen, todo, stdout>>
    BY <1>0, <1>1 DEF Start, Gens, Launches, agentVars
  <2>2. proc' = [proc EXCEPT ![gen + 1] = "alive"]
    BY <1>1 DEF Start, Launch
  <2> QED BY <1>0, <2>1, <2>2 DEF Launches, TypeOK
<1>2. CASE Close
  BY <1>0, <1>2 DEF Close, Launches, TypeOK, agentVars
<1>3. ASSUME NEW g \in Gens, ProcEmit(g) PROVE Launches'
  <2>1. ~(g > sendGen) /\ proc[g] \in {"alive", "stopping"}
    BY <1>3 DEF ProcEmit, Launches
  <2> QED BY <1>0, <1>3, <2>1 DEF ProcEmit, Launches, TypeOK, sessVars, agentVars
<1>a. ASSUME NEW g \in Gens, ProcStreams(g) PROVE Launches'
  <2>1. ~(g > sendGen)
    BY <1>a, StreamAt DEF Launches
  <2>2. UNCHANGED <<gen, sendGen, sessionID, proc, todo>>
        /\ \A h \in Gens : h # g => stdout'[h] = stdout[h]
    <3>1. PICK s : stdout' = [stdout EXCEPT ![g] = s]
      BY <1>a, StreamAt
    <3>2. \A h \in Gens : h # g => stdout'[h] = stdout[h]
      BY <3>1 DEF TypeOK
    <3>3. UNCHANGED <<gen, sendGen, sessionID, proc, todo>>
      BY <1>a, StreamAt
    <3> QED BY <3>2, <3>3
  <2> QED BY <1>0, <2>1, <2>2 DEF Launches
<1>4. ASSUME NEW g \in Gens, ProcDies(g) PROVE Launches'
  <2>1. ~(g > gen)
    BY <1>4 DEF ProcDies, Launches
  <2> QED BY <1>0, <1>4, <2>1 DEF ProcDies, Launches, TypeOK, sessVars, agentVars
<1>5. CASE SendBegin
  BY <1>0, <1>5 DEF SendBegin, Launches, sessVars, procVars
<1>6. CASE SendWrite
  <2>1. UNCHANGED <<gen, sessionID, sendGen, proc, stdout>>
    BY <1>6 DEF SendWrite, sessVars
  <2>2. \A g \in Gens : todo'[g] = todo[g] \/ (g = sendGen /\ proc[g] = "alive")
    BY <1>6 DEF SendWrite, WriteMessage, TypeOK
  <2>3. ASSUME NEW g \in Gens, g > sendGen PROVE todo'[g] = <<>> /\ stdout'[g] = <<>>
    BY <1>0, <2>1, <2>2, <2>3 DEF Launches
  <2>4. ASSUME NEW g \in Gens, proc'[g] \in {"none", "dead"} PROVE todo'[g] = <<>>
    BY <2>1, <2>2, <2>4 DEF Launches
  <2> QED BY <2>1, <2>3, <2>4 DEF Launches
<1>7. ASSUME NEW r \in Reqs, ReadChunk(r) PROVE Launches'
  <2>1. UNCHANGED <<gen, sessionID, sendGen, proc, todo>>
    BY <1>7 DEF ReadChunk, sessVars, agentVars
  <2>2. stdout[readerGen[r]] # <<>>
    BY <1>7, ChunkAt
  <2>3. PICK s : stdout' = [stdout EXCEPT ![readerGen[r]] = s]
    BY <1>7, ChunkAt
  <2>4. \A g \in Gens : stdout'[g] # stdout[g] => g = readerGen[r]
    BY <2>3 DEF TypeOK
  <2> QED BY <1>0, <2>1, <2>2, <2>4 DEF Launches
<1>8. CASE PumpReceive \/ PumpDeliver
  <2>1. UNCHANGED <<gen, sendGen, proc, todo, stdout>>
    BY <1>8 DEF PumpReceive, PumpDeliver, procVars, agentVars
  <2>2. sessionID' = sessionID \/ sessionID' = sendGen
    BY <1>8 DEF PumpReceive, PumpDeliver, TrackID, Places
  <2>3. sessionID <= sendGen /\ sendGen \in Int
    BY <1>0 DEF Launches
  <2>4. sessionID' <= sendGen
    BY <2>2, <2>3
  <2> QED BY <2>1, <2>4 DEF Launches
<1>9. ASSUME UNCHANGED <<gen, sessionID, sendGen, proc, todo, stdout>> PROVE Launches'
  BY <1>9 DEF Launches
<1>10. CancelCtx \/ (\E r \in Reqs : OfferLine(r)) \/ (\E r \in Reqs : ReaderEnds(r))
         \/ PumpEnds \/ Watchdog \/ Complete \/ UNCHANGED vars
       => UNCHANGED <<gen, sessionID, sendGen, proc, todo, stdout>>
  BY DEF CancelCtx, OfferLine, ReaderEnds, PumpEnds, Watchdog, Complete, vars, sessVars,
     procVars, agentVars
<1> QED BY <1>1, <1>2, <1>3, <1>a, <1>4, <1>5, <1>6, <1>7, <1>8, <1>9, <1>10, StepCases

(* The readers and the pump meet only where the current Send put them.     *)
LEMMA PlacesStep ==
  ASSUME TypeOK, Launches, Places, Readers, [Next]_vars
  PROVE  Places'
<1> USE Bounds
<1>0. cur \in Nat /\ \A r \in Reqs : r \in Nat
  BY DEF TypeOK
<1>1. CASE SendBegin
  <2>1. cur' = cur + 1 /\ cur + 1 \in Reqs /\ agent = "idle" /\ pump = "closed"
    BY <1>0, <1>1 DEF SendBegin, Reqs, Places, TypeOK
  <2>2. UNCHANGED <<pump, held, reader, readerGen, delivered>>
    BY <1>1 DEF SendBegin, readVars
  <2>3. \A r \in Reqs : r # cur + 1 => outcome'[r] = outcome[r]
    BY <1>1 DEF SendBegin, TypeOK
  <2>4. (agent' = "write" /\ sendGen' = gen /\ outcome' = outcome) \/ agent' = "idle"
    BY <1>1 DEF SendBegin
  <2>5. cur + 1 > cur /\ \A r \in Reqs : r > cur + 1 => r > cur /\ r # cur + 1
    BY <1>0
  <2>6. reader[cur + 1] = "none" /\ outcome[cur + 1] = "none" /\ delivered[cur + 1] = <<>>
    BY <2>1, <2>5 DEF Places
  <2>7. held = <<>> /\ cur + 1 # 0
    BY <1>0, <2>1 DEF Places
  <2>8. \A r \in Reqs : r > cur + 1 =>
          reader[r] = "none" /\ outcome'[r] = "none" /\ delivered[r] = <<>>
    BY <2>3, <2>5 DEF Places
  <2> QED BY <2>1, <2>2, <2>4, <2>6, <2>7, <2>8 DEF Places, Launches
<1>2. CASE SendWrite
  <2>1. cur \in Reqs /\ sendGen \in Gens /\ pump = "closed" /\ outcome[cur] = "none"
    BY <1>2 DEF SendWrite, Places
  <2>2. UNCHANGED <<cur, sendGen, held, delivered>>
    BY <1>2 DEF SendWrite
  <2>3. \A r \in Reqs : r > cur =>
          reader'[r] = reader[r] /\ outcome'[r] = outcome[r] /\ delivered'[r] = delivered[r]
    BY <1>0, <1>2 DEF SendWrite, TypeOK
  <2>4. \/ /\ agent' = "receive" /\ outcome' = outcome
           /\ reader'[cur] = "scanning" /\ readerGen'[cur] = sendGen
           /\ pump' = "receive"
        \/ /\ agent' = "idle" /\ pump' = "closed"
           /\ UNCHANGED <<reader, readerGen>>
    BY <1>2, <2>1 DEF SendWrite, TypeOK
  <2> QED BY <2>1, <2>2, <2>3, <2>4 DEF Places
<1>3. ASSUME NEW r \in Reqs, OfferLine(r) \/ ReaderEnds(r) PROVE Places'
  <2>1. UNCHANGED <<agent, cur, sendGen, pump, held, readerGen, delivered, outcome>>
    BY <1>3 DEF OfferLine, ReaderEnds, agentVars, histVars
  <2>2. \A q \in Reqs : reader'[q] = "none" <=> reader[q] = "none"
    BY <1>3, SMTT(60) DEF OfferLine, ReaderEnds, TypeOK
  <2> QED BY <2>1, <2>2 DEF Places
<1>4. CASE PumpReceive
  <2>1. UNCHANGED <<agent, cur, sendGen, readerGen, delivered, outcome>>
        /\ pump = "receive" /\ pump' = "deliver"
    BY <1>4 DEF PumpReceive, agentVars, histVars
  <2>2. \A q \in Reqs : reader'[q] = "none" <=> reader[q] = "none"
    BY <1>4 DEF PumpReceive, TypeOK
  <2> QED BY <2>1, <2>2 DEF Places
<1>5. CASE PumpDeliver \/ PumpEnds \/ Watchdog
  <2>1. UNCHANGED <<agent, cur, sendGen, reader, readerGen>> /\ pump # "closed"
    BY <1>5 DEF PumpDeliver, PumpEnds, Watchdog, MayFire, agentVars, readVars
  <2>2. \A r \in Reqs : r > cur => delivered'[r] = delivered[r] /\ outcome'[r] = outcome[r]
    <3>1. ASSUME PumpDeliver, NEW r \in Reqs, r > cur PROVE delivered'[r] = delivered[r]
      <4>1. PICK d : delivered' = delivered \/ delivered' = [delivered EXCEPT ![cur] = d]
        BY <3>1, GiveAt
      <4>2. r # cur
        BY <1>0, <3>1
      <4> QED BY <4>1, <4>2 DEF TypeOK
    <3>2. \A r \in Reqs : r > cur => outcome'[r] = outcome[r]
      BY <1>0, <1>5 DEF PumpDeliver, PumpEnds, Watchdog, TypeOK
    <3> QED BY <1>5, <3>1, <3>2 DEF PumpEnds, Watchdog
  <2>3. pump' = "closed" \/ UNCHANGED outcome
    BY <1>5 DEF PumpDeliver, PumpEnds, Watchdog
  <2>4. agent = "receive"
    BY <2>1 DEF Places
  <2>5. pump' # "deliver" /\ held' = <<>>
    BY <1>5 DEF PumpDeliver, PumpEnds, Watchdog, MayFire, Places
  <2> QED BY <2>1, <2>2, <2>3, <2>4, <2>5 DEF Places
<1>6. CASE Complete
  BY <1>6 DEF Complete, Places, readVars, histVars
<1>7. ASSUME UNCHANGED <<agent, cur, sendGen, pump, held, reader, readerGen, delivered, outcome>>
      PROVE  Places'
  BY <1>7 DEF Places
<1>8. Start \/ Close \/ CancelCtx
        \/ (\E g \in Gens : ProcEmit(g)) \/ (\E g \in Gens : ProcStreams(g))
        \/ (\E g \in Gens : ProcDies(g)) \/ (\E r \in Reqs : ReadChunk(r)) \/ UNCHANGED vars
      => UNCHANGED <<agent, cur, sendGen, pump, held, reader, readerGen, delivered, outcome>>
  BY DEF Start, Close, CancelCtx, ProcEmit, ProcStreams, ProcDies, ReadChunk, vars,
     agentVars, readVars, histVars
<1> QED BY <1>1, <1>2, <1>3, <1>4, <1>5, <1>6, <1>7, <1>8, StepCases

(* A reader ends at the end of the stream for good: nothing is written to  *)
(* the stdout of a process that is dead.                                   *)
LEMMA ReadersStep ==
  ASSUME TypeOK, Launches, Places, Readers, [Next]_vars
  PROVE  Readers'
<1> USE Bounds
<1>0. gen \in Nat /\ cur \in Nat
  BY DEF TypeOK
<1>1. ASSUME NEW r \in Reqs, ctxDone => ctxDone',
             reader'[r] = reader[r], buf'[r] = buf[r], readerGen'[r] = readerGen[r],
             \A g \in Gens : proc[g] = "dead" /\ stdout[g] = <<>> =>
                             proc'[g] = "dead" /\ stdout'[g] = <<>>
      PROVE  /\ reader'[r] # "none" => readerGen'[r] \in Gens
             /\ reader'[r] = "none" => buf'[r] = <<>>
             /\ reader'[r] = "offering" => buf'[r] # <<>>
             /\ reader'[r] = "ended" =>
                  \/ ctxDone'
                  \/ proc'[readerGen'[r]] = "dead" /\ stdout'[readerGen'[r]] = <<>>
  <2>1. reader[r] = "ended" => readerGen[r] \in Gens
    BY DEF Readers
  <2>2. reader[r] = "ended" =>
          ctxDone \/ (proc[readerGen[r]] = "dead" /\ stdout[readerGen[r]] = <<>>)
    BY DEF Readers
  <2>3. reader'[r] = "ended" =>
          ctxDone' \/ (proc'[readerGen'[r]] = "dead" /\ stdout'[readerGen'[r]] = <<>>)
    BY <1>1, <2>1, <2>2
  <2> QED BY <1>1, <2>3 DEF Readers
<1>2. CASE \/ Start \/ Close \/ CancelCtx
           \/ \E g \in Gens : ProcEmit(g) \/ ProcStreams(g) \/ ProcDies(g)
  <2>1. UNCHANGED <<reader, readerGen, buf>>
    BY <1>2 DEF Start, Close, CancelCtx, ProcEmit, ProcStreams, ProcDies, readVars
  <2>2. ctxDone => ctxDone'
    BY <1>2 DEF Start, Close, CancelCtx, ProcEmit, ProcStreams, ProcDies
  <2>3. \A g \in Gens : proc[g] = "dead" /\ stdout[g] = <<>> =>
                        proc'[g] = "dead" /\ stdout'[g] = <<>>
    <3>1. CASE Start
      <4>1. stdout' = stdout /\ proc' = [proc EXCEPT ![gen + 1] = "alive"]
        BY <3>1 DEF Start, Launch
      <4>2. gen + 1 \in Gens => proc[gen + 1] = "none"
        BY <1>0 DEF Launches
      <4> QED BY <4>1, <4>2 DEF TypeOK
    <3>2. CASE Close
      BY <3>2 DEF Close, TypeOK
    <3>3. CASE CancelCtx
      BY <3>3 DEF CancelCtx, procVars
    <3>4. ASSUME NEW k \in Gens, ProcEmit(k)
          PROVE  \A g \in Gens : proc[g] = "dead" /\ stdout[g] = <<>> =>
                                 proc'[g] = "dead" /\ stdout'[g] = <<>>
      BY <3>4 DEF ProcEmit, TypeOK
    <3>5. ASSUME NEW k \in Gens, ProcDies(k)
          PROVE  \A g \in Gens : proc[g] = "dead" /\ stdout[g] = <<>> =>
                                 proc'[g] = "dead" /\ stdout'[g] = <<>>
      BY <3>5 DEF ProcDies, TypeOK
    <3>6. ASSUME NEW k \in Gens, ProcStreams(k)
          PROVE  \A g \in Gens : proc[g] = "dead" /\ stdout[g] = <<>> =>
                                 proc'[g] = "dead" /\ stdout'[g] = <<>>
      BY <3>6 DEF ProcStreams, TypeOK
    <3> QED BY <1>2, <3>1, <3>2, <3>3, <3>4, <3>5, <3>6
  <2> QED BY <2>1, <2>2, <2>3, <1>1 DEF Readers
<1>3. CASE SendWrite
  <2>1. cur \in Reqs /\ sendGen \in Gens /\ reader[cur] = "none" /\ buf[cur] = <<>>
    BY <1>3 DEF SendWrite, Places, Readers
  <2>2. UNCHANGED <<ctxDone, proc, stdout, buf>>
    BY <1>3 DEF SendWrite
  <2>3. \/ UNCHANGED <<reader, readerGen>>
        \/ /\ reader' = [reader EXCEPT ![cur] = "scanning"]
           /\ readerGen' = [readerGen EXCEPT ![cur] = sendGen]
    BY <1>3 DEF SendWrite
  <2>4. \A r \in Reqs : r # cur => reader'[r] = reader[r] /\ readerGen'[r] = readerGen[r]
    BY <2>1, <2>3 DEF TypeOK
  <2>5. \/ reader'[cur] = "none"
        \/ reader'[cur] = "scanning" /\ readerGen'[cur] = sendGen
    BY <2>1, <2>3 DEF TypeOK
  <2> QED BY <2>1, <2>2, <2>4, <2>5, ZenonT(60) DEF Readers
<1>4. ASSUME NEW q \in Reqs, ReadChunk(q) PROVE Readers'
  <2> DEFINE k == readerGen[q]
  <2>1. k \in Gens /\ stdout[k] # <<>> /\ reader[q] = "scanning"
    BY <1>4, ChunkAt
  <2>2. /\ \A r \in Reqs : r # q => buf'[r] = buf[r]
        /\ \A g \in Gens : g # k => stdout'[g] = stdout[g]
    <3>1. PICK n \in 1..Len(stdout[k]) :
            /\ buf' = [buf EXCEPT ![q] = SubSeq(stdout[k], 1, n)]
            /\ stdout' = [stdout EXCEPT ![k] = SubSeq(stdout[k], n + 1, Len(stdout[k]))]
      BY <1>4, ChunkAt
    <3> QED BY <3>1 DEF TypeOK
  <2>3. UNCHANGED <<ctxDone, proc, reader, readerGen>>
    BY <1>4 DEF ReadChunk
  <2> HIDE DEF k
  <2>4. \A g \in Gens : proc[g] = "dead" /\ stdout[g] = <<>> =>
                        proc'[g] = "dead" /\ stdout'[g] = <<>>
    BY <2>1, <2>2, <2>3
  <2> QED BY <2>1, <2>2, <2>3, <2>4, <1>1 DEF Readers, k
<1>5. ASSUME NEW q \in Reqs, OfferLine(q) PROVE Readers'
  BY <1>5 DEF OfferLine, Readers, TypeOK, procVars
<1>6. ASSUME NEW q \in Reqs, ReaderEnds(q) PROVE Readers'
  BY <1>6 DEF ReaderEnds, Readers, TypeOK, procVars
<1>7. CASE PumpReceive
  <2>1. cur \in Reqs
    BY <1>7 DEF PumpReceive, Places
  <2> QED BY <1>7, <2>1 DEF PumpReceive, Readers, TypeOK, procVars
<1>8. ASSUME UNCHANGED <<ctxDone, proc, stdout, reader, readerGen, buf>> PROVE Readers'
  BY <1>8 DEF Readers
<1>9. SendBegin \/ PumpDeliver \/ PumpEnds \/ Watchdog \/ Complete \/ UNCHANGED vars
      => UNCHANGED <<ctxDone, proc, stdout, reader, readerGen, buf>>
  BY DEF SendBegin, PumpDeliver, PumpEnds, Watchdog, Complete, vars, procVars, readVars
<1> QED BY <1>2, <1>3, <1>4, <1>5, <1>6, <1>7, <1>8, <1>9, StepCases

-----------------------------------------------------------------------------
(* A bound of requests may be raised.                                      *)
LEMMA UpToMore ==
  ASSUME NEW s \in Seq(Event), NEW k \in Int, NEW m \in Int, k <= m, UpTo(s, k)
  PROVE  UpTo(s, m)
<1> SUFFICES ASSUME NEW i \in 1..Len(s) PROVE s[i].req <= m
  BY DEF UpTo
<1>1. s[i].req \in Int
  <2>1. s[i] \in Event
    BY ElementOfSeq
  <2> QED BY <2>1 DEF Event, Reqs
<1>2. s[i].req <= k
  BY DEF UpTo
<1> QED BY <1>1, <1>2

(* What an event is about was written before it was read.                  *)
LEMMA NoneAheadStep ==
  ASSUME TypeOK, Launches, Places, Readers, NoneAhead, LineInOrder, [Next]_vars
  PROVE  NoneAhead'
<1> USE Bounds
<1>0. cur \in Nat /\ LastWritten \in Int /\ LastWritten <= cur
  BY DEF TypeOK, LastWritten
<1>1. ASSUME NEW m \in Int, LastWritten <= m
      PROVE  /\ \A g \in Gens : UpTo(todo[g], m) /\ UpTo(stdout[g], m)
             /\ \A r \in Reqs : UpTo(buf[r], m) /\ UpTo(delivered[r], m)
             /\ UpTo(held, m)
  BY <1>0, <1>1, UpToMore DEF NoneAhead, TypeOK
<1>2. ASSUME NEW g \in Gens, ProcEmit(g) PROVE NoneAhead'
  <2>1. todo[g] \in Seq(Event) /\ todo[g] # <<>> /\ stdout[g] \in Seq(Event)
    BY <1>2 DEF ProcEmit, TypeOK
  <2>2. UNCHANGED LastWritten
    BY <1>2 DEF ProcEmit, LastWritten, agentVars
  <2>3. Head(todo[g]) \in Event /\ Head(todo[g]).req <= LastWritten
    BY <1>0, <2>1, OfHead DEF NoneAhead
  <2>4. UpTo(Append(stdout[g], Head(todo[g])), LastWritten)
    BY <1>0, <2>1, <2>3, OfAppend DEF NoneAhead
  <2>5. UpTo(Tail(todo[g]), LastWritten)
    BY <1>0, <2>1, OfBehead DEF NoneAhead, PartOf
  <2>6. /\ stdout' = [stdout EXCEPT ![g] = Append(@, Head(todo[g]))]
        /\ todo' = [todo EXCEPT ![g] = Tail(@)]
        /\ UNCHANGED <<buf, delivered, held>>
    BY <1>2 DEF ProcEmit, readVars, histVars
  <2>7. \A h \in Gens : UpTo(todo'[h], LastWritten) /\ UpTo(stdout'[h], LastWritten)
    BY <2>4, <2>5, <2>6 DEF NoneAhead, TypeOK
  <2> QED BY <2>2, <2>6, <2>7 DEF NoneAhead
<1>a. ASSUME NEW g \in Gens, ProcStreams(g) PROVE NoneAhead'
  <2> DEFINE e == Delta(Head(todo[g]).req)
  <2>1. /\ todo[g] \in Seq(Event) /\ todo[g] # <<>> /\ stdout[g] \in Seq(Event)
        /\ e \in Event /\ e.req = Head(todo[g]).req
        /\ stdout' = [stdout EXCEPT ![g] = Append(stdout[g], e)]
        /\ UNCHANGED <<agent, cur, todo, buf, delivered, held>>
    BY <1>a, StreamAt
  <2> HIDE DEF e
  <2>2. UNCHANGED LastWritten
    BY <2>1 DEF LastWritten
  <2>3. e.req <= LastWritten
    BY <1>0, <2>1, OfHead DEF NoneAhead
  <2>4. UpTo(Append(stdout[g], e), LastWritten)
    BY <1>0, <2>1, <2>3, OfAppend DEF NoneAhead
  <2>5. \A h \in Gens : UpTo(stdout'[h], LastWritten)
    BY <2>1, <2>4 DEF NoneAhead, TypeOK
  <2> QED BY <2>1, <2>2, <2>5 DEF NoneAhead
<1>3. ASSUME NEW g \in Gens, ProcDies(g) PROVE NoneAhead'
  <2>1. UNCHANGED <<LastWritten, stdout, buf, delivered, held>>
    BY <1>3 DEF ProcDies, LastWritten, agentVars, readVars, histVars
  <2>2. \A h \in Gens : UpTo(todo'[h], LastWritten)
    BY <1>3, OfNothing DEF ProcDies, NoneAhead, TypeOK
  <2> QED BY <2>1, <2>2 DEF NoneAhead
<1>4. CASE SendBegin
  <2>1. UNCHANGED <<todo, stdout, buf, delivered, held>>
    BY <1>4 DEF SendBegin, procVars, readVars
  <2>2. LastWritten' \in Int /\ LastWritten <= LastWritten'
    BY <1>0, <1>4 DEF SendBegin, LastWritten
  <2> QED BY <1>1, <2>1, <2>2 DEF NoneAhead
<1>5. CASE SendWrite
  <2>1. cur \in Reqs /\ sendGen \in Gens /\ LastWritten = cur - 1 /\ LastWritten' = cur
    BY <1>5 DEF SendWrite, Places, LastWritten
  <2>2. UNCHANGED <<stdout, buf, delivered, held>>
    BY <1>5 DEF SendWrite
  <2> DEFINE m == << [req |-> cur, kind |-> "init"], [req |-> cur, kind |-> "result"] >>
  <2>3. UpTo(todo[sendGen] \o m, cur)
    <3>1. /\ delivered[cur] \in Seq(Event) /\ held \in Seq(Event)
          /\ buf[cur] \in Seq(Event) /\ stdout[sendGen] \in Seq(Event)
          /\ todo[sendGen] \in Seq(Event)
      BY <2>1 DEF TypeOK
    <3>2. InOrder(delivered[cur], held, buf[cur], stdout[sendGen], todo[sendGen])
      BY <2>1 DEF LineInOrder
    <3>3. /\ UpTo(delivered[cur], cur - 1) /\ UpTo(held, cur - 1) /\ UpTo(buf[cur], cur - 1)
          /\ UpTo(stdout[sendGen], cur - 1) /\ UpTo(todo[sendGen], cur - 1)
      BY <2>1 DEF NoneAhead
    <3>4. UpTo(Written(todo[sendGen], cur), cur)
      <4>1. PICK r, d, h, b, s, t :
              r = cur /\ d = delivered[cur] /\ h = held /\ b = buf[cur]
                /\ s = stdout[sendGen] /\ t = todo[sendGen]
        OBVIOUS
      <4>2. r \in Reqs /\ InOrder(d, h, b, s, t)
        BY <2>1, <3>2, <4>1
      <4>3. UpTo(Written(t, r), r)
        BY <3>1, <3>3, <4>1, <4>2, LineWrite, SMTT(60)
      <4> QED BY <4>1, <4>3
    <3> QED BY <3>4 DEF Written
  <2>4. todo' = todo \/ todo' = [todo EXCEPT ![sendGen] = @ \o m]
    BY <1>5 DEF SendWrite, WriteMessage
  <2> HIDE DEF m
  <2>5. \A g \in Gens : UpTo(todo'[g], cur)
    <3>1. ASSUME NEW g \in Gens PROVE UpTo(todo[g], cur)
      <4>1. cur \in Int /\ LastWritten <= cur
        BY <1>0
      <4> QED BY <1>1, <4>1
    <3>2. ASSUME NEW g \in Gens PROVE todo'[g] = todo[g] \/ todo'[g] = todo[sendGen] \o m
      BY <2>1, <2>4 DEF TypeOK
    <3> QED BY <2>3, <3>1, <3>2
  <2> QED BY <1>0, <1>1, <2>1, <2>2, <2>5 DEF NoneAhead
<1>6. ASSUME NEW q \in Reqs, ReadChunk(q) PROVE NoneAhead'
  <2> DEFINE k == readerGen[q]
             s == stdout[k]
  <2>1. k \in Gens /\ s \in Seq(Event)
    BY <1>6, ChunkAt
  <2>2. PICK n \in 1..Len(s) :
          /\ buf' = [buf EXCEPT ![q] = SubSeq(s, 1, n)]
          /\ stdout' = [stdout EXCEPT ![k] = SubSeq(s, n + 1, Len(s))]
          /\ PartOf(SubSeq(s, 1, n), s)
          /\ PartOf(SubSeq(s, n + 1, Len(s)), s)
    BY <1>6, ChunkAt
  <2>3. UNCHANGED <<LastWritten, todo, delivered, held>>
    BY <1>6 DEF ReadChunk, LastWritten, agentVars, histVars
  <2>4. UpTo(s, LastWritten)
    BY <2>1 DEF NoneAhead
  <2> HIDE DEF s
  <2>5. UpTo(SubSeq(s, 1, n), LastWritten) /\ UpTo(SubSeq(s, n + 1, Len(s)), LastWritten)
    BY <1>0, <2>2, <2>4 DEF PartOf
  <2> HIDE DEF k
  <2>6. \A r \in Reqs : UpTo(buf'[r], LastWritten)
    BY <2>2, <2>5 DEF NoneAhead, TypeOK
  <2>7. \A g \in Gens : UpTo(stdout'[g], LastWritten)
    BY <2>2, <2>5 DEF NoneAhead, TypeOK
  <2> QED BY <2>3, <2>6, <2>7 DEF NoneAhead
<1>7. ASSUME NEW q \in Reqs, ReaderEnds(q) PROVE NoneAhead'
  <2>1. UNCHANGED <<LastWritten, todo, stdout, delivered, held>>
    BY <1>7 DEF ReaderEnds, LastWritten, procVars, agentVars, histVars
  <2>2. \A r \in Reqs : UpTo(buf'[r], LastWritten)
    BY <1>7, OfNothing DEF ReaderEnds, NoneAhead, TypeOK
  <2> QED BY <2>1, <2>2 DEF NoneAhead
<1>8. CASE PumpReceive
  <2>1. cur \in Reqs /\ buf[cur] \in Seq(Event) /\ buf[cur] # <<>>
    BY <1>8 DEF PumpReceive, Places, Readers, TypeOK
  <2>2. UNCHANGED <<LastWritten, todo, stdout, delivered>>
    BY <1>8 DEF PumpReceive, LastWritten, procVars, agentVars, histVars
  <2>3. /\ held' = << Head(buf[cur]) >>
        /\ buf' = [buf EXCEPT ![cur] = Tail(buf[cur])]
    BY <1>8 DEF PumpReceive, NextLine
  <2>4. UpTo(<< Head(buf[cur]) >>, LastWritten) /\ UpTo(Tail(buf[cur]), LastWritten)
    BY <1>0, <2>1, OfBehead DEF NoneAhead, PartOf
  <2>5. \A r \in Reqs : UpTo(buf'[r], LastWritten)
    BY <2>3, <2>4 DEF NoneAhead, TypeOK
  <2> QED BY <2>2, <2>3, <2>4, <2>5 DEF NoneAhead
<1>9. CASE PumpDeliver
  <2>1. cur \in Reqs /\ agent = "receive" /\ LastWritten = cur
    BY <1>9 DEF PumpDeliver, Places, LastWritten
  <2>2. UNCHANGED <<LastWritten, todo, stdout, buf>>
    BY <1>9 DEF PumpDeliver, LastWritten, procVars, agentVars, readVars
  <2>3. /\ held' = <<>>
        /\ delivered' = delivered
             \/ delivered' = [delivered EXCEPT ![cur] = Append(delivered[cur], held[1])]
    BY <1>9, GiveAt DEF PumpDeliver
  <2>4. held[1] \in Event /\ held[1].req <= cur
    <3>1. Len(held) = 1 /\ held \in Seq(Event) /\ held[1] \in Event
      BY <1>9, GiveAt
    <3>2. 1 \in 1..Len(held)
      BY <3>1
    <3> QED BY <2>1, <3>1, <3>2 DEF NoneAhead, UpTo
  <2>5. UpTo(Append(delivered[cur], held[1]), cur)
    BY <1>0, <2>1, <2>4, OfAppend DEF NoneAhead, TypeOK
  <2>6. \A r \in Reqs : UpTo(delivered'[r], LastWritten) /\ UpTo(delivered'[r], r)
    BY <2>1, <2>3, <2>5 DEF NoneAhead, TypeOK
  <2> QED BY <2>2, <2>3, <2>6, OfNothing DEF NoneAhead
<1>10. CASE PumpEnds
  <2>1. UNCHANGED <<LastWritten, todo, stdout, buf, delivered>> /\ held' = <<>>
    BY <1>10 DEF PumpEnds, LastWritten, procVars, agentVars, readVars
  <2> QED BY <2>1, OfNothing DEF NoneAhead
<1>11. ASSUME UNCHANGED <<LastWritten, todo, stdout, buf, delivered, held>> PROVE NoneAhead'
  BY <1>11 DEF NoneAhead
<1>12. Start \/ Close \/ CancelCtx \/ (\E q \in Reqs : OfferLine(q)) \/ Watchdog
         \/ Complete \/ UNCHANGED vars
       => UNCHANGED <<LastWritten, todo, stdout, buf, delivered, held>>
  BY DEF Start, Close, CancelCtx, OfferLine, Watchdog, Complete, vars, LastWritten,
     procVars, agentVars, readVars, histVars
<1> QED BY <1>2, <1>a, <1>3, <1>4, <1>5, <1>6, <1>7, <1>8, <1>9, <1>10, <1>11, <1>12,
           StepCases

(* Where the current Send draws its events from.                           *)
LEMMA LineTypes ==
  ASSUME TypeOK, cur \in Reqs, sendGen \in Gens, NEW r \in Reqs
  PROVE  /\ delivered[r] \in Seq(Event) /\ held \in Seq(Event)
         /\ buf[cur] \in Seq(Event) /\ stdout[sendGen] \in Seq(Event)
         /\ todo[sendGen] \in Seq(Event)
BY DEF TypeOK

(* Every step keeps the line in order: an event moves on from the end of   *)
(* one place to the end of the next, or is lost, and what is written is    *)
(* about a later request.                                                  *)
LEMMA LineStep ==
  ASSUME TypeOK, Launches, Places, Readers, NoneAhead, LineInOrder, [Next]_vars
  PROVE  LineInOrder'
<1> USE Bounds
<1>0. gen \in Nat /\ sendGen \in Nat /\ cur \in Nat /\ \A r \in Reqs : r \in Nat
  BY DEF TypeOK
(* Where the agent takes nothing, only the line matters.                   *)
<1>1. ASSUME UNCHANGED <<cur, sendGen, delivered>>,
             ASSUME cur \in Reqs, sendGen \in Gens, NEW r \in Reqs,
                    InOrder(delivered[r], held, buf[cur], stdout[sendGen], todo[sendGen])
             PROVE  InOrder(delivered[r], held', buf'[cur], stdout'[sendGen], todo'[sendGen])
      PROVE  LineInOrder'
  BY <1>1 DEF LineInOrder
<1>2. ASSUME NEW g \in Gens, ProcEmit(g) PROVE LineInOrder'
  <2>1. UNCHANGED <<cur, sendGen, delivered, held, buf>>
    BY <1>2 DEF ProcEmit, agentVars, readVars, histVars
  <2>2. ASSUME cur \in Reqs, sendGen \in Gens, NEW r \in Reqs,
               InOrder(delivered[r], held, buf[cur], stdout[sendGen], todo[sendGen])
        PROVE  InOrder(delivered[r], held, buf[cur], stdout'[sendGen], todo'[sendGen])
    <3>1. CASE g # sendGen
      <4>1. stdout'[sendGen] = stdout[sendGen] /\ todo'[sendGen] = todo[sendGen]
        BY <1>2, <2>2, <3>1 DEF ProcEmit, TypeOK
      <4> QED BY <2>2, <4>1
    <3>2. CASE g = sendGen
      <4>1. /\ todo[sendGen] # <<>>
            /\ stdout'[sendGen] = Append(stdout[sendGen], Head(todo[sendGen]))
            /\ todo'[sendGen] = Tail(todo[sendGen])
        BY <1>2, <2>2, <3>2 DEF ProcEmit, TypeOK
      <4> QED BY <2>2, <4>1, LineTypes, LineEmit, SMTT(60)
    <3> QED BY <3>1, <3>2
  <2> QED BY <2>1, <2>2, <1>1
<1>a. ASSUME NEW g \in Gens, ProcStreams(g) PROVE LineInOrder'
  <2>1. UNCHANGED <<cur, sendGen, delivered, held, buf, todo>>
    BY <1>a, StreamAt
  <2>2. ASSUME cur \in Reqs, sendGen \in Gens, NEW r \in Reqs,
               InOrder(delivered[r], held, buf[cur], stdout[sendGen], todo[sendGen])
        PROVE  InOrder(delivered[r], held, buf[cur], stdout'[sendGen], todo[sendGen])
    <3>1. CASE g # sendGen
      <4>1. stdout'[sendGen] = stdout[sendGen]
        <5>1. PICK s : stdout' = [stdout EXCEPT ![g] = s]
          BY <1>a, StreamAt
        <5> QED BY <2>2, <3>1, <5>1 DEF TypeOK
      <4> QED BY <2>2, <4>1
    <3>2. CASE g = sendGen
      <4>1. /\ todo[sendGen] # <<>> /\ Head(todo[sendGen]).kind = "result"
            /\ stdout'[sendGen] = Append(stdout[sendGen], Delta(Head(todo[sendGen]).req))
        <5>1. PICK s : /\ s = Append(stdout[g], Delta(Head(todo[g]).req))
                       /\ stdout' = [stdout EXCEPT ![g] = s]
          BY <1>a, StreamAt
        <5>2. stdout'[g] = s
          BY <2>2, <3>2, <5>1 DEF TypeOK
        <5> QED BY <1>a, <3>2, <5>1, <5>2, StreamAt
      <4>2. /\ delivered[r] \in Seq(Event) /\ held \in Seq(Event)
            /\ buf[cur] \in Seq(Event) /\ stdout[sendGen] \in Seq(Event)
            /\ todo[sendGen] \in Seq(Event)
        BY <2>2, LineTypes
      <4>3. InOrder(delivered[r], held, buf[cur],
                    Append(stdout[sendGen], Delta(Head(todo[sendGen]).req)), todo[sendGen])
        BY <2>2, <4>1, <4>2, LineStream
      <4> QED BY <4>1, <4>3
    <3> QED BY <3>1, <3>2
  <2> QED BY <2>1, <2>2, <1>1
<1>3. ASSUME NEW g \in Gens, ProcDies(g) PROVE LineInOrder'
  <2>1. UNCHANGED <<cur, sendGen, delivered, held, buf, stdout>>
    BY <1>3 DEF ProcDies, agentVars, readVars, histVars
  <2>2. sendGen \in Gens => todo'[sendGen] \in {todo[sendGen], <<>>}
    BY <1>3 DEF ProcDies, TypeOK
  <2> QED BY <2>1, <2>2, <1>1, LineDrop
<1>4. CASE SendBegin
  <2>1. /\ cur' = cur + 1 /\ cur' \in Reqs /\ agent = "idle"
        /\ UNCHANGED <<stdout, todo, held, buf, delivered>>
        /\ sendGen' \in {sendGen, gen}
    BY <1>0, <1>4 DEF SendBegin, Reqs, TypeOK, procVars, readVars
  <2>2. held = <<>> /\ buf[cur'] = <<>>
    <3>1. pump = "closed"
      BY <2>1 DEF Places
    <3>2. cur' > cur
      BY <1>0, <2>1
    <3> QED BY <2>1, <3>1, <3>2 DEF Places, Readers
  <2>3. ASSUME sendGen' \in Gens, NEW r \in Reqs
        PROVE  InOrder(delivered[r], <<>>, <<>>, stdout[sendGen'], todo[sendGen'])
    <3>1. CASE sendGen' = sendGen
      <4>1. cur \in Reqs
        BY <1>0, <2>3, <3>1 DEF Places, Reqs, TypeOK
      <4>2. InOrder(delivered[r], held, buf[cur], stdout[sendGen], todo[sendGen])
        BY <2>3, <3>1, <4>1 DEF LineInOrder
      <4>3. InOrder(delivered[r], <<>>, buf[cur], stdout[sendGen], todo[sendGen])
        BY <4>2, LineDrop
      <4>4. InOrder(delivered[r], <<>>, <<>>, stdout[sendGen], todo[sendGen])
        BY <4>3, LineDrop
      <4> QED BY <3>1, <4>4
    <3>2. CASE sendGen' # sendGen
      <4>1. sendGen' > sendGen
        BY <1>0, <2>1, <3>2 DEF Launches
      <4>2. stdout[sendGen'] = <<>> /\ todo[sendGen'] = <<>>
        BY <2>3, <4>1 DEF Launches
      <4>3. Sorted(delivered[r])
        BY <2>3 DEF LineInOrder
      <4>4. InOrder(delivered[r], <<>>, <<>>, <<>>, <<>>)
        BY <4>3, OfNothing DEF InOrder
      <4> QED BY <4>2, <4>4
    <3> QED BY <3>1, <3>2
  <2> QED BY <2>1, <2>2, <2>3 DEF LineInOrder
<1>5. CASE SendWrite
  <2>1. cur \in Reqs /\ sendGen \in Gens /\ LastWritten = cur - 1
    BY <1>5 DEF SendWrite, Places, LastWritten
  <2>2. UNCHANGED <<cur, sendGen, stdout, buf, delivered, held>>
    BY <1>5 DEF SendWrite
  <2> DEFINE w == Written(todo[sendGen], cur)
  <2>3. todo'[sendGen] = todo[sendGen] \/ todo'[sendGen] = w
    BY <1>5, <2>1 DEF SendWrite, WriteMessage, Written, TypeOK
  <2>4. ASSUME NEW r \in Reqs,
               InOrder(delivered[r], held, buf[cur], stdout[sendGen], todo[sendGen])
        PROVE  InOrder(delivered[r], held, buf[cur], stdout[sendGen], w)
    <3>1. /\ UpTo(delivered[r], cur - 1) /\ UpTo(held, cur - 1) /\ UpTo(buf[cur], cur - 1)
          /\ UpTo(stdout[sendGen], cur - 1) /\ UpTo(todo[sendGen], cur - 1)
      BY <2>1 DEF NoneAhead
    <3>2. /\ delivered[r] \in Seq(Event) /\ held \in Seq(Event)
          /\ buf[cur] \in Seq(Event) /\ stdout[sendGen] \in Seq(Event)
          /\ todo[sendGen] \in Seq(Event)
      BY <2>1, LineTypes
    <3> QED BY <2>1, <2>4, <3>1, <3>2, LineWrite
  <2> HIDE DEF w
  <2> QED BY <2>2, <2>3, <2>4, <1>1
<1>6. ASSUME NEW q \in Reqs, ReadChunk(q) PROVE LineInOrder'
  <2> DEFINE k == readerGen[q]
             s == stdout[k]
  <2>1. k \in Gens /\ s \in Seq(Event) /\ buf[q] = <<>> /\ reader[q] = "scanning"
        /\ UNCHANGED <<cur, sendGen, delivered, held, todo>>
    BY <1>6, ChunkAt DEF agentVars, histVars
  <2>2. PICK n \in 1..Len(s) :
          /\ buf' = [buf EXCEPT ![q] = SubSeq(s, 1, n)]
          /\ stdout' = [stdout EXCEPT ![k] = SubSeq(s, n + 1, Len(s))]
    BY <1>6, ChunkAt
  <2>3. ASSUME cur \in Reqs, sendGen \in Gens, NEW r \in Reqs,
               InOrder(delivered[r], held, buf[cur], stdout[sendGen], todo[sendGen])
        PROVE  InOrder(delivered[r], held, buf'[cur], stdout'[sendGen], todo[sendGen])
    <3>1. CASE k # sendGen
      <4>1. q # cur
        BY <2>1, <2>3, <3>1 DEF Places
      <4>2. buf'[cur] = buf[cur] /\ stdout'[sendGen] = stdout[sendGen]
        BY <2>2, <2>3, <3>1, <4>1 DEF TypeOK
      <4> QED BY <2>3, <4>2
    <3>2. CASE k = sendGen /\ q = cur
      <4>1. /\ buf'[cur] = SubSeq(stdout[sendGen], 1, n)
            /\ stdout'[sendGen] = SubSeq(stdout[sendGen], n + 1, Len(stdout[sendGen]))
            /\ buf[cur] = <<>>
        BY <2>1, <2>2, <2>3, <3>2 DEF TypeOK
      <4>2. n \in 1..Len(stdout[sendGen])
        BY <3>2
      <4>3. /\ delivered[r] \in Seq(Event) /\ held \in Seq(Event)
            /\ buf[cur] \in Seq(Event) /\ stdout[sendGen] \in Seq(Event)
            /\ todo[sendGen] \in Seq(Event)
        BY <2>3, LineTypes
      <4>4. InOrder(delivered[r], held, SubSeq(stdout[sendGen], 1, n),
                    SubSeq(stdout[sendGen], n + 1, Len(stdout[sendGen])), todo[sendGen])
        BY <2>3, <4>1, <4>2, <4>3, LineRead
      <4> QED BY <4>1, <4>4
    <3>3. CASE k = sendGen /\ q # cur
      <4>1. /\ buf'[cur] = buf[cur]
            /\ stdout'[sendGen] = SubSeq(stdout[sendGen], n + 1, Len(stdout[sendGen]))
        BY <2>1, <2>2, <2>3, <3>3 DEF TypeOK
      <4>2. n \in 1..Len(stdout[sendGen])
        BY <3>3
      <4>3. /\ delivered[r] \in Seq(Event) /\ held \in Seq(Event)
            /\ buf[cur] \in Seq(Event) /\ stdout[sendGen] \in Seq(Event)
            /\ todo[sendGen] \in Seq(Event)
        BY <2>3, LineTypes
      <4>4. InOrder(delivered[r], held, buf[cur],
                    SubSeq(stdout[sendGen], n + 1, Len(stdout[sendGen])), todo[sendGen])
        BY <2>3, <4>2, <4>3, LineRead
      <4> QED BY <4>1, <4>4
    <3> QED BY <3>1, <3>2, <3>3
  <2> QED BY <2>1, <2>3, <1>1
<1>7. ASSUME NEW q \in Reqs, ReaderEnds(q) PROVE LineInOrder'
  <2>1. UNCHANGED <<cur, sendGen, delivered, held, stdout, todo>>
    BY <1>7 DEF ReaderEnds, procVars, agentVars, histVars
  <2>2. cur \in Reqs => buf'[cur] \in {buf[cur], <<>>}
    BY <1>7 DEF ReaderEnds, TypeOK
  <2> QED BY <2>1, <2>2, <1>1, LineDrop
<1>8. CASE PumpReceive
  <2>1. cur \in Reqs /\ sendGen \in Gens /\ held = <<>> /\ buf[cur] # <<>>
    BY <1>8 DEF PumpReceive, Places, Readers
  <2>2. UNCHANGED <<cur, sendGen, delivered, stdout, todo>>
    BY <1>8 DEF PumpReceive, procVars, agentVars, histVars
  <2>3. held' = << Head(buf[cur]) >> /\ buf'[cur] = Tail(buf[cur])
    BY <1>8, <2>1 DEF PumpReceive, NextLine, TypeOK
  <2>4. ASSUME NEW r \in Reqs,
               InOrder(delivered[r], held, buf[cur], stdout[sendGen], todo[sendGen])
        PROVE  InOrder(delivered[r], held', buf'[cur], stdout[sendGen], todo[sendGen])
    BY <2>1, <2>3, <2>4, LineTypes, LineTake
  <2> QED BY <2>2, <2>4, <1>1
<1>b. CASE PumpDeliver /\ held[1].kind = "delta"
  <2>1. UNCHANGED <<cur, sendGen, delivered, buf, stdout, todo>> /\ held' = <<>>
    BY <1>b, GiveAt DEF PumpDeliver, procVars, agentVars, readVars
  <2> QED BY <2>1, <1>1, LineDrop
<1>9. CASE PumpDeliver /\ held[1].kind # "delta"
  <2>1. cur \in Reqs /\ sendGen \in Gens /\ Len(held) = 1
    BY <1>9 DEF PumpDeliver, Places, TypeOK
  <2>2. UNCHANGED <<cur, sendGen, buf, stdout, todo>> /\ held' = <<>>
    BY <1>9 DEF PumpDeliver, procVars, agentVars, readVars
  <2>3. /\ delivered'[cur] = Append(delivered[cur], held[1])
        /\ \A r \in Reqs : r # cur => delivered'[r] = delivered[r]
    BY <1>9, <2>1, GiveAt DEF TypeOK
  <2>4. \A r \in Reqs : InOrder(delivered[r], held, buf[cur], stdout[sendGen], todo[sendGen])
    BY <2>1 DEF LineInOrder
  <2>5. held[1] \in Event /\ held = << held[1] >>
    <3>1. held \in Seq(Event) /\ 1 \in 1..Len(held)
      BY <2>1 DEF TypeOK
    <3>2. held[1] \in Event
      BY <3>1, ElementOfSeq
    <3> QED BY <2>1, <3>1, <3>2, SeqEqual
  <2>6. ASSUME NEW r \in Reqs
        PROVE  InOrder(delivered'[r], <<>>, buf[cur], stdout[sendGen], todo[sendGen])
    <3>1. CASE r = cur
      <4>1. /\ delivered[cur] \in Seq(Event) /\ held \in Seq(Event)
            /\ buf[cur] \in Seq(Event) /\ stdout[sendGen] \in Seq(Event)
            /\ todo[sendGen] \in Seq(Event)
        BY <2>1, LineTypes
      <4>2. InOrder(Append(delivered[cur], held[1]), <<>>, buf[cur], stdout[sendGen],
                    todo[sendGen])
        BY <2>1, <2>4, <4>1, LineGive
      <4> QED BY <2>3, <3>1, <4>2
    <3>2. CASE r # cur
      BY <2>3, <2>4, <3>2, LineDrop
    <3> QED BY <3>1, <3>2
  <2>7. ASSUME NEW q \in Reqs, NEW r \in Reqs, q < r
        PROVE  Precedes(delivered'[q], delivered'[r])
    <3>1. q # r /\ Precedes(delivered[q], delivered[r])
      BY <1>0, <2>7 DEF LineInOrder
    <3>2. CASE r # cur /\ q # cur
      BY <2>3, <3>1, <3>2
    <3>3. CASE q = cur
      <4>1. r > cur /\ r # cur
        BY <1>0, <2>7, <3>3
      <4>2. delivered'[r] = <<>>
        BY <2>3, <4>1 DEF Places
      <4> QED BY <4>2, OfNothing
    <3>4. CASE r = cur
      <4>1. Precedes(delivered[q], held)
        BY <2>4 DEF InOrder
      <4>2. Precedes(delivered[q], << held[1] >>)
        BY <2>5, <4>1, Zenon
      <4>3. delivered[q] \in Seq(Event) /\ delivered[cur] \in Seq(Event)
        BY <2>1 DEF TypeOK
      <4>4. Precedes(delivered[q], delivered[cur])
        BY <3>1, <3>4
      <4>5. Precedes(delivered[q], Append(delivered[cur], held[1]))
        BY <2>5, <4>2, <4>3, <4>4, OfAppend
      <4>6. delivered'[q] = delivered[q] /\ delivered'[r] = Append(delivered[cur], held[1])
        BY <2>3, <3>1, <3>4
      <4> QED BY <4>5, <4>6
    <3> QED BY <3>2, <3>3, <3>4
  <2>8. \A r \in Reqs : Sorted(delivered'[r]) /\ NoDelta(delivered'[r])
    <3>1. \A r \in Reqs : Sorted(delivered'[r])
      BY <2>6 DEF InOrder
    <3>2. NoDelta(delivered[cur]) /\ \A r \in Reqs : r # cur => NoDelta(delivered'[r])
      BY <2>1, <2>3 DEF LineInOrder
    <3>3. delivered[cur] \in Seq(Event) /\ held[1].kind # "delta"
      BY <1>9, <2>1 DEF TypeOK
    <3>4. NoDelta(Append(delivered[cur], held[1]))
      BY <2>5, <3>2, <3>3, AppendProperties DEF NoDelta
    <3> QED BY <2>3, <3>1, <3>2, <3>4
  <2> QED BY <2>2, <2>6, <2>7, <2>8 DEF LineInOrder
<1>10. CASE PumpEnds
  <2>1. UNCHANGED <<cur, sendGen, delivered, buf, stdout, todo>> /\ held' = <<>>
    BY <1>10 DEF PumpEnds, procVars, agentVars, readVars
  <2> QED BY <2>1, <1>1, LineDrop
<1>11. ASSUME UNCHANGED <<cur, sendGen, delivered, held, buf, stdout, todo>>
       PROVE  LineInOrder'
  BY <1>11 DEF LineInOrder
<1>12. Start \/ Close \/ CancelCtx \/ (\E q \in Reqs : OfferLine(q)) \/ Watchdog
         \/ Complete \/ UNCHANGED vars
       => UNCHANGED <<cur, sendGen, delivered, held, buf, stdout, todo>>
  BY DEF Start, Close, CancelCtx, OfferLine, Watchdog, Complete, vars, procVars,
     agentVars, readVars, histVars
<1> QED BY <1>2, <1>a, <1>3, <1>4, <1>5, <1>6, <1>7, <1>8, <1>b, <1>9, <1>10, <1>11,
           <1>12, StepCases

(* A request that has ended has ended for good.                            *)
LEMMA OutcomeStays ==
  ASSUME TypeOK, Places, [Next]_vars, NEW q \in Reqs, outcome[q] # "none"
  PROVE  outcome'[q] = outcome[q] /\ delivered'[q] = delivered[q]
<1> USE Bounds
<1>0. cur \in Nat /\ q \in Nat
  BY DEF TypeOK
<1>1. CASE SendBegin
  <2>1. cur + 1 \in Reqs => outcome[cur + 1] = "none"
    BY <1>0 DEF Places
  <2>2. q # cur + 1
    BY <2>1
  <2> QED BY <1>1, <2>2 DEF SendBegin, TypeOK
<1>2. CASE SendWrite
  <2>1. q # cur
    BY <1>2 DEF SendWrite, Places
  <2> QED BY <1>2, <2>1 DEF SendWrite, TypeOK
<1>3. CASE PumpDeliver \/ PumpEnds \/ Watchdog
  <2>1. q # cur
    BY <1>3 DEF PumpDeliver, PumpEnds, Watchdog, MayFire, Places
  <2>2. PumpDeliver => delivered'[q] = delivered[q]
    BY <2>1, GiveAt DEF TypeOK
  <2> QED BY <1>3, <2>1, <2>2 DEF PumpDeliver, PumpEnds, Watchdog, TypeOK
<1>4. Start \/ Close \/ CancelCtx
        \/ (\E g \in Gens : ProcEmit(g)) \/ (\E g \in Gens : ProcStreams(g))
        \/ (\E g \in Gens : ProcDies(g)) \/ (\E r \in Reqs : ReadChunk(r))
        \/ (\E r \in Reqs : OfferLine(r)) \/ (\E r \in Reqs : ReaderEnds(r))
        \/ PumpReceive \/ Complete \/ UNCHANGED vars
      => UNCHANGED <<outcome, delivered>>
  BY DEF Start, Close, CancelCtx, ProcEmit, ProcStreams, ProcDies, ReadChunk, OfferLine,
     ReaderEnds, PumpReceive, Complete, vars, histVars
<1> QED BY <1>1, <1>2, <1>3, <1>4, StepCases

(* An event that is neither older nor newer than r is about r.             *)
LEMMA AboutCurrent ==
  ASSUME NEW s \in Seq(Event), s # <<>>, NEW r \in Int, From(s, r), UpTo(s, r)
  PROVE  Head(s).req = r /\ s[1].req = r
<1>1. /\ Head(s) \in Event /\ Head(s) = s[1]
      /\ Head(s).req <= r /\ Head(s).req >= r
  BY OfHead
<1>2. Head(s).req \in Int
  BY <1>1 DEF Event, Reqs
<1> QED BY <1>1, <1>2

(* Only a watchdog, or ctx, leaves something for the next Send to find.    *)
LEMMA StaleStep ==
  ASSUME TypeOK, Launches, Places, Readers, NoneAhead, LineInOrder, NothingStale, [Next]_vars
  PROVE  NothingStale'
<1> USE Bounds
<1>0. gen \in Nat /\ sendGen \in Nat /\ cur \in Nat /\ cur \in Int
  BY DEF TypeOK
<1> SUFFICES ASSUME NoWatchdogYet'
             PROVE  /\ From(held', cur')
                    /\ pump' # "closed" /\ reader'[cur'] = "offering"
                         => Head(buf'[cur']).req = cur'
                    /\ ~ctxDone' /\ pump' # "closed" =>
                         /\ From(buf'[cur'], cur') /\ From(stdout'[sendGen'], cur')
                         /\ From(todo'[sendGen'], cur')
                    /\ ~ctxDone' /\ pump' = "closed" /\ sendGen' \in Gens =>
                         stdout'[sendGen'] = <<>> /\ todo'[sendGen'] = <<>>
  BY DEF NothingStale
<1> DEFINE Goal == /\ From(held', cur')
                   /\ pump' # "closed" /\ reader'[cur'] = "offering"
                        => Head(buf'[cur']).req = cur'
                   /\ ~ctxDone' /\ pump' # "closed" =>
                        /\ From(buf'[cur'], cur') /\ From(stdout'[sendGen'], cur')
                        /\ From(todo'[sendGen'], cur')
                   /\ ~ctxDone' /\ pump' = "closed" /\ sendGen' \in Gens =>
                        stdout'[sendGen'] = <<>> /\ todo'[sendGen'] = <<>>
<1>a. NoWatchdogYet
  <2> SUFFICES ASSUME NEW q \in Reqs, outcome[q] = "watchdog" PROVE FALSE
    BY DEF NoWatchdogYet
  <2>1. outcome'[q] = "watchdog"
    BY OutcomeStays
  <2> QED BY <2>1 DEF NoWatchdogYet
<1>b. /\ From(held, cur)
      /\ pump # "closed" /\ reader[cur] = "offering" => Head(buf[cur]).req = cur
  BY <1>a DEF NothingStale
<1>c. ~ctxDone /\ pump # "closed" =>
        From(buf[cur], cur) /\ From(stdout[sendGen], cur) /\ From(todo[sendGen], cur)
  BY <1>a DEF NothingStale
<1>d. ~ctxDone /\ pump = "closed" /\ sendGen \in Gens =>
        stdout[sendGen] = <<>> /\ todo[sendGen] = <<>>
  BY <1>a DEF NothingStale
<1>e. pump # "closed" => cur \in Reqs /\ sendGen \in Gens /\ LastWritten = cur
  BY DEF Places, LastWritten
<1>1. ASSUME NEW g \in Gens, ProcEmit(g) PROVE Goal
  <2>1. UNCHANGED <<ctxDone, cur, sendGen, pump, held, reader, buf>>
    BY <1>1 DEF ProcEmit, agentVars, readVars
  <2>2. /\ todo[g] # <<>> /\ todo[g] \in Seq(Event) /\ stdout[g] \in Seq(Event)
        /\ stdout'[g] = Append(stdout[g], Head(todo[g])) /\ todo'[g] = Tail(todo[g])
        /\ \A h \in Gens : h # g => stdout'[h] = stdout[h] /\ todo'[h] = todo[h]
    BY <1>1 DEF ProcEmit, TypeOK
  <2>3. From(stdout[g], cur) /\ From(todo[g], cur) =>
          From(stdout'[g], cur) /\ From(todo'[g], cur)
    <3>1. From(todo[g], cur) => Head(todo[g]).req >= cur /\ From(Tail(todo[g]), cur)
      BY <1>0, <2>2, OfHead, OfBehead DEF PartOf
    <3>2. Head(todo[g]) \in Event
      BY <2>2, OfHead
    <3>3. From(stdout[g], cur) /\ Head(todo[g]).req >= cur =>
            From(Append(stdout[g], Head(todo[g])), cur)
      BY <1>0, <2>2, <3>2, OfAppend
    <3> QED BY <2>2, <3>1, <3>3
  <2>4. ~ctxDone /\ pump # "closed" => From(stdout'[sendGen], cur) /\ From(todo'[sendGen], cur)
    BY <1>c, <1>e, <2>2, <2>3
  <2>5. ~ctxDone /\ pump = "closed" /\ sendGen \in Gens =>
          stdout'[sendGen] = <<>> /\ todo'[sendGen] = <<>>
    BY <1>d, <2>2
  <2> QED BY <1>b, <1>c, <2>1, <2>4, <2>5
<1>f. ASSUME NEW g \in Gens, ProcStreams(g) PROVE Goal
  <2> DEFINE e == Delta(Head(todo[g]).req)
  <2>1. UNCHANGED <<ctxDone, cur, sendGen, pump, held, reader, buf, todo>>
    BY <1>f, StreamAt
  <2>2. /\ todo[g] # <<>> /\ todo[g] \in Seq(Event) /\ stdout[g] \in Seq(Event)
        /\ e \in Event /\ e.req = Head(todo[g]).req
        /\ stdout'[g] = Append(stdout[g], e)
        /\ \A h \in Gens : h # g => stdout'[h] = stdout[h]
    <3>1. /\ todo[g] # <<>> /\ todo[g] \in Seq(Event) /\ stdout[g] \in Seq(Event)
          /\ e \in Event /\ e.req = Head(todo[g]).req
          /\ stdout' = [stdout EXCEPT ![g] = Append(stdout[g], e)]
      BY <1>f, StreamAt
    <3> HIDE DEF e
    <3> QED BY <3>1 DEF TypeOK
  <2> HIDE DEF e
  <2>3. From(stdout[g], cur) /\ From(todo[g], cur) => From(stdout'[g], cur)
    <3>1. From(todo[g], cur) => Head(todo[g]).req >= cur
      BY <1>0, <2>2, OfHead
    <3>2. From(stdout[g], cur) /\ e.req >= cur => From(Append(stdout[g], e), cur)
      BY <1>0, <2>2, OfAppend
    <3> QED BY <2>2, <3>1, <3>2
  <2>4. ~ctxDone /\ pump # "closed" => From(stdout'[sendGen], cur)
    BY <1>c, <1>e, <2>2, <2>3
  <2>5. ~ctxDone /\ pump = "closed" /\ sendGen \in Gens => stdout'[sendGen] = <<>>
    BY <1>d, <2>2
  <2> QED BY <1>b, <1>c, <1>d, <2>1, <2>4, <2>5
<1>2. ASSUME NEW g \in Gens, ProcDies(g) PROVE Goal
  <2>1. UNCHANGED <<ctxDone, cur, sendGen, pump, held, reader, buf, stdout>>
    BY <1>2 DEF ProcDies, agentVars, readVars
  <2>2. sendGen \in Gens => todo'[sendGen] \in {todo[sendGen], <<>>}
    BY <1>2 DEF ProcDies, TypeOK
  <2> QED BY <1>b, <1>c, <1>d, <1>e, <2>1, <2>2, OfNothing
<1>3. ASSUME SendBegin PROVE Goal
  <2>1. pump = "closed" /\ held = <<>>
    BY <1>3 DEF SendBegin, Places
  <2>2. UNCHANGED <<ctxDone, pump, held, stdout, todo>>
    BY <1>3 DEF SendBegin, procVars
  <2>3. sendGen' = sendGen \/ sendGen' > sendGen
    BY <1>0, <1>3 DEF SendBegin, Launches
  <2>4. ~ctxDone /\ sendGen' \in Gens => stdout[sendGen'] = <<>> /\ todo[sendGen'] = <<>>
    BY <1>d, <2>1, <2>3 DEF Launches
  <2> QED BY <2>1, <2>2, <2>4, OfNothing
<1>4. ASSUME SendWrite PROVE Goal
  <2>1. cur \in Reqs /\ sendGen \in Gens /\ pump = "closed" /\ held = <<>>
        /\ buf[cur] = <<>> /\ LastWritten = cur - 1
    BY <1>4 DEF SendWrite, Places, Readers, LastWritten
  <2>2. UNCHANGED <<ctxDone, cur, sendGen, stdout, buf, held>>
    BY <1>4 DEF SendWrite
  <2> DEFINE w == Written(todo[sendGen], cur)
  <2>3. \/ pump' = "receive" /\ reader'[cur] = "scanning" /\ todo'[sendGen] = w
        \/ pump' = pump /\ todo' = todo
    <3>1. \/ /\ pump' = "receive"
             /\ reader' = [reader EXCEPT ![cur] = "scanning"]
             /\ todo' = [todo EXCEPT ![sendGen] = w]
          \/ pump' = pump /\ todo' = todo
      BY <1>4 DEF SendWrite, WriteMessage, w, Written
    <3> QED BY <2>1, <3>1 DEF TypeOK
  <2>4. ~ctxDone => From(w, cur)
    <3>1. ~ctxDone => From(todo[sendGen], cur)
      BY <1>d, <2>1, OfNothing
    <3>2. /\ delivered[cur] \in Seq(Event) /\ held \in Seq(Event)
          /\ buf[cur] \in Seq(Event) /\ stdout[sendGen] \in Seq(Event)
          /\ todo[sendGen] \in Seq(Event)
      BY <2>1, LineTypes
    <3>3. InOrder(delivered[cur], held, buf[cur], stdout[sendGen], todo[sendGen])
      BY <2>1 DEF LineInOrder
    <3>4. /\ UpTo(delivered[cur], cur - 1) /\ UpTo(held, cur - 1) /\ UpTo(buf[cur], cur - 1)
          /\ UpTo(stdout[sendGen], cur - 1) /\ UpTo(todo[sendGen], cur - 1)
      BY <2>1 DEF NoneAhead
    <3>5. From(todo[sendGen], cur) => From(w, cur)
      <4>1. PICK r, d, b, s, t :
              r = cur /\ d = delivered[cur] /\ b = buf[cur] /\ s = stdout[sendGen]
                /\ t = todo[sendGen]
        OBVIOUS
      <4>2. From(t, r) => From(Written(t, r), r)
        BY <2>1, <3>2, <3>3, <3>4, <4>1, LineWrite, ZenonT(60)
      <4> QED BY <4>1, <4>2
    <3> QED BY <3>1, <3>5
  <2> HIDE DEF w
  <2>5. ~ctxDone => stdout[sendGen] = <<>> /\ todo[sendGen] = <<>>
    BY <1>d, <2>1
  <2> QED BY <2>1, <2>2, <2>3, <2>4, <2>5, OfNothing
<1>5. ASSUME NEW q \in Reqs, ReadChunk(q) PROVE Goal
  <2> DEFINE k == readerGen[q]
             s == stdout[k]
  <2>1. k \in Gens /\ s \in Seq(Event) /\ s # <<>> /\ reader[q] = "scanning"
        /\ UNCHANGED <<ctxDone, cur, sendGen, pump, held, reader, todo>>
    BY <1>5, ChunkAt DEF agentVars
  <2>2. PICK n \in 1..Len(s) :
          /\ buf' = [buf EXCEPT ![q] = SubSeq(s, 1, n)]
          /\ stdout' = [stdout EXCEPT ![k] = SubSeq(s, n + 1, Len(s))]
          /\ PartOf(SubSeq(s, 1, n), s)
          /\ PartOf(SubSeq(s, n + 1, Len(s)), s)
    BY <1>5, ChunkAt
  <2>3. /\ \A r \in Reqs : buf'[r] = IF r = q THEN SubSeq(s, 1, n) ELSE buf[r]
        /\ \A g \in Gens : stdout'[g] = IF g = k THEN SubSeq(s, n + 1, Len(s)) ELSE stdout[g]
    BY <2>1, <2>2 DEF TypeOK
  <2>4. From(s, cur) => From(SubSeq(s, 1, n), cur) /\ From(SubSeq(s, n + 1, Len(s)), cur)
    BY <1>0, <2>2 DEF PartOf
  <2>5. cur \in Reqs /\ q = cur => k = sendGen
    BY <2>1 DEF Places
  <2> HIDE DEF s
  <2>6. ~ctxDone /\ pump # "closed" => From(buf'[cur], cur) /\ From(stdout'[sendGen], cur)
    <3> SUFFICES ASSUME ~ctxDone, pump # "closed"
                 PROVE  From(buf'[cur], cur) /\ From(stdout'[sendGen], cur)
      OBVIOUS
    <3>1. From(buf[cur], cur) /\ From(stdout[sendGen], cur)
      BY <1>c
    <3>2. k = sendGen => From(s, cur)
      BY <3>1 DEF s
    <3> HIDE DEF k
    <3>3. From(stdout'[sendGen], cur)
      BY <1>e, <2>3, <2>4, <3>1, <3>2
    <3>4. From(buf'[cur], cur)
      BY <1>e, <2>3, <2>4, <2>5, <3>1, <3>2
    <3> QED BY <3>3, <3>4
  <2>7. ~ctxDone /\ pump = "closed" /\ sendGen \in Gens => stdout'[sendGen] = <<>>
    <3>1. ~ctxDone /\ pump = "closed" /\ sendGen \in Gens => k # sendGen
      BY <1>d, <2>1 DEF s
    <3> QED BY <1>d, <2>3, <3>1
  <2>8. pump # "closed" /\ reader[cur] = "offering" => buf'[cur] = buf[cur]
    BY <1>e, <2>1, <2>3
  <2> QED BY <1>b, <1>c, <1>d, <2>1, <2>6, <2>7, <2>8
<1>6. ASSUME NEW q \in Reqs, OfferLine(q) PROVE Goal
  <2>1. UNCHANGED <<ctxDone, cur, sendGen, pump, held, buf, stdout, todo>>
    BY <1>6 DEF OfferLine, procVars, agentVars
  <2>2. ~ctxDone /\ buf[q] # <<>> /\ \A r \in Reqs : r # q => reader'[r] = reader[r]
    BY <1>6 DEF OfferLine, TypeOK
  <2>3. pump # "closed" /\ q = cur => Head(buf[cur]).req = cur
    <3> SUFFICES ASSUME pump # "closed", q = cur PROVE Head(buf[cur]).req = cur
      OBVIOUS
    <3>1. From(buf[cur], cur) /\ UpTo(buf[cur], cur)
      BY <1>c, <1>e, <2>2 DEF NoneAhead
    <3>2. buf[cur] \in Seq(Event) /\ buf[cur] # <<>>
      BY <2>2 DEF TypeOK
    <3> QED BY <1>0, <3>1, <3>2, AboutCurrent
  <2>4. pump # "closed" /\ reader'[cur] = "offering" => Head(buf[cur]).req = cur
    BY <1>b, <1>e, <2>2, <2>3
  <2> QED BY <1>b, <1>c, <1>d, <2>1, <2>4
<1>7. ASSUME NEW q \in Reqs, ReaderEnds(q) PROVE Goal
  <2>1. UNCHANGED <<ctxDone, cur, sendGen, pump, held, stdout, todo>>
    BY <1>7 DEF ReaderEnds, procVars, agentVars
  <2>2. \A r \in Reqs : \/ reader'[r] = reader[r] /\ buf'[r] = buf[r]
                        \/ reader'[r] = "ended" /\ buf'[r] = <<>>
    BY <1>7 DEF ReaderEnds, TypeOK
  <2>3. pump # "closed" /\ reader'[cur] = "offering" => Head(buf'[cur]).req = cur
    BY <1>b, <1>e, <2>2
  <2>4. ~ctxDone /\ pump # "closed" => From(buf'[cur], cur)
    BY <1>c, <1>e, <2>2, OfNothing
  <2> QED BY <1>b, <1>c, <1>d, <2>1, <2>3, <2>4
<1>8. ASSUME PumpReceive PROVE Goal
  <2>1. pump # "closed" /\ reader[cur] = "offering" /\ cur \in Reqs
        /\ pump' # "closed" /\ reader'[cur] = "scanning"
    BY <1>8, <1>e DEF PumpReceive, TypeOK
  <2>2. buf[cur] \in Seq(Event) /\ buf[cur] # <<>>
    BY <2>1 DEF Readers, TypeOK
  <2>3. UNCHANGED <<ctxDone, cur, sendGen, stdout, todo>>
    BY <1>8 DEF PumpReceive, procVars, agentVars
  <2>4. held' = << Head(buf[cur]) >> /\ buf'[cur] = Tail(buf[cur])
    BY <1>8, <2>1 DEF PumpReceive, NextLine, TypeOK
  <2>5. From(held', cur)
    BY <1>0, <1>b, <2>1, <2>4 DEF From
  <2>6. From(buf[cur], cur) => From(Tail(buf[cur]), cur)
    BY <1>0, <2>2, OfBehead DEF PartOf
  <2> QED BY <1>c, <2>1, <2>3, <2>4, <2>5, <2>6
<1>9. ASSUME PumpDeliver PROVE Goal
  <2>1. cur \in Reqs /\ sendGen \in Gens /\ LastWritten = cur /\ pump # "closed"
        /\ Len(held) = 1
    BY <1>9, <1>e DEF PumpDeliver, TypeOK
  <2>2. UNCHANGED <<ctxDone, cur, sendGen, reader, buf, stdout, todo>> /\ held' = <<>>
    BY <1>9 DEF PumpDeliver, procVars, agentVars, readVars
  <2>3. ASSUME pump' = "closed" PROVE stdout[sendGen] = <<>> /\ todo[sendGen] = <<>>
    <3>1. held \in Seq(Event) /\ stdout[sendGen] \in Seq(Event) /\ todo[sendGen] \in Seq(Event)
      BY <2>1 DEF TypeOK
    <3>2. held # <<>>
      BY <2>1, EmptySeq
    <3>3. held[1].req = cur
      BY <1>0, <1>b, <2>1, <3>1, <3>2, AboutCurrent DEF NoneAhead
    <3>4. held[1].kind = "result"
      BY <1>9, <2>3 DEF PumpDeliver, IsResult
    <3>5. Precedes(held, stdout[sendGen]) /\ Precedes(held, todo[sendGen])
      BY <2>1 DEF LineInOrder, InOrder
    <3>6. UpTo(stdout[sendGen], cur) /\ UpTo(todo[sendGen], cur)
      BY <2>1 DEF NoneAhead
    <3> QED BY <2>1, <3>1, <3>3, <3>4, <3>5, <3>6, LineEnds
  <2> QED BY <1>b, <1>c, <2>1, <2>2, <2>3, OfNothing
<1>10. ASSUME PumpEnds PROVE Goal
  <2>1. UNCHANGED <<ctxDone, cur, sendGen, stdout, todo>> /\ held' = <<>> /\ pump' = "closed"
    BY <1>10 DEF PumpEnds, procVars, agentVars
  <2>2. ~ctxDone => stdout[sendGen] = <<>> /\ todo[sendGen] = <<>>
    <3> SUFFICES ASSUME ~ctxDone PROVE stdout[sendGen] = <<>> /\ todo[sendGen] = <<>>
      OBVIOUS
    <3>1. reader[cur] = "ended" /\ cur \in Reqs /\ sendGen \in Gens
      BY <1>10, <1>e DEF PumpEnds
    <3>2. readerGen[cur] = sendGen
      BY <3>1 DEF Places
    <3>3. proc[sendGen] = "dead" /\ stdout[sendGen] = <<>>
      BY <3>1, <3>2 DEF Readers
    <3> QED BY <3>1, <3>3 DEF Launches
  <2> QED BY <2>1, <2>2, OfNothing
<1>11. ASSUME Watchdog PROVE Goal
  <2>1. cur \in Reqs /\ outcome'[cur] = "watchdog"
    BY <1>11, <1>e DEF Watchdog, MayFire, TypeOK
  <2> QED BY <2>1 DEF NoWatchdogYet
<1>12. ASSUME CancelCtx PROVE Goal
  <2>1. ctxDone' /\ UNCHANGED <<cur, pump, held, reader, buf>>
    BY <1>12 DEF CancelCtx, agentVars, readVars
  <2> QED BY <1>b, <2>1
<1>13. ASSUME Start \/ Close \/ Complete \/ UNCHANGED vars PROVE Goal
  <2>1. UNCHANGED <<ctxDone, cur, sendGen, pump, held, reader, buf, stdout, todo>>
    BY <1>13 DEF Start, Close, Complete, vars, procVars, agentVars, readVars
  <2> QED BY <1>b, <1>c, <1>d, <2>1
<1> HIDE DEF Goal
<1>14. (\E g \in Gens : ProcEmit(g)) \/ (\E g \in Gens : ProcStreams(g))
         \/ (\E g \in Gens : ProcDies(g)) => Goal
  BY <1>1, <1>2, <1>f
<1>15. (\E q \in Reqs : ReadChunk(q)) \/ (\E q \in Reqs : OfferLine(q))
         \/ (\E q \in Reqs : ReaderEnds(q)) => Goal
  BY <1>5, <1>6, <1>7
<1>16. Goal
  BY <1>3, <1>4, <1>8, <1>9, <1>10, <1>11, <1>12, <1>13, <1>14, <1>15, StepCases
<1> QED BY <1>16 DEF Goal

(* The result that a request is given is its own, until a watchdog fires.  *)
LEMMA AnswerStep ==
  ASSUME TypeOK, Places, NoneAhead, NothingStale, AnswerIsOwn, [Next]_vars
  PROVE  AnswerIsOwn'
<1> USE Bounds
<1>0. cur \in Nat /\ cur \in Int /\ \A r \in Reqs : r \in Nat
  BY DEF TypeOK
<1> SUFFICES ASSUME NEW r \in Reqs, outcome'[r] = "result"
             PROVE  \/ AnswerOf(r)' = r
                    \/ \E q \in 1..(r - 1) : outcome'[q] = "watchdog"
  BY DEF AnswerIsOwn
<1>1. \A q \in Reqs : outcome[q] = "watchdog" => outcome'[q] = "watchdog"
  BY OutcomeStays
<1>2. \A q \in 1..(r - 1) : q \in Reqs
  BY SessionAssumption DEF Reqs
<1>3. CASE outcome[r] # "none"
  <2>1. outcome[r] = "result" /\ delivered'[r] = delivered[r]
    BY <1>3, OutcomeStays
  <2>2. AnswerOf(r)' = AnswerOf(r)
    BY <2>1 DEF AnswerOf
  <2> QED BY <1>1, <1>2, <2>1, <2>2 DEF AnswerIsOwn
<1>4. CASE outcome[r] = "none"
  <2>1. PumpDeliver
    <3>1. ~SendBegin
      BY <1>4 DEF SendBegin, TypeOK
    <3>2. ~SendWrite /\ ~PumpEnds /\ ~Watchdog
      BY <1>4 DEF SendWrite, PumpEnds, Watchdog, TypeOK
    <3>3. Start \/ Close \/ CancelCtx
            \/ (\E g \in Gens : ProcEmit(g)) \/ (\E g \in Gens : ProcStreams(g))
            \/ (\E g \in Gens : ProcDies(g)) \/ (\E k \in Reqs : ReadChunk(k))
            \/ (\E k \in Reqs : OfferLine(k)) \/ (\E k \in Reqs : ReaderEnds(k))
            \/ PumpReceive \/ Complete \/ UNCHANGED vars
          => UNCHANGED outcome
      BY DEF Start, Close, CancelCtx, ProcEmit, ProcStreams, ProcDies, ReadChunk,
         OfferLine, ReaderEnds, PumpReceive, Complete, vars, histVars
    <3> QED BY <1>4, <3>1, <3>2, <3>3, StepCases
  <2>2. r = cur /\ pump = "deliver" /\ Len(held) = 1 /\ LastWritten = cur
    BY <1>4, <2>1 DEF PumpDeliver, TypeOK, Places, LastWritten
  <2>3. held \in Seq(Event) /\ held # <<>> /\ delivered[cur] \in Seq(Event)
    BY <2>2, EmptySeq DEF TypeOK
  <2>4. CASE NoWatchdogYet
    <3>1. held[1].req = cur
      BY <1>0, <2>2, <2>3, <2>4, AboutCurrent DEF NoneAhead, NothingStale
    <3>2. held[1] \in Event
      <4>1. 1 \in 1..Len(held)
        BY <2>2
      <4> QED BY <2>3, <4>1, ElementOfSeq, Zenon
    <3>3. delivered'[cur] = Append(delivered[cur], held[1])
      <4>1. held[1].kind = "result"
        BY <1>4, <2>1, <2>2 DEF PumpDeliver, IsResult, TypeOK
      <4> QED BY <2>1, <4>1, GiveAt DEF TypeOK
    <3>4. delivered'[cur][Len(delivered'[cur])] = held[1]
      BY <2>3, <3>2, <3>3, OfAppend
    <3> QED BY <2>2, <3>1, <3>4 DEF AnswerOf
  <2>5. CASE ~NoWatchdogYet
    <3>1. PICK q \in Reqs : outcome[q] = "watchdog"
      BY <2>5 DEF NoWatchdogYet
    <3>2. q # r /\ ~(q > cur)
      BY <1>4, <3>1 DEF Places
    <3>3. q \in 1..(r - 1)
      BY <1>0, <2>2, <3>2 DEF Reqs
    <3> QED BY <1>1, <3>1, <3>3
  <2> QED BY <2>4, <2>5
<1> QED BY <1>3, <1>4

-----------------------------------------------------------------------------
(* The invariant is inductive.                                             *)
LEMMA SessStep == SessInv /\ [Next]_vars => SessInv'
<1> SUFFICES ASSUME SessInv, [Next]_vars PROVE SessInv'
  OBVIOUS
<1> USE DEF SessInv
<1>1. TypeOK' /\ NoOrphanProcess' /\ Launches'
  BY Types, OrphanStep, LaunchesStep
<1>2. Places' /\ Readers'
  BY PlacesStep, ReadersStep
<1>3. NoneAhead' /\ LineInOrder'
  BY NoneAheadStep, LineStep
<1>4. NothingStale' /\ AnswerIsOwn'
  BY StaleStep, AnswerStep
<1> QED BY <1>1, <1>2, <1>3, <1>4

(* So it holds in every reachable state.                                   *)
LEMMA SessAlways == Spec => []SessInv
BY SessInit, SessStep, PTL DEF Spec

(* An order of events that are yielded is an order of their requests.      *)
LEMMA InvOrder == SessInv => EventsOnceInOrder
<1> SUFFICES ASSUME SessInv PROVE EventsOnceInOrder
  OBVIOUS
<1>0. \A r \in Reqs : r \in Nat
  BY Bounds
<1>1. ASSUME NEW r \in Reqs, NEW i \in 1..Len(delivered[r])
      PROVE  delivered[r][i].req <= r /\ delivered[r][i].req \in Int
  <2>1. delivered[r] \in Seq(Event) /\ UpTo(delivered[r], r)
    BY DEF SessInv, TypeOK, NoneAhead
  <2>2. delivered[r][i] \in Event
    BY <2>1, ElementOfSeq
  <2> QED BY <2>1, <2>2 DEF UpTo, Event, Reqs
<1>2. ASSUME NEW r \in Reqs, NEW i \in 1..Len(delivered[r]),
             NEW j \in 1..Len(delivered[r]), i < j
      PROVE  Before(delivered[r][i], delivered[r][j])
  BY <1>2 DEF SessInv, LineInOrder, Sorted
<1>3. ASSUME NEW q \in Reqs, NEW r \in Reqs, q < r,
             NEW i \in 1..Len(delivered[q]), NEW j \in 1..Len(delivered[r])
      PROVE  delivered[q][i] # delivered[r][j]
  <2>1. Before(delivered[q][i], delivered[r][j])
    BY <1>3 DEF SessInv, LineInOrder, Precedes
  <2>2. delivered[q][i].req \in Int
    BY <1>1
  <2>3. delivered[q][i] \in Event /\ delivered[q][i].kind # "delta"
    BY ElementOfSeq DEF SessInv, TypeOK, LineInOrder, NoDelta
  <2> QED BY <2>1, <2>2, <2>3 DEF Before, Event
<1>4. ASSUME NEW r \in Reqs, NEW s \in Reqs, NEW i \in 1..Len(delivered[r]),
             NEW j \in 1..Len(delivered[s]), delivered[r][i] = delivered[s][j]
      PROVE  r = s
  <2>1. r < s \/ s < r \/ r = s
    BY <1>0
  <2> QED BY <1>3, <1>4, <2>1
<1> QED BY <1>1, <1>2, <1>4 DEF EventsOnceInOrder

(* Every variable of the Session, the processes, the agent, the pump and   *)
(* the readers keeps its type (session.go, reader.go), for every number of *)
(* requests and launches.                                                  *)
THEOREM TypeCorrect == Spec => []TypeOK
<1>1. SessInv => TypeOK
  BY DEF SessInv
<1> QED BY <1>1, SessAlways, PTL

(* No claude process keeps running that Session does not own: whatever     *)
(* Start, Close and Restart do beside a Send, at most the last launch is   *)
(* alive, and only while Session is running (session.go:61, 187).          *)
THEOREM NoneUnowned == Spec => []NoOrphanProcess
<1>1. SessInv => NoOrphanProcess
  BY DEF SessInv
<1> QED BY <1>1, SessAlways, PTL

(* What every request yields is in claude's order, of no later request,    *)
(* and yielded once, however many readers race for one stdout              *)
(* (session.go:84, reader.go).                                             *)
THEOREM YieldsInOrder == Spec => []EventsOnceInOrder
BY InvOrder, SessAlways, PTL

(* A request ends with another request's result only after a watchdog has  *)
(* given up on one before it (session.go:144).                             *)
THEOREM OwnAnswer == Spec => []AnswerIsOwn
<1>1. SessInv => AnswerIsOwn
  BY DEF SessInv
<1> QED BY <1>1, SessAlways, PTL

(* The id that the next launch resumes never goes back: the pump that      *)
(* writes it scans the stdout of the last Send, which no earlier pump      *)
(* outlives (session.go:123, 138).                                         *)
THEOREM IdNeverBack == Spec => ResumesLatest
<1>1. SessInv /\ [Next]_vars => [sessionID' >= sessionID]_vars
  <2> SUFFICES ASSUME SessInv, [Next]_vars PROVE sessionID' >= sessionID
    OBVIOUS
  <2>1. sessionID \in Nat /\ sendGen \in Nat /\ sessionID <= sendGen
    BY DEF SessInv, TypeOK, Launches
  <2>2. CASE PumpReceive \/ PumpDeliver
    <3>1. readerGen[cur] = sendGen
      BY <2>2 DEF PumpReceive, PumpDeliver, SessInv, Places
    <3>2. sessionID' \in {sessionID, sendGen}
      BY <2>2, <3>1 DEF PumpReceive, PumpDeliver, TrackID
    <3> QED BY <2>1, <3>2
  <2>3. Start \/ Close \/ CancelCtx
          \/ (\E g \in Gens : ProcEmit(g)) \/ (\E g \in Gens : ProcStreams(g))
          \/ (\E g \in Gens : ProcDies(g)) \/ SendBegin \/ SendWrite
          \/ (\E r \in Reqs : ReadChunk(r)) \/ (\E r \in Reqs : OfferLine(r))
          \/ (\E r \in Reqs : ReaderEnds(r)) \/ PumpEnds \/ Watchdog \/ Complete
          \/ UNCHANGED vars
        => sessionID' = sessionID
    BY DEF Start, Close, CancelCtx, ProcEmit, ProcStreams, ProcDies, SendBegin, SendWrite,
       ReadChunk, OfferLine, ReaderEnds, PumpEnds, Watchdog, Complete, vars, sessVars
  <2>4. sessionID' = sessionID => sessionID' >= sessionID
    BY <2>1
  <2> QED BY <2>2, <2>3, <2>4, StepCases
<1> QED BY <1>1, SessAlways, PTL DEF Spec, ResumesLatest
=============================================================================
