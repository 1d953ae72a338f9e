--------------------------- MODULE Frontend_proofs ---------------------------
(***************************************************************************)
(* Proofs about the two components that the user looks at.                 *)
(*                                                                         *)
(* Board, for any columns, titles, slugs and number of tasks: types, the   *)
(* numbers that NextID gives, and that tasks stay. Telegram, for all       *)
(* agents, messages, texts and limits: types, that no status message stays *)
(* behind an answer, what ChunkText gives, and that answers are whole.     *)
(***************************************************************************)
EXTENDS Board, Telegram, FiniteSetTheorems, WellFoundedInduction, SequenceTheorems, TLAPS

(* A set of numbers that is not empty has a least one.                     *)
LEMMA LeastOf ==
  ASSUME NEW T \in SUBSET Nat, T # {}
  PROVE  \E m \in T : \A x \in T : m <= x
<1> DEFINE R == OpToRel(<, Nat)
<1>1. IsWellFoundedOn(R, Nat)
  BY NatLessThanWellFounded, Zenon
<1>2. PICK m \in T : \A x \in T : <<x, m>> \notin R
  BY <1>1, WFMin, Zenon
<1>3. ASSUME NEW x \in T PROVE m <= x
  <2>1. m \in Nat /\ x \in Nat /\ ~(x < m)
    BY <1>2 DEF OpToRel
  <2> QED BY <2>1
<1> QED BY <1>3

(* A bounded set of numbers that is not empty has its maximum.             *)
LEMMA MaxOfBounded ==
  ASSUME NEW S \in SUBSET Nat, S # {}, NEW n \in Nat, \A x \in S : x <= n
  PROVE  Max(S) \in S /\ \A x \in S : x <= Max(S)
<1> DEFINE T == {n - x : x \in S}
<1>1. \A x \in S : x \in Nat /\ n - x \in Nat
  OBVIOUS
<1>2. T \in SUBSET Nat /\ T # {}
  BY <1>1
<1>3. PICK y \in T : \A z \in T : y <= z
  <2> HIDE DEF T
  <2> QED BY <1>2, LeastOf
<1>4. PICK m \in S : y = n - m
  BY <1>3
<1>5. ASSUME NEW x \in S PROVE m >= x
  <2>1. n - x \in T
    OBVIOUS
  <2>2. n - m <= n - x
    BY <1>3, <1>4, <2>1
  <2> QED BY <1>1, <2>2
<1>6. \E x \in S : \A z \in S : x >= z
  BY <1>5
<1>7. Max(S) \in S /\ \A z \in S : Max(S) >= z
  BY <1>6 DEF Max
<1> QED BY <1>1, <1>7

-----------------------------------------------------------------------------
(* What TasksStay rests on. No number and no call of Add is beyond those   *)
(* that were made; a file is whole when its Add returned; no call has two  *)
(* files; and what Add has returned and nobody took away is in a column.   *)
Bounded == \A f \in files : f.by <= adds /\ f.id.num <= adds
WholeWhenAdded == \A f \in files : f.whole <=> f.by \in added
OneFileEach == \A f, g \in files : f.by = g.by => f = g
Present ==
  \A n \in added \ (deleted \cup strayed) :
    blind \/ \E f \in files : f.by = n /\ f.dir \in Columns

Inv ==
  /\ TypeOK
  /\ Bounded
  /\ WholeWhenAdded /\ OneFileEach
  /\ NumbersDistinct
  /\ Present

(* NextID is above every number that it sees.                              *)
LEMMA NextIDIsNew ==
  ASSUME TypeOK, Bounded, NEW seen \in SUBSET Columns
  PROVE  /\ NextID(seen) \in 1..(adds + 1)
         /\ \A f \in files : f.dir \in seen => f.id.num < NextID(seen)
<1> DEFINE nums == {f.id.num : f \in {g \in files : g.dir \in seen}} \cup {0}
<1>1. adds \in Nat /\ nums \in SUBSET Nat /\ nums # {} /\ \A x \in nums : x <= adds
  BY BoardAssumption DEF TypeOK, Bounded, File, Ids
<1>2. Max(nums) \in nums /\ \A x \in nums : x <= Max(nums)
  BY <1>1, MaxOfBounded
<1>3. NextID(seen) = 1 + Max(nums)
  BY DEF NextID
<1>4. \A f \in files : f.dir \in seen => f.id.num \in nums
  OBVIOUS
<1> DEFINE top == Max(nums)
<1>a. top \in nums /\ \A x \in nums : x <= top
  BY <1>2
<1>b. NextID(seen) = 1 + top
  BY <1>3
<1> HIDE DEF nums, top
<1>5. top \in 0..adds
  BY <1>1, <1>a
<1>6. ASSUME NEW f \in files, f.dir \in seen PROVE f.id.num < 1 + top
  <2>1. f.id.num \in nums
    BY <1>4, <1>6
  <2>2. f.id.num \in Nat /\ f.id.num <= top
    BY <2>1, <1>1, <1>a
  <2> QED BY <2>2, <1>5
<1> QED BY <1>1, <1>b, <1>5, <1>6

-----------------------------------------------------------------------------
(* The empty board has the invariant.                                      *)
LEMMA InitInv == Init => Inv
<1> SUFFICES ASSUME Init PROVE Inv
  OBVIOUS
<1>1. TypeOK
  <2>1. adds \in 0..MaxAdds
    BY BoardAssumption DEF Init
  <2> QED BY <2>1 DEF Init, TypeOK
<1>2. Bounded /\ WholeWhenAdded /\ OneFileEach
  BY DEF Init, Bounded, WholeWhenAdded, OneFileEach
<1>3. NumbersDistinct /\ Present
  BY DEF Init, NumbersDistinct, Present
<1> QED BY <1>1, <1>2, <1>3 DEF Inv

(* A file that is put keeps names unique.                                  *)
LEMMA PutTyped ==
  ASSUME TypeOK, NEW f \in File
  PROVE  /\ Put(f) \subseteq File
         /\ \A g, h \in Put(f) : g.dir = h.dir /\ g.id = h.id => g = h
BY DEF TypeOK, Put, At

(* A new task, written or torn, with whatever columns NextID could read.   *)
LEMMA WriteStep ==
  ASSUME Inv, NEW title \in Titles, NEW seen \in SUBSET Columns, NEW whole \in BOOLEAN,
         Write(title, seen, whole), added' = IF whole THEN added \cup {adds'} ELSE added
  PROVE  Inv'
<1> DEFINE new == [dir |-> DefaultColumns[1],
                   id |-> [num |-> NextID(seen), slug |-> Slug[title]],
                   title |-> title, whole |-> whole, by |-> adds + 1]
<1>1. /\ TypeOK /\ Bounded /\ WholeWhenAdded /\ OneFileEach
      /\ NumbersDistinct /\ Present
  BY DEF Inv
<1>2. /\ adds \in 0..MaxAdds /\ adds < MaxAdds /\ adds' = adds + 1 /\ files' = Put(new)
      /\ deleted' = deleted /\ strayed' = strayed /\ blind' = (blind \/ Missed(seen))
  BY <1>1 DEF Write, TypeOK
<1>3. /\ NextID(seen) \in 1..(adds + 1)
      /\ \A f \in files : f.dir \in seen => f.id.num < NextID(seen)
  BY <1>1, NextIDIsNew
<1>4. DefaultColumns[1] \in Columns
  BY BoardAssumption DEF Columns
<1>5. new \in File
  <2>1. NextID(seen) \in 1..MaxAdds /\ adds + 1 \in 1..MaxAdds
    BY <1>2, <1>3, BoardAssumption
  <2>2. new.id \in Ids
    BY <2>1 DEF Ids
  <2> QED BY <1>4, <2>1, <2>2 DEF File, Dirs
<1>6. /\ new.dir \in Columns /\ new.id.num = NextID(seen)
      /\ new.whole = whole /\ new.by = adds + 1
  BY <1>4
<1>7. files' \subseteq files \cup {new} /\ new \in files'
  BY <1>2 DEF Put, At
<1>8. \A f \in files : f.by \in Nat /\ f.by <= adds /\ f.id.num \in Nat /\ f.id.num <= adds
  BY <1>1 DEF TypeOK, Bounded, File, Ids
<1>9. \A f \in files : f.by # adds + 1
  BY <1>2, <1>8
<1> HIDE DEF new
<1>a. TypeOK'
  <2>1. /\ files' \subseteq File
        /\ \A f, g \in files' : f.dir = g.dir /\ f.id = g.id => f = g
    BY <1>1, <1>2, <1>5, PutTyped
  <2>2. adds' \in 0..MaxAdds /\ adds' \in 1..adds'
    BY <1>2, BoardAssumption
  <2>3. added \subseteq 1..adds'
    BY <1>1, <1>2 DEF TypeOK
  <2>4. added' \subseteq 1..adds' /\ added \subseteq added'
    BY <2>2, <2>3
  <2>5. deleted' \subseteq added' /\ strayed' \subseteq added'
    BY <1>1, <1>2, <2>4 DEF TypeOK
  <2>6. blind' \in BOOLEAN
    BY <1>2 DEF Missed
  <2> QED BY <2>1, <2>2, <2>4, <2>5, <2>6 DEF TypeOK
<1>b. Bounded'
  BY <1>2, <1>3, <1>6, <1>7, <1>8 DEF Bounded
<1>c. WholeWhenAdded'
  <2>1. \A f \in files : f.by \in added' <=> f.by \in added
    BY <1>2, <1>9
  <2>2. adds + 1 \notin added
    BY <1>1, <1>2 DEF TypeOK
  <2>3. new.whole <=> new.by \in added'
    BY <1>2, <1>6, <2>2
  <2>4. \A f \in files : f.whole <=> f.by \in added'
    BY <1>1, <2>1 DEF WholeWhenAdded
  <2> QED BY <1>7, <2>3, <2>4 DEF WholeWhenAdded
<1>d. OneFileEach'
  BY <1>1, <1>6, <1>7, <1>9 DEF OneFileEach
<1>e. NumbersDistinct'
  <2> SUFFICES ASSUME ~blind' PROVE NumbersDistinct'
    BY DEF NumbersDistinct
  <2>1. ~blind /\ ~Missed(seen)
    BY <1>2
  <2>2. \A f \in files : f.dir \in Columns => f.id.num # NextID(seen)
    BY <1>3, <1>8, <2>1 DEF Missed
  <2> QED BY <1>1, <1>6, <1>7, <2>1, <2>2 DEF NumbersDistinct
<1>f. Present'
  <2> SUFFICES ASSUME ~blind', NEW n \in added' \ (deleted' \cup strayed')
               PROVE  \E f \in files' : f.by = n /\ f.dir \in Columns
    BY DEF Present
  <2>1. CASE n \in added
    <3>1. ~blind /\ ~Missed(seen) /\ n \notin deleted \cup strayed
      BY <1>2
    <3>2. PICK f \in files : f.by = n /\ f.dir \in Columns
      BY <1>1, <2>1, <3>1 DEF Present
    <3>3. f.id.num # new.id.num
      BY <1>3, <1>6, <1>8, <3>1, <3>2 DEF Missed
    <3>4. f \in files'
      BY <1>2, <3>2, <3>3 DEF Put, At
    <3> QED BY <3>2, <3>4
  <2>2. CASE n \notin added
    <3>1. n = adds + 1
      BY <1>2, <2>2
    <3> QED BY <1>6, <1>7, <3>1
  <2> QED BY <2>1, <2>2
<1> QED BY <1>a, <1>b, <1>c, <1>d, <1>e, <1>f DEF Inv

(* A move, to a column or off the board, also onto another file.           *)
LEMMA MoveStep ==
  ASSUME Inv, NEW id \in Ids, NEW to \in Dirs, Move(id, to)
  PROVE  Inv'
<1>1. /\ TypeOK /\ Bounded /\ WholeWhenAdded /\ OneFileEach
      /\ NumbersDistinct /\ Present
  BY DEF Inv
<1>2. PICK f \in Find(id) :
        /\ Parses(f)
        /\ files' = Put([f EXCEPT !.dir = to]) \ (IF to = f.dir THEN {} ELSE {f})
        /\ strayed' = IF to \in Columns THEN strayed ELSE strayed \cup {f.by}
        /\ UNCHANGED <<adds, added, deleted, blind>>
  BY DEF Move, Renamed
<1> DEFINE g == [f EXCEPT !.dir = to]
<1>3. f \in files /\ f \in File /\ f.dir \in Columns /\ f.whole
  BY <1>1, <1>2 DEF Find, Parses, TypeOK
<1>4. /\ g \in File /\ g.dir = to /\ g.id = f.id /\ g.by = f.by
      /\ g.title = f.title /\ g.whole = f.whole
  BY <1>3 DEF File
<1>5. to = f.dir => g = f
  BY <1>3, <1>4 DEF File
<1>6. files' = Put(g) \ (IF to = f.dir THEN {} ELSE {f})
  BY <1>2
<1>7. g \in files'
  BY <1>4, <1>6 DEF Put
<1>8. \A h \in files' : h # g => h \in files /\ h # f
  BY <1>5, <1>6 DEF Put
<1>9. /\ adds' = adds /\ added' = added /\ deleted' = deleted /\ blind' = blind
      /\ strayed \subseteq strayed' /\ strayed' \subseteq strayed \cup {f.by}
      /\ to \notin Columns => f.by \in strayed'
      /\ to \in Columns => strayed' = strayed
  BY <1>2
<1> HIDE DEF g
<1>a. TypeOK'
  <2>1. /\ files' \subseteq File
        /\ \A h, k \in files' : h.dir = k.dir /\ h.id = k.id => h = k
    BY <1>1, <1>4, <1>6, PutTyped
  <2>2. strayed' \subseteq added'
    BY <1>1, <1>3, <1>9 DEF TypeOK, WholeWhenAdded
  <2> QED BY <1>1, <1>9, <2>1, <2>2 DEF TypeOK
<1>b. Bounded'
  BY <1>1, <1>3, <1>4, <1>8, <1>9 DEF Bounded
<1>c. WholeWhenAdded'
  BY <1>1, <1>3, <1>4, <1>8, <1>9 DEF WholeWhenAdded
<1>d. OneFileEach'
  BY <1>1, <1>3, <1>4, <1>8 DEF OneFileEach
<1>e. NumbersDistinct'
  <2> SUFFICES ASSUME ~blind, NEW h \in files', NEW k \in files',
                      h.dir \in Columns, k.dir \in Columns, h.id.num = k.id.num
               PROVE  h = k
    BY <1>9 DEF NumbersDistinct
  <2>1. \A e \in files : e.dir \in Columns /\ e.id.num = f.id.num => e = f
    BY <1>1, <1>3 DEF NumbersDistinct
  <2>2. CASE h = g \/ k = g
    BY <1>4, <1>8, <2>1, <2>2
  <2>3. CASE h # g /\ k # g
    BY <1>1, <1>8, <2>3 DEF NumbersDistinct
  <2> QED BY <2>2, <2>3
<1>f. Present'
  <2> SUFFICES ASSUME ~blind, NEW n \in added \ (deleted \cup strayed')
               PROVE  \E h \in files' : h.by = n /\ h.dir \in Columns
    BY <1>9 DEF Present
  <2>1. PICK h \in files : h.by = n /\ h.dir \in Columns
    BY <1>1, <1>9 DEF Present
  <2>2. CASE h = f
    BY <1>4, <1>7, <1>9, <2>1, <2>2
  <2>3. CASE h # f
    <3>1. h.id # f.id
      BY <1>1, <1>3, <2>1, <2>3 DEF NumbersDistinct
    <3>2. h \in files'
      BY <1>4, <1>6, <2>3, <3>1 DEF Put, At
    <3> QED BY <2>1, <3>2
  <2> QED BY <2>2, <2>3
<1> QED BY <1>a, <1>b, <1>c, <1>d, <1>e, <1>f DEF Inv

(* A deletion.                                                             *)
LEMMA DeleteStep ==
  ASSUME Inv, NEW id \in Ids, Delete(id)
  PROVE  Inv'
<1>1. /\ TypeOK /\ Bounded /\ WholeWhenAdded /\ OneFileEach
      /\ NumbersDistinct /\ Present
  BY DEF Inv
<1>2. PICK f \in Find(id) :
        /\ Parses(f)
        /\ files' = files \ {f} /\ deleted' = deleted \cup {f.by}
        /\ UNCHANGED <<adds, added, strayed, blind>>
  BY DEF Delete
<1>3. f.by \in added
  BY <1>1, <1>2 DEF Find, Parses, WholeWhenAdded
<1>a. TypeOK'
  BY <1>1, <1>2, <1>3 DEF TypeOK
<1>b. Bounded' /\ WholeWhenAdded' /\ OneFileEach' /\ NumbersDistinct'
  BY <1>1, <1>2 DEF Bounded, WholeWhenAdded, OneFileEach, NumbersDistinct
<1>c. Present'
  BY <1>1, <1>2 DEF Present
<1> QED BY <1>a, <1>b, <1>c DEF Inv

(* Every step keeps the invariant: the callers only choose among the       *)
(* operations above.                                                       *)
LEMMA NextInv == Inv /\ [Next]_vars => Inv'
<1> SUFFICES ASSUME Inv, [Next]_vars PROVE Inv'
  OBVIOUS
<1>1. ASSUME NEW title \in Titles, Add(title) PROVE Inv'
  BY <1>1, WriteStep DEF Add
<1>2. ASSUME NEW title \in Titles, AddTorn(title) PROVE Inv'
  BY <1>2, WriteStep DEF AddTorn
<1>3. ASSUME NEW id \in Ids, NEW to \in Dirs, Move(id, to) PROVE Inv'
  BY <1>3, MoveStep
<1>4. ASSUME NEW id \in Ids, Delete(id) PROVE Inv'
  BY <1>4, DeleteStep
<1>5. DefaultColumns[Len(DefaultColumns)] \in Dirs
  BY BoardAssumption DEF Dirs, Columns
<1>6. CASE UNCHANGED vars
  BY <1>6 DEF vars, Inv, TypeOK, Bounded, WholeWhenAdded, OneFileEach,
              NumbersDistinct, Present
<1> QED BY <1>1, <1>2, <1>3, <1>4, <1>5, <1>6
        DEF Next, BotTask, WebCreate, BotMove, BotDone, WebMove, WebDelete

(* The invariant holds in every reachable state, of the board as Add, Move *)
(* and Delete leave it (board.go:38-135).                                  *)
THEOREM Invariance == Spec => []Inv
BY InitInv, NextInv, PTL DEF Spec

(* Every variable has its type, the numbers that NextID gives included.    *)
THEOREM TypeCorrect == Spec => []TypeOK
<1>1. Inv => TypeOK
  BY DEF Inv
<1> QED BY <1>1, Invariance, PTL

(* Two tasks on the board never have the same number (task.go:69), unless  *)
(* Add once could not read a column.                                       *)
THEOREM DistinctNumbers == Spec => []NumbersDistinct
<1>1. Inv => NumbersDistinct
  BY DEF Inv
<1> QED BY <1>1, Invariance, PTL

(* A task that Add returned stays in exactly one column until it is        *)
(* deleted or moved off them, with the same exception (board.go:38, 79).   *)
THEOREM TasksRemain == Spec => []TasksStay
<1>1. Inv => TasksStay
  <2> SUFFICES ASSUME Inv, NEW n \in added \ (deleted \cup strayed), ~blind
               PROVE  Cardinality({f \in files : f.by = n /\ f.dir \in Columns}) = 1
    BY DEF TasksStay
  <2>1. PICK f \in files : f.by = n /\ f.dir \in Columns
    BY DEF Inv, Present
  <2>2. {g \in files : g.by = n /\ g.dir \in Columns} = {f}
    BY <2>1 DEF Inv, OneFileEach
  <2> QED BY <2>2, FS_Singleton, ZenonT(60)
<1> QED BY <1>1, Invariance, PTL

-----------------------------------------------------------------------------
(* The chat is a sequence, of what is not said here: what ChunkText gives  *)
(* is shown below. No agent has a message that was not asked.              *)
BotTypeInv ==
  /\ BotTypeOK
  /\ \E S : chat \in Seq(S)
  /\ \A a \in Agents : queue[a] \in Seq(1..asked) /\ cur[a] \in 0..asked

(* A sequence with an element at its end, and one without an element.      *)
LEMMA Appended ==
  ASSUME NEW s, NEW e, \E S : s \in Seq(S)
  PROVE  /\ \E S : Append(s, e) \in Seq(S)
         /\ Len(s) \in Nat /\ DOMAIN s = 1..Len(s)
         /\ Append(s, e) # s
         /\ DOMAIN Append(s, e) = 1..(Len(s) + 1)
         /\ \A i \in 1..Len(s) : Append(s, e)[i] = s[i]
         /\ Append(s, e)[Len(s) + 1] = e
<1>1. PICK S : s \in Seq(S)
  OBVIOUS
<1>2. s \in Seq(S \cup {e}) /\ e \in S \cup {e}
  BY <1>1, SeqMonotonic
<1>3. /\ Append(s, e) \in Seq(S \cup {e})
      /\ Len(s) \in Nat /\ DOMAIN s = 1..Len(s)
      /\ Len(Append(s, e)) = Len(s) + 1
      /\ DOMAIN Append(s, e) = 1..(Len(s) + 1)
      /\ \A i \in 1..Len(s) : Append(s, e)[i] = s[i]
      /\ Append(s, e)[Len(s) + 1] = e
  BY <1>2, AppendProperties, LenProperties
<1>4. Append(s, e) # s
  <2> SUFFICES ASSUME Append(s, e) = s PROVE FALSE
    OBVIOUS
  <2>1. Len(s) = Len(s) + 1
    BY <1>3, SMTT(60)
  <2> QED BY <1>3, <2>1
<1> QED BY <1>3, <1>4, ZenonT(60)

LEMMA Removed ==
  ASSUME NEW s, NEW k \in DOMAIN s, \E S : s \in Seq(S)
  PROVE  /\ \E S : RemoveAt(s, k) \in Seq(S)
         /\ \A i \in DOMAIN RemoveAt(s, k) :
              IF i < k THEN i \in DOMAIN s /\ RemoveAt(s, k)[i] = s[i]
                       ELSE i + 1 \in DOMAIN s /\ RemoveAt(s, k)[i] = s[i + 1]
         /\ DOMAIN RemoveAt(s, k) \subseteq Nat
         /\ Len(s) \in Nat /\ k \in 1..Len(s) /\ DOMAIN s = 1..Len(s)
         /\ DOMAIN RemoveAt(s, k) = 1..(Len(s) - 1)
<1>1. PICK S : s \in Seq(S)
  OBVIOUS
<1>2. Len(s) \in Nat /\ k \in 1..Len(s) /\ DOMAIN s = 1..Len(s)
  BY <1>1, LenProperties
<1> DEFINE l == SubSeq(s, 1, k - 1)
           r == SubSeq(s, k + 1, Len(s))
<1>3. /\ l \in Seq(S) /\ Len(l) = k - 1
      /\ \A i \in 1..(k - 1) : l[i] = s[i]
  BY <1>1, <1>2
<1>4. /\ r \in Seq(S) /\ Len(r) = Len(s) - k
      /\ \A i \in 1..(Len(s) - k) : r[i] = s[i + k]
  BY <1>1, <1>2, SMTT(60)
<1> HIDE DEF l, r
<1>5. /\ l \o r \in Seq(S) /\ DOMAIN (l \o r) = 1..(Len(s) - 1)
      /\ \A i \in 1..(Len(s) - 1) : (l \o r)[i] = IF i < k THEN s[i] ELSE s[i + 1]
  <2>1. /\ l \o r \in Seq(S) /\ Len(l \o r) = Len(s) - 1
        /\ \A i \in 1..(Len(l) + Len(r)) :
             (l \o r)[i] = IF i <= Len(l) THEN l[i] ELSE r[i - Len(l)]
    <3>1. Len(l) + Len(r) = Len(s) - 1
      BY <1>2, <1>3, <1>4
    <3> QED BY <1>3, <1>4, <3>1, ConcatProperties, ZenonT(60)
  <2>2. DOMAIN (l \o r) = 1..(Len(s) - 1)
    BY <2>1, LenProperties
  <2>3. ASSUME NEW i \in 1..(Len(s) - 1)
        PROVE  (l \o r)[i] = IF i < k THEN s[i] ELSE s[i + 1]
    <3>1. CASE i < k
      <4>1. i \in 1..(k - 1) /\ i \in 1..(Len(l) + Len(r)) /\ i <= Len(l)
        BY <1>2, <1>3, <1>4, <3>1
      <4> QED BY <1>3, <2>1, <3>1, <4>1
    <3>2. CASE ~(i < k)
      <4>1. i - (k - 1) \in 1..(Len(s) - k) /\ i - (k - 1) + k = i + 1 /\ ~(i <= k - 1)
        BY <1>2, <3>2
      <4>2. i \in 1..(Len(l) + Len(r)) /\ ~(i <= Len(l)) /\ i - Len(l) = i - (k - 1)
        <5>1. Len(l) = k - 1 /\ Len(l) + Len(r) = Len(s) - 1
          BY <1>2, <1>3, <1>4
        <5> QED BY <1>2, <4>1, <5>1
      <4>3. (l \o r)[i] = r[i - (k - 1)]
        BY <2>1, <4>2
      <4> QED BY <1>4, <3>2, <4>1, <4>3
    <3> QED BY <3>1, <3>2
  <2> QED BY <2>1, <2>2, <2>3
<1>6. RemoveAt(s, k) = l \o r
  BY DEF RemoveAt, l, r
<1> HIDE DEF l, r
<1>7. ASSUME NEW i \in 1..(Len(s) - 1)
      PROVE  i \in Nat /\ IF i < k THEN i \in 1..Len(s) ELSE i + 1 \in 1..Len(s)
  BY <1>2
<1> QED BY <1>2, <1>5, <1>6, <1>7, ZenonT(60)

(* A message is posted, or the call has failed for it, and Posted says     *)
(* which.                                                                  *)
LEMMA Posting ==
  ASSUME BotTypeInv, NEW m, NEW kind, NEW text, Post(m, kind, text)
  PROVE  /\ \E S : chat' \in Seq(S)
         /\ \/ chat' = Append(chat, Message(m, kind, text)) /\ failed' = failed /\ Posted
            \/ chat' = chat /\ failed' = failed \cup {m} /\ ~Posted
<1>1. /\ \E S : Append(chat, Message(m, kind, text)) \in Seq(S)
      /\ Append(chat, Message(m, kind, text)) # chat
  BY Appended DEF BotTypeInv
<1> QED BY <1>1 DEF BotTypeInv, Post, Call, Posted

(* One step per action.                                                    *)
LEMMA BotTypeInvariant == BotSpec => []BotTypeInv
<1> USE TelegramAssumption DEF BotTypeInv, BotTypeOK, loopVars, agentVars, msgVars, Messages
<1>1. BotInit => BotTypeInv
  <2> SUFFICES ASSUME BotInit PROVE BotTypeInv
    OBVIOUS
  <2>1. \A S : <<>> \in Seq(S)
    BY EmptySeq
  <2>2. Len(<<>>) = 0
    OBVIOUS
  <2>3. /\ queue \in [Agents -> Seq(1..MaxMessages)] /\ chat = <<>>
        /\ \A a \in Agents : queue[a] = <<>>
    BY <2>1 DEF BotInit
  <2>4. /\ ctxDone = FALSE /\ asked = 0 /\ failed = {} /\ completed = {}
        /\ cur \in [Agents -> {0}] /\ phase \in [Agents -> {"idle"}]
        /\ status \in [Messages -> {"unsent"}] /\ outcome \in [Messages -> {"none"}]
    BY DEF BotInit
  <2>5. \A a \in Agents : queue[a] \in Seq(1..asked) /\ cur[a] = 0 /\ Len(queue[a]) <= QueueSize
    BY <2>1, <2>2, <2>3, <2>4
  <2>6. cur \in [Agents -> {0} \cup Messages] /\ asked \in 0..MaxMessages
    BY <2>4
  <2>7. /\ \E S : chat \in Seq(S)
        /\ \A a \in Agents : cur[a] \in 0..asked /\ (cur[a] = 0 <=> phase[a] = "idle")
    BY <2>1, <2>3, <2>4
  <2>8. /\ phase \in [Agents -> {"idle", "events", "complete", "answer"}]
        /\ status \in [Messages -> {"unsent", "failed", "sent"}]
        /\ outcome \in [Messages -> Outcomes]
    BY <2>4 DEF Outcomes
  <2> QED BY <2>3, <2>4, <2>5, <2>6, <2>7, <2>8
<1>2. BotTypeInv /\ [BotNext]_botVars => BotTypeInv'
  <2> SUFFICES ASSUME BotTypeInv, [BotNext]_botVars PROVE BotTypeInv'
    OBVIOUS
  <2>0. /\ \A a \in Agents : queue[a] \in Seq(1..asked) /\ queue[a] \in Seq(Messages)
        /\ asked \in Nat /\ asked <= MaxMessages /\ MaxMessages \in Nat
        /\ \A a \in Agents : cur[a] \in 0..asked
    OBVIOUS
  <2>1. CASE CancelCtx
    BY <2>1 DEF CancelCtx
  <2>2. ASSUME asked' = asked + 1, asked < MaxMessages
        PROVE  /\ asked' \in 0..MaxMessages /\ asked' \in Messages /\ asked' \in 1..asked'
               /\ 1..asked \subseteq 1..asked' /\ 0..asked \subseteq 0..asked'
               /\ \A a \in Agents : queue[a] \in Seq(1..asked')
    <3>1. 1..asked \subseteq 1..asked' /\ 0..asked \subseteq 0..asked'
      BY <2>0, <2>2
    <3>2. \A a \in Agents : queue[a] \in Seq(1..asked')
      BY <2>0, <3>1, SeqMonotonic
    <3> QED BY <2>0, <2>2, <3>1, <3>2
  <2>3. ASSUME NEW prefix, HandleText(prefix) PROVE BotTypeInv'
    <3>0. PICK a : a = AgentOf(prefix)
      OBVIOUS
    <3>1. /\ asked' = asked + 1 /\ asked < MaxMessages
          /\ UNCHANGED <<ctxDone, cur, phase, left, status, result, completed>>
      BY <2>3 DEF HandleText
    <3>2. CASE Takes(a)
      <4>1. a \in Agents /\ Len(queue[a]) < QueueSize
            /\ queue' = [queue EXCEPT ![a] = Append(@, asked')]
            /\ UNCHANGED <<outcome, chat, failed>>
        BY <2>3, <3>0, <3>2 DEF HandleText, Takes
      <4>2. \A b \in Agents : queue'[b] = IF b = a THEN Append(queue[b], asked') ELSE queue[b]
        BY <4>1
      <4>3. /\ Append(queue[a], asked') \in Seq(1..asked')
            /\ Append(queue[a], asked') \in Seq(Messages)
            /\ Len(Append(queue[a], asked')) <= QueueSize
        BY <2>0, <2>2, <3>1, <4>1, AppendProperties, LenProperties
      <4>4. \A b \in Agents : queue'[b] \in Seq(1..asked') /\ queue'[b] \in Seq(Messages)
                              /\ Len(queue'[b]) <= QueueSize
        BY <2>0, <2>2, <3>1, <4>2, <4>3
      <4>5. queue' \in [Agents -> Seq(Messages)]
        BY <4>1, <4>4
      <4> QED BY <2>2, <3>1, <4>1, <4>4, <4>5
    <3>3. CASE ~Takes(a)
      <4>1. /\ outcome' = [outcome EXCEPT ![asked'] = "refused"]
            /\ Post(asked', "refusal", <<>>)
            /\ UNCHANGED queue
        BY <2>3, <3>0, <3>3 DEF HandleText
      <4>2. (\E S : chat' \in Seq(S)) /\ failed' \subseteq failed \cup {asked'}
        BY <4>1, Posting
      <4>3. outcome' \in [Messages -> Outcomes]
        BY <2>2, <3>1, <4>1 DEF Outcomes
      <4> QED BY <2>2, <3>1, <4>1, <4>2, <4>3
    <3> QED BY <3>2, <3>3
  <2>4. CASE StopCommand
    <3>1. /\ asked' = asked + 1 /\ asked < MaxMessages /\ ctxDone' = TRUE
          /\ outcome' = [outcome EXCEPT ![asked'] = "stop"]
          /\ Post(asked', "farewell", <<>>)
          /\ UNCHANGED <<queue, cur, phase, left, status, result, completed>>
      BY <2>4 DEF StopCommand
    <3>2. (\E S : chat' \in Seq(S)) /\ failed' \subseteq failed \cup {asked'}
      BY <3>1, Posting
    <3>3. outcome' \in [Messages -> Outcomes]
      BY <2>2, <3>1 DEF Outcomes
    <3> QED BY <2>2, <3>1, <3>2, <3>3
  <2>5. ASSUME NEW a \in Agents, Begin(a) PROVE BotTypeInv'
    <3>0. PICK m : m = Head(queue[a])
      OBVIOUS
    <3>1. /\ queue[a] # <<>> /\ cur' = [cur EXCEPT ![a] = m]
          /\ queue' = [queue EXCEPT ![a] = Tail(@)]
          /\ UNCHANGED <<ctxDone, asked, left, status, result, chat, failed, completed>>
          /\ \/ phase' = [phase EXCEPT ![a] = "events"] /\ UNCHANGED outcome
             \/ /\ phase' = [phase EXCEPT ![a] = "complete"]
                /\ outcome' = [outcome EXCEPT ![m] = "error"]
      BY <2>5, <3>0 DEF Begin, Goto
    <3>2. /\ m \in 1..asked /\ m \in Messages
          /\ Tail(queue[a]) \in Seq(1..asked) /\ Tail(queue[a]) \in Seq(Messages)
          /\ Len(Tail(queue[a])) <= QueueSize
      BY <2>0, <3>0, <3>1, HeadTailProperties, LenProperties, SMTT(60)
    <3>3. \A b \in Agents :
            /\ queue'[b] = IF b = a THEN Tail(queue[b]) ELSE queue[b]
            /\ cur'[b] = IF b = a THEN m ELSE cur[b]
      BY <3>1
    <3>4. /\ queue' \in [Agents -> Seq(Messages)]
          /\ \A b \in Agents : queue'[b] \in Seq(1..asked) /\ Len(queue'[b]) <= QueueSize
      BY <2>0, <3>1, <3>2, <3>3, ZenonT(60)
    <3>5. cur' \in [Agents -> {0} \cup Messages] /\ m # 0 /\ m \in 0..asked
      BY <2>0, <3>1, <3>2, SMTT(60)
    <3>6. \A b \in Agents : cur'[b] \in 0..asked
      BY <2>0, <3>3, <3>5
    <3>7. /\ phase' \in [Agents -> {"idle", "events", "complete", "answer"}]
          /\ \A b \in Agents : phase'[b] = "idle" <=> b # a /\ phase[b] = "idle"
          /\ \A b \in Agents : cur[b] = 0 <=> phase[b] = "idle"
      BY <3>1, ZenonT(60)
    <3>8. \A b \in Agents : cur'[b] = 0 <=> phase'[b] = "idle"
      BY <3>3, <3>5, <3>7
    <3>9. outcome' \in [Messages -> Outcomes]
      BY <3>1, ZenonT(60) DEF Outcomes
    <3> QED BY <3>1, <3>4, <3>5, <3>6, <3>7, <3>8, <3>9
  <2>6. ASSUME NEW a \in Agents, OnEvent(a) PROVE BotTypeInv'
    <3>1. /\ phase[a] = "events" /\ Post(cur[a], "status", <<>>)
          /\ status' \in {[status EXCEPT ![cur[a]] = "sent"], [status EXCEPT ![cur[a]] = "failed"]}
          /\ UNCHANGED <<ctxDone, asked, agentVars, outcome, result, completed>>
      BY <2>6 DEF OnEvent
    <3>2. (\E S : chat' \in Seq(S)) /\ failed' \subseteq failed \cup {cur[a]}
      BY <3>1, Posting
    <3>3. cur[a] \in 1..asked
      BY <2>0, <3>1
    <3> QED BY <3>1, <3>2, <3>3
  <2>7. ASSUME NEW a \in Agents, EventsEnd(a) PROVE BotTypeInv'
    <3>1. /\ phase[a] = "events" /\ phase' = [phase EXCEPT ![a] = "complete"]
          /\ outcome' \in {[outcome EXCEPT ![cur[a]] = o] : o \in {"text", "error", "nothing"}}
          /\ UNCHANGED <<ctxDone, asked, queue, cur, left, status, chat, failed, completed>>
      BY <2>7 DEF EventsEnd, Goto
    <3>2. PICK o \in Outcomes : outcome' = [outcome EXCEPT ![cur[a]] = o]
      BY <3>1 DEF Outcomes
    <3> QED BY <3>1, <3>2
  <2>8. ASSUME NEW a \in Agents, DeleteStatus(a) PROVE BotTypeInv'
    <3>1. /\ phase[a] = "complete" /\ phase' = [phase EXCEPT ![a] = "answer"]
          /\ UNCHANGED <<ctxDone, asked, queue, cur, status, outcome, result, completed>>
          /\ failed' \subseteq failed \cup {cur[a]}
          /\ chat' = chat \/ \E i \in StatusesOf(cur[a]) : chat' = RemoveAt(chat, i)
      BY <2>8 DEF DeleteStatus, Goto, Call
    <3>2. cur[a] \in 1..asked
      BY <2>0, <3>1
    <3>3. \E S : chat' \in Seq(S)
      <4>1. ASSUME NEW i \in StatusesOf(cur[a]) PROVE \E S : RemoveAt(chat, i) \in Seq(S)
        <5>1. i \in DOMAIN chat /\ \E S : chat \in Seq(S)
          BY DEF StatusesOf
        <5> QED BY <5>1, Removed, ZenonT(60)
      <4>2. CASE chat' = chat
        BY <4>2
      <4>3. ASSUME NEW i \in StatusesOf(cur[a]), chat' = RemoveAt(chat, i)
            PROVE  \E S : chat' \in Seq(S)
        BY <4>1, <4>3
      <4> QED BY <3>1, <4>2, <4>3
    <3>4. failed' \subseteq 1..asked
      BY <3>1, <3>2
    <3> QED BY <3>1, <3>3, <3>4
  <2>9. ASSUME NEW a \in Agents, SendChunk(a) PROVE BotTypeInv'
    <3>1. /\ phase[a] = "answer" /\ Post(cur[a], AnswerKind(cur[a]), Head(left[a]))
          /\ UNCHANGED <<ctxDone, asked, queue, cur, phase, status, outcome, result, completed>>
      BY <2>9 DEF SendChunk
    <3>2. (\E S : chat' \in Seq(S)) /\ failed' \subseteq failed \cup {cur[a]}
      BY <3>1, Posting
    <3>3. cur[a] \in 1..asked
      BY <2>0, <3>1
    <3> QED BY <3>1, <3>2, <3>3
  <2>10. ASSUME NEW a \in Agents, Complete(a) PROVE BotTypeInv'
    <3>1. /\ phase[a] = "answer" /\ phase' = [phase EXCEPT ![a] = "idle"]
          /\ cur' = [cur EXCEPT ![a] = 0] /\ completed' = completed \cup {cur[a]}
          /\ UNCHANGED <<ctxDone, asked, queue, left, status, outcome, result, chat, failed>>
      BY <2>10 DEF Complete, Goto
    <3>2. cur[a] \in 1..asked
      BY <2>0, <3>1
    <3>3. /\ cur' \in [Agents -> {0} \cup Messages]
          /\ phase' \in [Agents -> {"idle", "events", "complete", "answer"}]
          /\ \A b \in Agents : cur'[b] = 0 <=> phase'[b] = "idle"
      BY <3>1, SMTT(60)
    <3>4. \A b \in Agents : cur'[b] \in 0..asked
      BY <2>0, <3>1
    <3> QED BY <3>1, <3>2, <3>3, <3>4
  <2>11. CASE UNCHANGED botVars
    BY <2>11 DEF botVars
  <2> QED BY <2>1, <2>3, <2>4, <2>5, <2>6, <2>7, <2>8, <2>9, <2>10, <2>11 DEF BotNext, UpdateLoop
<1> QED BY <1>1, <1>2, PTL DEF BotSpec

(* Every variable has its type in every reachable state; in particular no  *)
(* queue is longer than QueueSize, an agent has a message in its hands     *)
(* exactly while it processes one, and what failed or is completed was     *)
(* asked.                                                                  *)
THEOREM BotTypeCorrect == BotSpec => []BotTypeOK
<1>1. BotTypeInv => BotTypeOK
  BY DEF BotTypeInv
<1> QED BY <1>1, BotTypeInvariant, PTL

-----------------------------------------------------------------------------
(* A message is in one queue, once, or in the hands of one agent, or       *)
(* completed, and only one of these.                                       *)
OnePlace ==
  /\ \A a, b \in Agents : \A i \in DOMAIN queue[a], j \in DOMAIN queue[b] :
       queue[a][i] = queue[b][j] => a = b /\ i = j
  /\ \A a, b \in Agents : \A i \in DOMAIN queue[a] :
       queue[a][i] # cur[b] /\ queue[a][i] \notin completed
  /\ \A a, b \in Agents : cur[a] = cur[b] => a = b \/ cur[a] = 0
  /\ \A a \in Agents : cur[a] \notin completed

(* A status message was sent by the one OnEvent that sets status, and is   *)
(* deleted before the answer, unless a call failed.                        *)
StatusInv ==
  /\ \A m \in Messages :
       /\ status[m] # "sent" => StatusesOf(m) = {}
       /\ \A i, j \in StatusesOf(m) : i = j
       /\ m \in completed \ failed => StatusesOf(m) = {}
  /\ \A a \in Agents : phase[a] = "answer" /\ cur[a] \notin failed => StatusesOf(cur[a]) = {}

(* One step per action that moves a message.                               *)
LEMMA PlaceStep == BotTypeInv /\ OnePlace /\ [BotNext]_botVars => OnePlace'
<1> SUFFICES ASSUME BotTypeInv, OnePlace, [BotNext]_botVars PROVE OnePlace'
  OBVIOUS
<1>0. /\ asked \in Nat /\ completed \subseteq 1..asked
      /\ \A a \in Agents : queue[a] \in Seq(1..asked) /\ cur[a] \in 0..asked
      /\ \A a \in Agents : cur[a] = 0 <=> phase[a] = "idle"
      /\ queue = [a \in Agents |-> queue[a]] /\ cur = [a \in Agents |-> cur[a]]
  BY DEF BotTypeInv, BotTypeOK
<1>q. \A a \in Agents :
        /\ Len(queue[a]) \in Nat /\ DOMAIN queue[a] = 1..Len(queue[a])
        /\ \A i \in DOMAIN queue[a] : queue[a][i] \in 1..asked
  BY <1>0, LenProperties, ElementOfSeq
<1>1. ASSUME UNCHANGED <<queue, cur, completed>> PROVE OnePlace'
  BY <1>1 DEF OnePlace
<1>2. ASSUME NEW prefix, HandleText(prefix) PROVE OnePlace'
  <2>0. PICK a : a = AgentOf(prefix)
    OBVIOUS
  <2>1. asked' = asked + 1 /\ UNCHANGED <<cur, completed>>
    BY <1>2 DEF HandleText
  <2>2. CASE Takes(a)
    <3>1. a \in Agents /\ queue' = [queue EXCEPT ![a] = Append(@, asked')]
      BY <1>2, <2>0, <2>2 DEF HandleText, Takes
    <3> DEFINE n == Len(queue[a]) + 1
    <3>2. \A b \in Agents : b # a => queue'[b] = queue[b]
      BY <1>0, <3>1
    <3>3. queue'[a] = Append(queue[a], asked')
      BY <1>0, <3>1
    <3>4. /\ DOMAIN queue'[a] = 1..n /\ queue'[a][n] = asked'
          /\ \A i \in DOMAIN queue[a] : queue'[a][i] = queue[a][i]
      <4>1. queue[a] \in Seq(1..asked) /\ n = Len(queue[a]) + 1
        BY <1>0, <3>1
      <4> HIDE DEF n
      <4> QED BY <3>3, <4>1, Appended
    <3>5. \A i \in DOMAIN queue'[a] : i = n \/ i \in DOMAIN queue[a]
      <4>1. \A l \in Nat : \A i \in 1..(l + 1) : i = l + 1 \/ i \in 1..l
        OBVIOUS
      <4> QED BY <1>q, <3>1, <3>4, <4>1
    <3> HIDE DEF n
    <3>6. ASSUME NEW b \in Agents, NEW i \in DOMAIN queue'[b]
          PROVE  \/ b = a /\ i = n /\ queue'[b][i] = asked + 1
                 \/ i \in DOMAIN queue[b] /\ queue'[b][i] = queue[b][i]
      BY <2>1, <3>2, <3>4, <3>5
    <3>7. /\ \A b \in Agents : cur[b] # asked + 1
          /\ \A b \in Agents : \A i \in DOMAIN queue[b] : queue[b][i] # asked + 1
          /\ asked + 1 \notin completed
      BY <1>0, <1>q
    <3>8. ASSUME NEW b \in Agents, NEW c \in Agents,
                 NEW i \in DOMAIN queue'[b], NEW j \in DOMAIN queue'[c],
                 queue'[b][i] = queue'[c][j]
          PROVE  b = c /\ i = j
      BY <3>6, <3>7, <3>8 DEF OnePlace
    <3>9. ASSUME NEW b \in Agents, NEW c \in Agents, NEW i \in DOMAIN queue'[b]
          PROVE  queue'[b][i] # cur'[c] /\ queue'[b][i] \notin completed'
      BY <2>1, <3>6, <3>7 DEF OnePlace
    <3> QED BY <2>1, <3>8, <3>9 DEF OnePlace
  <2>3. CASE ~Takes(a)
    BY <1>1, <1>2, <2>0, <2>1, <2>3 DEF HandleText
  <2> QED BY <2>2, <2>3
<1>3. ASSUME NEW a \in Agents, Begin(a) PROVE OnePlace'
  <2>1. /\ cur[a] = 0 /\ queue[a] # <<>> /\ completed' = completed
        /\ cur' = [cur EXCEPT ![a] = Head(queue[a])]
        /\ queue' = [queue EXCEPT ![a] = Tail(@)]
    BY <1>0, <1>3 DEF Begin
  <2>2. /\ \A b \in Agents : b # a => queue'[b] = queue[b] /\ cur'[b] = cur[b]
        /\ queue'[a] = Tail(queue[a]) /\ cur'[a] = Head(queue[a])
    BY <1>0, <2>1
  <2>3. /\ 1 \in DOMAIN queue[a] /\ cur'[a] = queue[a][1]
        /\ \A i \in DOMAIN queue'[a] :
             i \in Nat /\ i # 0 /\ i + 1 \in DOMAIN queue[a] /\ queue'[a][i] = queue[a][i + 1]
    <3>1. PICK q : q = queue[a]
      OBVIOUS
    <3>2. q \in Seq(1..asked) /\ q # <<>> /\ Len(q) \in Nat /\ DOMAIN q = 1..Len(q)
      BY <1>0, <1>q, <2>1, <3>1
    <3>3. Len(q) >= 1
      BY <3>2
    <3>4. /\ Len(Tail(q)) = Len(q) - 1 /\ DOMAIN Tail(q) = 1..(Len(q) - 1)
          /\ \A i \in 1..(Len(q) - 1) : Tail(q)[i] = q[i + 1]
      BY <3>2, <3>3, HeadTailProperties, LenProperties
    <3>5. Head(q) = q[1]
      BY <3>2
    <3> QED BY <2>2, <3>1, <3>2, <3>3, <3>4, <3>5
  <2>4. ASSUME NEW b \in Agents, NEW i \in DOMAIN queue'[b]
        PROVE  \E k \in DOMAIN queue[b] :
                 /\ queue'[b][i] = queue[b][k]
                 /\ k = IF b = a THEN i + 1 ELSE i
                 /\ i \in Nat
                 /\ b = a => k # 1
    <3>1. CASE b = a
      <4>1. i \in DOMAIN queue'[a]
        BY <3>1
      <4>2. i \in Nat /\ i + 1 \in DOMAIN queue[a] /\ i + 1 # 1 /\ queue'[a][i] = queue[a][i + 1]
        BY <2>3, <4>1
      <4> QED BY <3>1, <4>2
    <3>2. CASE b # a
      <4>1. queue'[b] = queue[b]
        BY <2>2, <3>2
      <4>2. i \in DOMAIN queue[b] /\ i \in Nat
        BY <1>q, <4>1
      <4> QED BY <3>2, <4>1, <4>2
    <3> QED BY <3>1, <3>2
  <2>5. ASSUME NEW b \in Agents, NEW c \in Agents,
               NEW i \in DOMAIN queue'[b], NEW j \in DOMAIN queue'[c],
               queue'[b][i] = queue'[c][j]
        PROVE  b = c /\ i = j
    <3>1. PICK k \in DOMAIN queue[b] : queue'[b][i] = queue[b][k]
                                       /\ k = (IF b = a THEN i + 1 ELSE i) /\ i \in Nat
      BY <2>4
    <3>2. PICK l \in DOMAIN queue[c] : queue'[c][j] = queue[c][l]
                                       /\ l = (IF c = a THEN j + 1 ELSE j) /\ j \in Nat
      BY <2>4
    <3>3. queue[b][k] = queue[c][l]
      BY <2>5, <3>1, <3>2
    <3>4. b = c /\ k = l
      BY <3>3 DEF OnePlace
    <3> QED BY <3>1, <3>2, <3>4
  <2>6. ASSUME NEW b \in Agents, NEW c \in Agents, NEW i \in DOMAIN queue'[b]
        PROVE  queue'[b][i] # cur'[c] /\ queue'[b][i] \notin completed'
    <3>1. PICK k \in DOMAIN queue[b] : queue'[b][i] = queue[b][k] /\ (b = a => k # 1)
      BY <2>4
    <3>2. CASE c = a
      BY <2>1, <2>3, <3>1, <3>2 DEF OnePlace
    <3>3. CASE c # a
      BY <2>1, <2>2, <3>1, <3>3 DEF OnePlace
    <3> QED BY <3>2, <3>3
  <2>7. \A b \in Agents : b # a => cur[b] # cur'[a]
    BY <2>3 DEF OnePlace
  <2>8. \A b, c \in Agents : cur'[b] = cur'[c] => b = c \/ cur'[b] = 0
    BY <2>2, <2>7 DEF OnePlace
  <2>9. \A b \in Agents : cur'[b] \notin completed'
    BY <2>1, <2>2, <2>3 DEF OnePlace
  <2> QED BY <2>5, <2>6, <2>8, <2>9 DEF OnePlace
<1>4. ASSUME NEW a \in Agents, Complete(a) PROVE OnePlace'
  <2>1. /\ phase[a] = "answer" /\ queue' = queue
        /\ cur' = [cur EXCEPT ![a] = 0] /\ completed' = completed \cup {cur[a]}
    BY <1>4 DEF Complete
  <2>2. \A b \in Agents : cur'[b] = IF b = a THEN 0 ELSE cur[b]
    BY <1>0, <2>1
  <2>3. cur[a] # 0 /\ 0 \notin completed /\ \A b \in Agents : 0 \notin {queue[b][i] : i \in DOMAIN queue[b]}
    BY <1>0, <1>q, <2>1
  <2>4. \A b \in Agents : cur'[b] \notin completed'
    BY <2>1, <2>2, <2>3 DEF OnePlace
  <2>5. \A b, c \in Agents : \A i \in DOMAIN queue[b] :
          queue[b][i] # cur'[c] /\ queue[b][i] \notin completed'
    BY <2>1, <2>2, <2>3 DEF OnePlace
  <2>6. \A b, c \in Agents : cur'[b] = cur'[c] => b = c \/ cur'[b] = 0
    BY <2>2 DEF OnePlace
  <2> QED BY <2>1, <2>4, <2>5, <2>6 DEF OnePlace
<1>5. ASSUME NEW a \in Agents, OnEvent(a) \/ EventsEnd(a) \/ DeleteStatus(a) \/ SendChunk(a)
      PROVE  OnePlace'
  BY <1>1, <1>5 DEF OnEvent, EventsEnd, DeleteStatus, SendChunk, agentVars
<1>6. CASE CancelCtx \/ StopCommand
  BY <1>1, <1>6 DEF CancelCtx, StopCommand, agentVars
<1>7. CASE UNCHANGED botVars
  BY <1>1, <1>7 DEF botVars, agentVars
<1> QED BY <1>2, <1>3, <1>4, <1>5, <1>6, <1>7 DEF BotNext, UpdateLoop

(* A message that is no status leaves the status messages alone.           *)
LEMMA StatusesPosted ==
  ASSUME BotTypeInv, NEW m, NEW kind, NEW text, chat' = Append(chat, Message(m, kind, text))
  PROVE  \A n : /\ kind # "status" \/ n # m => StatusesOf(n)' = StatusesOf(n)
                /\ StatusesOf(n)' \subseteq StatusesOf(n) \cup {Len(chat) + 1}
<1> DEFINE e == Message(m, kind, text)
           l == Len(chat)
<1>1. /\ l \in Nat /\ DOMAIN chat = 1..l
      /\ DOMAIN chat' = 1..(l + 1)
      /\ \A i \in 1..l : chat'[i] = chat[i]
      /\ chat'[l + 1] = e
  BY Appended DEF BotTypeInv
<1>2. ASSUME NEW n, kind # "status" \/ n # m PROVE e # Message(n, "status", <<>>)
  BY <1>2 DEF Message
<1> HIDE DEF e, l
<1>3. \A i \in 1..(l + 1) : i = l + 1 \/ i \in 1..l
  BY <1>1
<1>4. 1..l \subseteq 1..(l + 1) /\ l + 1 \in 1..(l + 1)
  BY <1>1
<1>5. ASSUME NEW n PROVE StatusesOf(n)' \subseteq StatusesOf(n) \cup {l + 1}
  BY <1>1, <1>3 DEF StatusesOf, Message
<1>6. ASSUME NEW n, kind # "status" \/ n # m PROVE StatusesOf(n)' = StatusesOf(n)
  BY <1>1, <1>2, <1>3, <1>4, <1>6 DEF StatusesOf, Message
<1> QED BY <1>5, <1>6 DEF l

(* A deletion takes one status message and adds none.                      *)
LEMMA StatusesRemoved ==
  ASSUME BotTypeInv, NEW m, NEW k \in StatusesOf(m), chat' = RemoveAt(chat, k)
  PROVE  \A n : (\A i, j \in StatusesOf(n) : i = j) =>
                  /\ \A i, j \in StatusesOf(n)' : i = j
                  /\ StatusesOf(n) = {} => StatusesOf(n)' = {}
                  /\ n = m => StatusesOf(n)' = {}
<1>1. k \in DOMAIN chat
  BY DEF StatusesOf
<1>2. /\ \A i \in DOMAIN chat' :
           IF i < k THEN i \in DOMAIN chat /\ chat'[i] = chat[i]
                    ELSE i + 1 \in DOMAIN chat /\ chat'[i] = chat[i + 1]
      /\ DOMAIN chat' \subseteq Nat
  BY <1>1, Removed DEF BotTypeInv
<1>3. k \in Nat
  <2>1. PICK S : chat \in Seq(S)
    BY DEF BotTypeInv
  <2>2. DOMAIN chat = 1..Len(chat)
    BY <2>1, LenProperties
  <2> QED BY <1>1, <2>2
<1> DEFINE was(i) == IF i < k THEN i ELSE i + 1
<1>4. ASSUME NEW n, NEW i \in StatusesOf(n)' PROVE was(i) \in StatusesOf(n) /\ i \in Nat
  BY <1>2 DEF StatusesOf, Message
<1>5. \A i, j \in Nat : was(i) = was(j) => i = j
  BY <1>3
<1>6. \A i \in Nat : was(i) # k
  BY <1>3
<1> HIDE DEF was
<1> QED BY <1>4, <1>5, <1>6

(* One step per action; OnEvent and DeleteStatus have work to do.          *)
LEMMA StatusStep == BotTypeInv /\ OnePlace /\ StatusInv /\ [BotNext]_botVars => StatusInv'
<1> SUFFICES ASSUME BotTypeInv, OnePlace, StatusInv, [BotNext]_botVars PROVE StatusInv'
  OBVIOUS
<1>0. /\ \A a \in Agents : cur[a] \in {0} \cup Messages
      /\ \A a \in Agents : cur[a] = 0 <=> phase[a] = "idle"
      /\ cur = [a \in Agents |-> cur[a]] /\ phase = [a \in Agents |-> phase[a]]
      /\ status \in [Messages -> {"unsent", "failed", "sent"}]
  BY DEF BotTypeInv, BotTypeOK
(* A step that leaves the status messages alone, and answers no other      *)
(* message.                                                                *)
<1>1. ASSUME \A m : StatusesOf(m)' = StatusesOf(m), UNCHANGED <<status, completed>>,
             failed \subseteq failed',
             \A a \in Agents : phase'[a] = "answer" => phase[a] = "answer" /\ cur'[a] = cur[a]
      PROVE  StatusInv'
  BY <1>1 DEF StatusInv
<1>2. ASSUME UNCHANGED chat PROVE \A m : StatusesOf(m)' = StatusesOf(m)
  BY <1>2 DEF StatusesOf, Message
<1>3. ASSUME NEW m, NEW kind, kind # "status", NEW text, Post(m, kind, text)
      PROVE  (\A n : StatusesOf(n)' = StatusesOf(n)) /\ failed \subseteq failed'
  BY <1>2, <1>3, Posting, StatusesPosted
<1>4. CASE CancelCtx
  BY <1>1, <1>2, <1>4 DEF CancelCtx, agentVars, msgVars
<1>5. ASSUME NEW prefix, HandleText(prefix) PROVE StatusInv'
  <2>1. UNCHANGED <<cur, phase, status, completed>>
        /\ (UNCHANGED <<chat, failed>> \/ Post(asked', "refusal", <<>>))
    BY <1>5 DEF HandleText
  <2>2. "refusal" # "status"
    OBVIOUS
  <2>3. (\A n : StatusesOf(n)' = StatusesOf(n)) /\ failed \subseteq failed'
    BY <1>2, <1>3, <2>1, <2>2
  <2> QED BY <1>1, <2>1, <2>3
<1>6. CASE StopCommand
  <2>1. UNCHANGED <<cur, phase, status, completed>> /\ Post(asked', "farewell", <<>>)
    BY <1>6 DEF StopCommand, agentVars
  <2>2. (\A n : StatusesOf(n)' = StatusesOf(n)) /\ failed \subseteq failed'
    BY <1>3, <2>1
  <2> QED BY <1>1, <2>1, <2>2
<1>7. ASSUME NEW a \in Agents, Begin(a) \/ EventsEnd(a) PROVE StatusInv'
  <2>1. /\ UNCHANGED <<chat, status, failed, completed>>
        /\ \A b \in Agents : phase'[b] = "answer" => b # a /\ phase[b] = "answer"
        /\ \A b \in Agents : b # a => cur'[b] = cur[b]
    BY <1>0, <1>7 DEF Begin, EventsEnd, Goto
  <2> QED BY <1>1, <1>2, <2>1
<1>8. ASSUME NEW a \in Agents, OnEvent(a) PROVE StatusInv'
  <2>0. PICK m : m = cur[a]
    OBVIOUS
  <2>1. /\ phase[a] = "events" /\ status[m] = "unsent" /\ Post(m, "status", <<>>)
        /\ status' = [status EXCEPT ![m] = IF Posted THEN "sent" ELSE "failed"]
        /\ UNCHANGED <<cur, phase, completed>>
    BY <1>8, <2>0 DEF OnEvent, agentVars
  <2>2. m \in Messages /\ StatusesOf(m) = {} /\ m \notin completed
        /\ \A b \in Agents : phase[b] = "answer" => cur[b] # m
    BY <1>0, <2>0, <2>1 DEF StatusInv, OnePlace
  <2>3. /\ \A n \in Messages : n # m => status'[n] = status[n]
        /\ status'[m] = IF Posted THEN "sent" ELSE "failed"
    BY <1>0, <2>1, <2>2
  <2>4. /\ \A n : n # m => StatusesOf(n)' = StatusesOf(n)
        /\ StatusesOf(m)' \subseteq {Len(chat) + 1}
        /\ status'[m] # "sent" => StatusesOf(m)' = {}
        /\ failed \subseteq failed'
    <3>1. CASE chat' = Append(chat, Message(m, "status", <<>>)) /\ failed' = failed /\ Posted
      <4>1. \A n : /\ n # m => StatusesOf(n)' = StatusesOf(n)
                   /\ StatusesOf(n)' \subseteq StatusesOf(n) \cup {Len(chat) + 1}
        BY <3>1, StatusesPosted
      <4>2. StatusesOf(m)' \subseteq {Len(chat) + 1}
        BY <2>2, <4>1
      <4> QED BY <2>3, <3>1, <4>1, <4>2
    <3>2. CASE chat' = chat /\ failed' = failed \cup {m} /\ ~Posted
      <4>1. \A n : StatusesOf(n)' = StatusesOf(n)
        BY <1>2, <3>2
      <4>2. StatusesOf(m)' = {}
        BY <2>2, <4>1
      <4> QED BY <3>2, <4>1, <4>2
    <3> QED BY <2>1, <3>1, <3>2, Posting
  <2>5. \A n \in Messages :
          /\ status'[n] # "sent" => StatusesOf(n)' = {}
          /\ \A i, j \in StatusesOf(n)' : i = j
          /\ n \in completed' \ failed' => StatusesOf(n)' = {}
    <3>1. \A i, j \in StatusesOf(m)' : i = j
      BY <2>4
    <3>2. m \notin completed' /\ \A n : n \in completed' \ failed' => n \in completed \ failed
      BY <2>1, <2>2, <2>4
    <3> QED BY <2>3, <2>4, <3>1, <3>2 DEF StatusInv
  <2>6. \A b \in Agents : phase'[b] = "answer" /\ cur'[b] \notin failed' => StatusesOf(cur[b])' = {}
    <3>1. ASSUME NEW b \in Agents, phase'[b] = "answer", cur'[b] \notin failed'
          PROVE  StatusesOf(cur[b])' = {}
      <4>1. phase[b] = "answer" /\ cur'[b] = cur[b] /\ cur[b] \notin failed /\ cur[b] # m
        BY <2>1, <2>2, <2>4, <3>1
      <4>2. StatusesOf(cur[b]) = {}
        BY <4>1 DEF StatusInv
      <4> QED BY <2>4, <4>1, <4>2
    <3> QED BY <3>1
  <2> QED BY <2>5, <2>6 DEF StatusInv
<1>9. ASSUME NEW a \in Agents, DeleteStatus(a) PROVE StatusInv'
  <2>0. PICK m : m = cur[a]
    OBVIOUS
  <2>1. /\ phase[a] = "complete" /\ phase' = [phase EXCEPT ![a] = "answer"]
        /\ UNCHANGED <<cur, status, completed>>
        /\ \/ status[m] = "sent" /\ \E k \in StatusesOf(m) : chat' = RemoveAt(chat, k) /\ failed' = failed
           \/ status[m] = "sent" /\ failed' = failed \cup {m} /\ UNCHANGED chat
           \/ status[m] # "sent" /\ UNCHANGED <<chat, failed>>
    BY <1>9, <2>0 DEF DeleteStatus, Goto, HasStatus, Call, msgVars
  <2>2. m \in Messages /\ \A b \in Agents : b # a => phase'[b] = phase[b]
    BY <1>0, <2>0, <2>1
  <2> DEFINE Fewer ==
        /\ failed \subseteq failed'
        /\ \A n \in Messages : /\ \A i, j \in StatusesOf(n)' : i = j
                               /\ StatusesOf(n) = {} => StatusesOf(n)' = {}
        /\ m \in failed' \/ StatusesOf(m)' = {}
  <2>3. Fewer
    <3>1. \A n \in Messages : \A i, j \in StatusesOf(n) : i = j
      BY DEF StatusInv
    <3>2. ASSUME NEW k \in StatusesOf(m), chat' = RemoveAt(chat, k), failed' = failed
          PROVE  Fewer
      <4>1. \A n \in Messages :
              /\ \A i, j \in StatusesOf(n)' : i = j
              /\ StatusesOf(n) = {} => StatusesOf(n)' = {}
              /\ n = m => StatusesOf(n)' = {}
        BY <3>1, <3>2, StatusesRemoved
      <4>2. StatusesOf(m)' = {}
        BY <2>2, <4>1
      <4> QED BY <3>2, <4>1, <4>2
    <3>3. ASSUME UNCHANGED chat, failed \subseteq failed', m \in failed' \/ status[m] # "sent"
          PROVE  Fewer
      <4>1. \A n : StatusesOf(n)' = StatusesOf(n)
        BY <1>2, <3>3
      <4>2. status[m] # "sent" => StatusesOf(m) = {}
        BY <2>2 DEF StatusInv
      <4> QED BY <3>1, <3>3, <4>1, <4>2
    <3> QED BY <2>1, <3>2, <3>3
  <2>4. \A b \in Agents : b # a /\ phase'[b] = "answer" /\ cur[b] \notin failed'
          => cur[b] \in Messages /\ StatusesOf(cur[b]) = {}
    BY <1>0, <2>2, <2>3 DEF StatusInv
  <2> QED BY <2>0, <2>1, <2>2, <2>3, <2>4 DEF StatusInv
<1>10. ASSUME NEW a \in Agents, SendChunk(a) PROVE StatusInv'
  <2>1. UNCHANGED <<cur, phase, status, completed>>
        /\ Post(cur[a], AnswerKind(cur[a]), Head(left[a]))
    BY <1>10 DEF SendChunk, msgVars
  <2>2. AnswerKind(cur[a]) # "status"
    BY DEF AnswerKind
  <2>3. (\A n : StatusesOf(n)' = StatusesOf(n)) /\ failed \subseteq failed'
    BY <1>3, <2>1, <2>2
  <2> QED BY <1>1, <2>1, <2>3
<1>11. ASSUME NEW a \in Agents, Complete(a) PROVE StatusInv'
  <2>1. /\ phase[a] = "answer" /\ phase' = [phase EXCEPT ![a] = "idle"]
        /\ cur' = [cur EXCEPT ![a] = 0] /\ completed' = completed \cup {cur[a]}
        /\ UNCHANGED <<chat, status, failed>>
    BY <1>11 DEF Complete, Goto, msgVars
  <2>2. \A b \in Agents : phase'[b] = "answer" => phase[b] = "answer" /\ cur'[b] = cur[b]
    BY <1>0, <2>1
  <2> QED BY <1>2, <2>1, <2>2 DEF StatusInv
<1>12. CASE UNCHANGED botVars
  BY <1>1, <1>2, <1>12 DEF botVars, agentVars, msgVars
<1> QED BY <1>4, <1>5, <1>6, <1>7, <1>8, <1>9, <1>10, <1>11, <1>12 DEF BotNext, UpdateLoop

(* However the answers of several agents mix in the chat, there is at most *)
(* one status message for a request, and none once OnComplete has          *)
(* returned, unless a call of the API failed for it (handler.go:41-79).    *)
THEOREM StatusGone == BotSpec => []StatusRemoved
<1>1. BotInit => OnePlace /\ StatusInv
  <2> SUFFICES ASSUME BotInit PROVE OnePlace /\ StatusInv
    OBVIOUS
  <2>1. /\ chat = <<>> /\ completed = {} /\ \A a \in Agents : cur[a] = 0 /\ phase[a] = "idle"
        /\ \A a \in Agents : queue[a] = <<>>
    BY DEF BotInit
  <2>2. \A m : StatusesOf(m) = {}
    BY <2>1 DEF StatusesOf
  <2> QED BY <2>1, <2>2 DEF OnePlace, StatusInv
<1>2. BotTypeInv /\ StatusInv => StatusRemoved
  <2>1. BotTypeInv => 1..asked \subseteq Messages
    BY TelegramAssumption DEF BotTypeInv, BotTypeOK, Messages
  <2> QED BY <2>1 DEF StatusInv, StatusRemoved
<1> QED BY <1>1, <1>2, BotTypeInvariant, PlaceStep, StatusStep, PTL DEF BotSpec
-----------------------------------------------------------------------------
(* What is left of a sequence from a place on.                             *)
From(s, k) == SubSeq(s, k, Len(s))

LEMMA FromIs ==
  ASSUME NEW S, NEW s \in Seq(S), NEW k \in 1..(Len(s) + 1)
  PROVE  /\ From(s, k) \in Seq(S)
         /\ Len(From(s, k)) = Len(s) - k + 1
         /\ Len(s) \in Nat
         /\ \A i \in 1..(Len(s) - k + 1) : From(s, k)[i] = s[k + i - 1]
<1>1. Len(s) \in Nat /\ k \in Int /\ Len(s) \in Int
  BY LenProperties
<1>2. \A i \in k..Len(s) : s[i] \in S
  <2>1. ASSUME NEW i \in k..Len(s) PROVE i \in 1..Len(s)
    BY <1>1
  <2> QED BY <2>1, ElementOfSeq
<1>3. /\ SubSeq(s, k, Len(s)) \in Seq(S)
      /\ Len(SubSeq(s, k, Len(s))) = IF k <= Len(s) THEN Len(s) - k + 1 ELSE 0
      /\ \A i \in 1..(Len(s) - k + 1) : SubSeq(s, k, Len(s))[i] = s[k + i - 1]
  BY <1>1, <1>2, SubSeqProperties, SMTT(60)
<1>4. (IF k <= Len(s) THEN Len(s) - k + 1 ELSE 0) = Len(s) - k + 1
  BY <1>1
<1> QED BY <1>1, <1>3, <1>4 DEF From

LEMMA FromFrom ==
  ASSUME NEW S, NEW s \in Seq(S), NEW k \in 1..(Len(s) + 1),
         NEW j \in 1..(Len(From(s, k)) + 1)
  PROVE  /\ k + j - 1 \in 1..(Len(s) + 1)
         /\ From(From(s, k), j) = From(s, k + j - 1)
<1> DEFINE r == From(s, k)
           a == From(r, j)
           b == From(s, k + j - 1)
<1>1. /\ r \in Seq(S) /\ Len(r) = Len(s) - k + 1 /\ Len(s) \in Nat
      /\ \A i \in 1..(Len(s) - k + 1) : r[i] = s[k + i - 1]
  BY FromIs
<1>2. k + j - 1 \in 1..(Len(s) + 1) /\ j \in Nat /\ k \in Nat /\ j <= Len(s) - k + 2
  BY <1>1
<1> HIDE DEF r
<1>3. /\ a \in Seq(S) /\ Len(a) = Len(r) - j + 1
      /\ \A i \in 1..(Len(r) - j + 1) : a[i] = r[j + i - 1]
  BY <1>1, FromIs DEF r
<1>4. /\ b \in Seq(S) /\ Len(b) = Len(s) - (k + j - 1) + 1
      /\ \A i \in 1..(Len(s) - (k + j - 1) + 1) : b[i] = s[k + j - 1 + i - 1]
  BY <1>2, FromIs
<1>5. Len(a) = Len(b)
  BY <1>1, <1>2, <1>3, <1>4
<1>6. ASSUME NEW i \in 1..Len(a) PROVE a[i] = b[i]
  <2>1. /\ i \in 1..(Len(r) - j + 1) /\ i \in 1..(Len(s) - (k + j - 1) + 1)
        /\ j + i - 1 \in 1..(Len(s) - k + 1)
        /\ k + (j + i - 1) - 1 = k + j - 1 + i - 1
    BY <1>1, <1>2, <1>3, <1>4
  <2>2. a[i] = r[j + i - 1] /\ b[i] = s[k + j - 1 + i - 1]
    BY <1>3, <1>4, <2>1
  <2>3. r[j + i - 1] = s[k + (j + i - 1) - 1]
    BY <1>1, <2>1
  <2> QED BY <2>1, <2>2, <2>3
<1> HIDE DEF a, b
<1>7. a = b
  BY <1>3, <1>4, <1>5, <1>6, SeqEqual
<1> QED BY <1>2, <1>7 DEF a, b, r

(* A chunk fits and is not empty, and what is left begins behind it, or    *)
(* behind the newline that follows it.                                     *)
LEMMA CutFits ==
  ASSUME NEW text \in Seq(Bytes), Len(text) > MaxLen
  PROVE  CutAt(text) \in 1..MaxLen
<1> DEFINE newlines == {i \in 2..MaxLen : text[i] = NL}
<1>1. MaxLen \in Nat /\ MaxLen >= 1
  BY TelegramAssumption
<1>2. newlines \in SUBSET Nat /\ \A x \in newlines : 2 <= x /\ x <= MaxLen
  BY <1>1
<1>3. CASE newlines = {}
  BY <1>1, <1>3 DEF CutAt
<1>4. CASE newlines # {}
  <2>1. Max(newlines) \in newlines
    <3> HIDE DEF newlines
    <3> QED BY <1>1, <1>2, <1>4, MaxOfBounded
  <2>2. CutAt(text) = Max(newlines) - 1
    BY <1>4 DEF CutAt
  <2>3. PICK x \in newlines : x = Max(newlines)
    BY <2>1
  <2>4. x \in Nat /\ 2 <= x /\ x <= MaxLen
    BY <1>2, <2>3
  <2> HIDE DEF newlines
  <2>5. CutAt(text) = x - 1
    BY <2>2, <2>3
  <2> QED BY <1>1, <2>4, <2>5
<1> QED BY <1>3, <1>4

LEMMA RestIs ==
  ASSUME NEW text \in Seq(Bytes), Len(text) > MaxLen
  PROVE  \E k \in 1..(Len(text) + 1) :
           /\ Rest(text) = From(text, k)
           /\ \/ k = CutAt(text) + 1
              \/ k = CutAt(text) + 2 /\ text[CutAt(text) + 1] = NL
<1>1. PICK c : c = CutAt(text)
  OBVIOUS
<1>2. /\ c \in 1..MaxLen /\ MaxLen \in Nat /\ Len(text) \in Nat
      /\ c + 1 \in 1..(Len(text) + 1) /\ c + 1 \in 1..Len(text)
  <2>1. c \in 1..MaxLen /\ MaxLen \in Nat /\ Len(text) \in Nat
    BY <1>1, CutFits, LenProperties, TelegramAssumption
  <2> QED BY <2>1
<1> DEFINE rest == From(text, c + 1)
<1>3. /\ rest \in Seq(Bytes) /\ Len(rest) = Len(text) - (c + 1) + 1
      /\ \A i \in 1..(Len(text) - (c + 1) + 1) : rest[i] = text[c + 1 + i - 1]
  BY <1>2, FromIs
<1>4. rest[1] = text[c + 1]
  <2>1. 1 \in 1..(Len(text) - (c + 1) + 1) /\ c + 1 + 1 - 1 = c + 1
    BY <1>2
  <2> HIDE DEF rest
  <2> QED BY <1>3, <2>1
<1>5. Rest(text) = IF rest # <<>> /\ rest[1] = NL THEN Tail(rest) ELSE rest
  BY <1>1 DEF Rest, From
<1>6. CASE rest # <<>> /\ rest[1] = NL
  <2>1. Tail(rest) = From(rest, 2)
    <3> HIDE DEF rest
    <3> QED BY <1>3, <1>6, TailIsSubSeq DEF From
  <2>2. 2 \in 1..(Len(rest) + 1)
    <3> HIDE DEF rest
    <3> QED BY <1>2, <1>3
  <2>3. /\ c + 1 + 2 - 1 \in 1..(Len(text) + 1)
        /\ From(rest, 2) = From(text, c + 1 + 2 - 1)
    BY <1>2, <2>2, FromFrom
  <2>4. c + 1 + 2 - 1 = c + 2
    BY <1>2
  <2>5. Rest(text) = From(text, c + 2) /\ c + 2 \in 1..(Len(text) + 1)
    BY <1>5, <1>6, <2>1, <2>3, <2>4
  <2> HIDE DEF rest
  <2> QED BY <1>1, <1>4, <1>6, <2>5
<1>7. CASE ~(rest # <<>> /\ rest[1] = NL)
  BY <1>1, <1>2, <1>5, <1>7
<1> QED BY <1>6, <1>7

(* The texts that ChunkText meets.                                         *)
LEMMA RemaindersAre ==
  /\ Texts \subseteq Remainders
  /\ \A text \in Remainders :
       /\ text \in Seq(Bytes) /\ Len(text) \in Nat
       /\ \A k \in 1..(Len(text) + 1) : From(text, k) \in Remainders
<1>1. Texts \subseteq Seq(Bytes)
  BY TelegramAssumption
<1>2. \A text \in Texts : \A i \in 1..(Len(text) + 1) : From(text, i) \in Remainders
  BY DEF Remainders, From
<1>3. ASSUME NEW text \in Texts PROVE text \in Remainders
  <2>1. text \in Seq(Bytes) /\ Len(text) \in Nat
    BY <1>1, LenProperties
  <2>2. 1 \in 1..(Len(text) + 1) /\ From(text, 1) = text
    BY <2>1, SubSeqFull DEF From
  <2> QED BY <1>2, <2>2
<1>4. ASSUME NEW text \in Remainders
      PROVE  /\ text \in Seq(Bytes) /\ Len(text) \in Nat
             /\ \A k \in 1..(Len(text) + 1) : From(text, k) \in Remainders
  <2>0. PICK t \in Texts : \E j \in 1..(Len(t) + 1) : text = From(t, j)
    BY DEF Remainders, From
  <2>1. PICK i \in 1..(Len(t) + 1) : text = From(t, i)
    BY <2>0
  <2>2. t \in Seq(Bytes)
    BY <1>1
  <2>3. text \in Seq(Bytes)
    BY <2>1, <2>2, FromIs
  <2>4. ASSUME NEW k \in 1..(Len(text) + 1) PROVE From(text, k) \in Remainders
    <3>1. /\ i + k - 1 \in 1..(Len(t) + 1)
          /\ From(text, k) = From(t, i + k - 1)
      BY <2>1, <2>2, FromFrom
    <3> QED BY <1>2, <3>1
  <2> QED BY <2>3, <2>4, LenProperties
<1> QED BY <1>3, <1>4

LEMMA RestRemains ==
  ASSUME NEW text \in Remainders, Len(text) > MaxLen
  PROVE  Rest(text) \in Remainders /\ Len(Rest(text)) < Len(text)
<1>1. text \in Seq(Bytes) /\ Len(text) \in Nat
  BY RemaindersAre
<1>2. CutAt(text) \in 1..MaxLen /\ MaxLen \in Nat
  BY <1>1, CutFits, TelegramAssumption
<1>3. PICK k \in 1..(Len(text) + 1) :
        /\ Rest(text) = From(text, k)
        /\ k = CutAt(text) + 1 \/ k = CutAt(text) + 2
  BY <1>1, RestIs
<1>4. k >= 2
  BY <1>2, <1>3
<1>5. Len(From(text, k)) = Len(text) - k + 1
  BY <1>1, FromIs
<1>6. From(text, k) \in Remainders
  BY RemaindersAre
<1> QED BY <1>1, <1>3, <1>4, <1>5, <1>6

-----------------------------------------------------------------------------
(* ChunkText is recursive: that a function with its equation exists is     *)
(* shown for texts of a bounded length first, by the length.               *)
ChunkStep(f, text) ==
  IF text = <<>> THEN <<>>
  ELSE IF Len(text) <= MaxLen THEN <<text>>
  ELSE <<SubSeq(text, 1, CutAt(text))>> \o f[Rest(text)]

UpToLength(n) == {text \in Remainders : Len(text) <= n}

Chunks(f, n) == f = [text \in UpToLength(n) |-> ChunkStep(f, text)]

(* The step looks at shorter texts only.                                   *)
LEMMA StepLooksDown ==
  ASSUME NEW text \in Remainders, NEW f, NEW g,
         Len(text) > MaxLen => f[Rest(text)] = g[Rest(text)]
  PROVE  ChunkStep(f, text) = ChunkStep(g, text)
<1>1. Len(text) \in Nat /\ MaxLen \in Nat
  BY RemaindersAre, TelegramAssumption
<1>2. CASE Len(text) <= MaxLen
  BY <1>2 DEF ChunkStep
<1>3. CASE Len(text) > MaxLen
  BY <1>3 DEF ChunkStep
<1> QED BY <1>1, <1>2, <1>3

LEMMA ChunksExist == \A n \in Nat : \E f : Chunks(f, n)
<1> SUFFICES ASSUME {n \in Nat : ~\E f : Chunks(f, n)} # {} PROVE FALSE
  OBVIOUS
<1> DEFINE T == {n \in Nat : ~\E f : Chunks(f, n)}
<1>1. PICK n \in T : \A m \in T : n <= m
  <2>1. T \in SUBSET Nat /\ T # {}
    OBVIOUS
  <2> HIDE DEF T
  <2> QED BY <2>1, LeastOf
<1>2. n \in Nat /\ ~\E f : Chunks(f, n)
  BY <1>1
<1>3. MaxLen \in Nat /\ MaxLen >= 1
  BY TelegramAssumption
<1>4. n # 0
  <2> SUFFICES ASSUME n = 0 PROVE FALSE
    OBVIOUS
  <2> DEFINE f == [text \in UpToLength(0) |-> ChunkStep(0, text)]
  <2>1. ASSUME NEW text \in UpToLength(0) PROVE ChunkStep(0, text) = ChunkStep(f, text)
    <3> HIDE DEF f
    <3>1. text \in Remainders /\ Len(text) <= 0 /\ Len(text) \in Nat
      BY RemaindersAre DEF UpToLength
    <3> QED BY <1>3, <3>1, StepLooksDown
  <2>2. f = [text \in UpToLength(0) |-> ChunkStep(f, text)]
    BY <2>1
  <2> HIDE DEF f
  <2> QED BY <1>2, <2>2 DEF Chunks
<1>5. n - 1 \in Nat
  BY <1>2, <1>4
<1>6. PICK g : Chunks(g, n - 1)
  <2>1. n - 1 \notin T
    <3> HIDE DEF T
    <3> QED BY <1>1, <1>2, <1>5
  <2> QED BY <1>5, <2>1
<1> DEFINE f == [text \in UpToLength(n) |-> ChunkStep(g, text)]
<1>7. ASSUME NEW text \in UpToLength(n) PROVE ChunkStep(g, text) = ChunkStep(f, text)
  <2>1. text \in Remainders /\ Len(text) <= n /\ Len(text) \in Nat
    BY RemaindersAre DEF UpToLength
  <2>2. ASSUME Len(text) > MaxLen PROVE f[Rest(text)] = g[Rest(text)]
    <3>1. Rest(text) \in Remainders /\ Len(Rest(text)) < Len(text) /\ Len(Rest(text)) \in Nat
      BY <2>1, <2>2, RestRemains, RemaindersAre
    <3>2. Rest(text) \in UpToLength(n) /\ Rest(text) \in UpToLength(n - 1)
      BY <1>2, <2>1, <3>1 DEF UpToLength
    <3>3. f[Rest(text)] = ChunkStep(g, Rest(text))
      BY <3>2
    <3>4. g[Rest(text)] = ChunkStep(g, Rest(text))
      BY <1>6, <3>2 DEF Chunks
    <3> QED BY <3>3, <3>4
  <2> HIDE DEF f
  <2> QED BY <2>1, <2>2, StepLooksDown
<1>8. f = [text \in UpToLength(n) |-> ChunkStep(f, text)]
  BY <1>7
<1> HIDE DEF f
<1> QED BY <1>2, <1>8 DEF Chunks

LEMMA ChunksAgree ==
  ASSUME NEW n \in Nat, NEW k \in Nat, NEW f, NEW g, Chunks(f, n), Chunks(g, k)
  PROVE  \A text \in UpToLength(n) \cap UpToLength(k) : f[text] = g[text]
<1> DEFINE T == {Len(text) : text \in {t \in UpToLength(n) \cap UpToLength(k) : f[t] # g[t]}}
<1> SUFFICES ASSUME T # {} PROVE FALSE
  OBVIOUS
<1>1. T \in SUBSET Nat
  BY RemaindersAre DEF UpToLength
<1>2. PICK l \in T : \A m \in T : l <= m
  <2> HIDE DEF T
  <2> QED BY <1>1, LeastOf
<1>3. PICK text \in UpToLength(n) \cap UpToLength(k) : l = Len(text) /\ f[text] # g[text]
  BY <1>2
<1>4. /\ text \in Remainders /\ Len(text) <= n /\ Len(text) <= k /\ Len(text) \in Nat
      /\ f[text] = ChunkStep(f, text) /\ g[text] = ChunkStep(g, text)
  BY <1>3, RemaindersAre DEF Chunks, UpToLength
<1>5. Len(text) > MaxLen => f[Rest(text)] = g[Rest(text)]
  <2> SUFFICES ASSUME Len(text) > MaxLen, f[Rest(text)] # g[Rest(text)] PROVE FALSE
    OBVIOUS
  <2>1. Rest(text) \in Remainders /\ Len(Rest(text)) < Len(text) /\ Len(Rest(text)) \in Nat
    BY <1>4, RestRemains, RemaindersAre
  <2>2. Rest(text) \in UpToLength(n) \cap UpToLength(k)
    BY <1>4, <2>1 DEF UpToLength
  <2>3. Len(Rest(text)) \in T
    BY <2>2
  <2> HIDE DEF T
  <2> QED BY <1>2, <1>3, <1>4, <2>1, <2>3
<1>6. ChunkStep(f, text) = ChunkStep(g, text)
  <2> HIDE DEF T
  <2>1. text \in Remainders
    BY <1>4, ZenonT(60)
  <2> QED BY <1>5, <2>1, StepLooksDown, ZenonT(60)
<1> QED BY <1>3, <1>4, <1>6

(* ChunkText satisfies its own equation.                                   *)
LEMMA ChunkTextIs ==
  ChunkText = [text \in Remainders |-> ChunkStep(ChunkText, text)]
<1> DEFINE g == [n \in Nat |-> CHOOSE f : Chunks(f, n)]
           f == [text \in Remainders |-> g[Len(text)][text]]
<1>1. \A n \in Nat : Chunks(g[n], n)
  <2> SUFFICES ASSUME NEW n \in Nat PROVE Chunks(CHOOSE h : Chunks(h, n), n)
    OBVIOUS
  <2>1. \E h : Chunks(h, n)
    BY ChunksExist
  <2> QED BY <2>1
<1> HIDE DEF g
<1>2. ASSUME NEW text \in Remainders PROVE f[text] = ChunkStep(f, text)
  <2>1. PICK n \in Nat : n = Len(text)
    BY RemaindersAre
  <2>2. text \in UpToLength(n)
    BY <2>1 DEF UpToLength
  <2>3. f[text] = g[n][text] /\ g[n][text] = ChunkStep(g[n], text)
    BY <1>1, <2>1, <2>2 DEF Chunks
  <2>4. ASSUME Len(text) > MaxLen PROVE f[Rest(text)] = g[n][Rest(text)]
    <3>1. PICK r : r = Rest(text)
      OBVIOUS
    <3>2. r \in Remainders /\ Len(r) < n /\ Len(r) \in Nat
      BY <2>1, <2>4, <3>1, RestRemains, RemaindersAre
    <3>3. r \in UpToLength(n) \cap UpToLength(Len(r))
      BY <3>2 DEF UpToLength
    <3>4. g[n][r] = g[Len(r)][r]
      <4>1. Chunks(g[n], n) /\ Chunks(g[Len(r)], Len(r))
        BY <1>1, <3>2
      <4> QED BY <3>2, <3>3, <4>1, ChunksAgree
    <3> QED BY <3>1, <3>2, <3>4
  <2> HIDE DEF f
  <2>5. ChunkStep(f, text) = ChunkStep(g[n], text)
    BY <2>4, StepLooksDown
  <2> QED BY <2>3, <2>5
<1>3. f = [text \in Remainders |-> ChunkStep(f, text)]
  BY <1>2
<1> HIDE DEF f
<1> QED BY <1>3, ZenonT(60) DEF ChunkText, ChunkStep

-----------------------------------------------------------------------------
(* A cut of what is left, behind the first chunk, is a cut of the text.    *)
LEMMA PartOfFrom ==
  ASSUME NEW S, NEW s \in Seq(S), NEW k \in 1..(Len(s) + 1),
         NEW i \in 1..Len(From(s, k)), NEW j \in 1..Len(From(s, k))
  PROVE  SubSeq(From(s, k), i, j) = SubSeq(s, k + i - 1, k + j - 1)
<1>1. Len(s) \in Nat /\ Len(From(s, k)) = Len(s) - k + 1
  BY FromIs
<1>2. PICK l : l = Len(s)
  OBVIOUS
<1>3. k \in 1..l /\ l \in 1..l /\ i \in 1..(l - k + 1) /\ j \in 1..(l - k + 1)
  BY <1>1, <1>2
<1>4. SubSeq(SubSeq(s, k, l), i, j) = SubSeq(s, k + i - 1, k + j - 1)
  BY <1>2, <1>3, SubSeqOfSubSeq
<1> QED BY <1>2, <1>4 DEF From

LEMMA CutsMore ==
  ASSUME NEW text \in Seq(Bytes), Len(text) > MaxLen,
         NEW d \in Seq(Seq(Bytes)), Cuts(d, Rest(text)),
         NEW e, e = <<SubSeq(text, 1, CutAt(text))>> \o d
  PROVE  e \in Seq(Seq(Bytes)) /\ Cuts(e, text)
<1>1. PICK c, l : c = CutAt(text) /\ l = Len(text)
  OBVIOUS
<1>2. c \in 1..MaxLen /\ MaxLen \in Nat /\ l \in Nat /\ l > MaxLen
  BY <1>1, CutFits, LenProperties, TelegramAssumption
<1>3. PICK k \in 1..(l + 1) :
        /\ Rest(text) = From(text, k)
        /\ \/ k = c + 1
           \/ k = c + 2 /\ text[c + 1] = NL
  BY <1>1, RestIs
<1>4. PICK r : r = From(text, k)
  OBVIOUS
<1>5. /\ r \in Seq(Bytes) /\ Len(r) = l - k + 1
      /\ \A i \in 1..(l - k + 1) : r[i] = text[k + i - 1]
  BY <1>1, <1>4, FromIs
<1>6. PICK n : n = Len(d)
  OBVIOUS
<1>7. n \in Nat /\ d \in [1..n -> Seq(Bytes)]
  BY <1>6, LenProperties
<1>8. PICK h : h = SubSeq(text, 1, c)
  OBVIOUS
<1>9. h \in Seq(Bytes) /\ Len(h) = c
  <2>1. \A i \in 1..c : text[i] \in Bytes
    <3>1. \A i \in 1..c : i \in 1..Len(text)
      BY <1>1, <1>2
    <3> QED BY <3>1, ElementOfSeq
  <2>2. 1 \in Int /\ c \in Int /\ 1 <= c /\ c - 1 + 1 = c
    BY <1>2
  <2> QED BY <1>8, <2>1, <2>2, SubSeqProperties
<1>10. /\ e \in Seq(Seq(Bytes)) /\ Len(e) = n + 1
       /\ e[1] = h
       /\ \A i \in 1..n : e[i + 1] = d[i]
  <2>1. <<h>> \in Seq(Seq(Bytes)) /\ Len(<<h>>) = 1 /\ <<h>>[1] = h
    BY <1>9
  <2>2. PICK b : b = <<h>>
    OBVIOUS
  <2>3. b \in Seq(Seq(Bytes)) /\ Len(b) = 1 /\ b[1] = h /\ e = b \o d
    BY <1>1, <1>8, <2>1, <2>2
  <2>c. /\ b \o d \in Seq(Seq(Bytes)) /\ Len(b \o d) = Len(b) + Len(d)
        /\ \A i \in 1..(Len(b) + Len(d)) :
             (b \o d)[i] = IF i <= Len(b) THEN b[i] ELSE d[i - Len(b)]
    BY <2>3, ConcatProperties
  <2>4. /\ e \in Seq(Seq(Bytes)) /\ Len(e) = 1 + n
        /\ \A i \in 1..(1 + n) : e[i] = IF i <= 1 THEN b[i] ELSE d[i - 1]
    BY <1>6, <2>3, <2>c
  <2>5. \A i \in 1..n : i + 1 \in 1..(1 + n) /\ ~(i + 1 <= 1) /\ i + 1 - 1 = i
    BY <1>7
  <2>6. 1 \in 1..(1 + n) /\ 1 <= 1
    BY <1>7
  <2> QED BY <1>7, <2>3, <2>4, <2>5, <2>6
<1>11. PICK g \in [1..(n + 1) -> 1..(Len(r) + 1)] :
         /\ g[1] = 1 /\ g[n + 1] = Len(r) + 1
         /\ \A j \in 1..n : Stands(g, d, r, j)
  <2>1. Cuts(d, r)
    BY <1>3, <1>4
  <2> QED BY <1>6, <2>1, Zenon DEF Cuts
<1>12. \A j \in 1..n : Len(d[j]) \in 1..MaxLen
  BY <1>6, Zenon DEF Cuts
<1>f. PICK f : f = [i \in 1..(n + 2) |-> IF i = 1 THEN 1 ELSE g[i - 1] + k - 1]
  OBVIOUS
<1>13. /\ f \in [1..(n + 2) -> 1..(l + 1)]
       /\ f[1] = 1 /\ f[2] = k /\ f[n + 2] = l + 1
       /\ \A j \in 1..(n + 1) : f[j + 1] = g[j] + k - 1
  <2>1. ASSUME NEW j \in 1..(n + 1) PROVE g[j] \in Nat /\ g[j] + k - 1 \in 1..(l + 1)
    <3>1. PICK p \in 1..(Len(r) + 1) : p = g[j]
      BY <1>11
    <3>2. p \in Nat /\ p + k - 1 \in 1..(l + 1)
      BY <1>2, <1>3, <1>5
    <3> QED BY <3>1, <3>2
  <2>2. \A i \in 1..(n + 2) : i = 1 \/ i - 1 \in 1..(n + 1)
    BY <1>7
  <2>3. f \in [1..(n + 2) -> 1..(l + 1)]
    BY <1>2, <1>f, <2>1, <2>2, SMTT(60)
  <2>4. \A j \in 1..(n + 1) : j + 1 \in 1..(n + 2) /\ j + 1 # 1 /\ j + 1 - 1 = j
    BY <1>7
  <2>5. \A j \in 1..(n + 1) : f[j + 1] = g[j] + k - 1
    BY <1>f, <2>4
  <2>6. 1 \in 1..(n + 1) /\ n + 1 \in 1..(n + 1) /\ 1 + 1 = 2 /\ n + 1 + 1 = n + 2 /\ 1 \in 1..(n + 2)
    BY <1>7
  <2>7. f[1] = 1
    BY <1>f, <2>6
  <2>8. f[2] = g[1] + k - 1 /\ f[n + 2] = g[n + 1] + k - 1
    BY <2>5, <2>6
  <2>9. f[2] = k /\ f[n + 2] = l + 1
    BY <1>2, <1>5, <1>11, <2>8
  <2> QED BY <2>3, <2>5, <2>7, <2>9
<1>14. ASSUME NEW i \in 1..(n + 1)
       PROVE  Len(e[i]) \in 1..MaxLen /\ Stands(f, e, text, i)
  <2>1. CASE i = 1
    <3>1. e[i] = h /\ Len(e[i]) = c /\ f[i] = 1 /\ f[i + 1] = k
      BY <1>9, <1>10, <1>13, <2>1
    <3>2. (1 + c) - 1 = c /\ c + 2 = 1 + c + 1 /\ c + 1 = 1 + c
      BY <1>2
    <3>3. e[i] = SubSeq(text, f[i], (f[i] + Len(e[i])) - 1)
      BY <1>8, <3>1, <3>2, Zenon
    <3>4. \/ f[i + 1] = f[i] + Len(e[i])
          \/ f[i + 1] = f[i] + Len(e[i]) + 1 /\ text[f[i] + Len(e[i])] = NL
      BY <1>3, <3>1, <3>2, Zenon
    <3>5. Stands(f, e, text, i)
      BY <3>3, <3>4 DEF Stands
    <3> QED BY <1>2, <3>1, <3>5
  <2>2. CASE i # 1
    <3>1. PICK j \in 1..n : i = j + 1
      <4>1. i - 1 \in 1..n /\ i = i - 1 + 1
        BY <1>7, <2>2
      <4> QED BY <4>1
    <3>2. PICK a, b, q : a = g[j] /\ b = g[j + 1] /\ q = Len(d[j])
      OBVIOUS
    <3>3. /\ q \in 1..MaxLen
          /\ \/ b = a + q
             \/ b = a + q + 1 /\ r[a + q] = NL
          /\ d[j] = SubSeq(r, a, (a + q) - 1)
      <4>1. Stands(g, d, r, j) /\ q \in 1..MaxLen
        BY <1>11, <1>12, <3>2
      <4>2. j \in 1..(n + 1) /\ j + 1 \in 1..(n + 1)
        BY <1>7
      <4>3. a \in 1..(Len(r) + 1) /\ b \in 1..(Len(r) + 1) /\ Len(r) \in Nat
        <5>1. Len(r) \in Nat
          BY <1>5, LenProperties
        <5> QED BY <1>11, <3>2, <4>2, <5>1
      <4>4. a \in Int /\ b \in Int /\ q \in Int
        BY <1>2, <4>1, <4>3
      <4> QED BY <3>2, <4>1, <4>4 DEF Stands
    <3>4. a \in 1..(Len(r) + 1) /\ b \in 1..(Len(r) + 1)
      <4>1. j \in 1..(n + 1) /\ j + 1 \in 1..(n + 1)
        BY <1>7
      <4> QED BY <1>11, <3>2, <4>1
    <3>5. /\ e[i] = d[j] /\ Len(e[i]) = q /\ f[i] = a + k - 1 /\ f[i + 1] = b + k - 1
      <4>1. j \in 1..(n + 1) /\ j + 1 \in 1..(n + 1)
        BY <1>7
      <4> QED BY <1>10, <1>13, <3>1, <3>2, <4>1
    <3>6. /\ Len(r) \in Nat /\ a \in Int /\ b \in Int /\ q \in Int /\ k \in Int /\ q >= 1
          /\ a >= 1 /\ a + q <= b /\ b <= Len(r) + 1
      BY <1>2, <1>5, <3>3, <3>4
    <3>7. SubSeq(r, a, (a + q) - 1) = SubSeq(text, k + a - 1, k + ((a + q) - 1) - 1)
      <4>1. PICK i1, j1 : i1 = a /\ j1 = (a + q) - 1
        OBVIOUS
      <4>2. i1 \in 1..Len(From(text, k)) /\ j1 \in 1..Len(From(text, k))
        BY <1>4, <3>6, <4>1
      <4>3. k \in 1..(Len(text) + 1)
        BY <1>1
      <4>4. SubSeq(From(text, k), i1, j1) = SubSeq(text, k + i1 - 1, k + j1 - 1)
        BY <4>2, <4>3, PartOfFrom, SMTT(60)
      <4> QED BY <1>4, <4>1, <4>4
    <3>8. PICK p : p = a + k - 1
      OBVIOUS
    <3>9. /\ k + a - 1 = p /\ k + ((a + q) - 1) - 1 = (p + q) - 1
          /\ b = a + q => b + k - 1 = p + q
          /\ b = a + q + 1 => b + k - 1 = p + q + 1
      BY <3>6, <3>8
    <3>10. ASSUME b = a + q + 1 PROVE r[a + q] = text[p + q]
      <4>1. a + q \in 1..(l - k + 1) /\ k + (a + q) - 1 = p + q
        BY <1>5, <3>6, <3>8, <3>10
      <4> QED BY <1>5, <4>1
    <3>11. f[i] = p /\ Len(e[i]) = q /\ f[i + 1] = b + k - 1
      BY <3>5, <3>8
    <3>12. e[i] = SubSeq(text, f[i], (f[i] + Len(e[i])) - 1)
      BY <3>3, <3>5, <3>7, <3>9, <3>11, Zenon
    <3>13. \/ f[i + 1] = f[i] + Len(e[i])
           \/ f[i + 1] = f[i] + Len(e[i]) + 1 /\ text[f[i] + Len(e[i])] = NL
      BY <3>3, <3>9, <3>10, <3>11, Zenon
    <3>14. Stands(f, e, text, i)
      BY <3>12, <3>13 DEF Stands
    <3> QED BY <3>3, <3>11, <3>14
  <2> QED BY <2>1, <2>2
<1>15. Len(e) + 1 = n + 2 /\ Len(e) = n + 1
  <2>1. Len(e) = n + 1
    BY <1>10
  <2> QED BY <1>7, <2>1
<1>16. f \in [1..(Len(e) + 1) -> 1..(Len(text) + 1)] /\ f[Len(e) + 1] = Len(text) + 1
  BY <1>1, <1>13, <1>15
<1>17. Cuts(e, text)
  <2>1. \A k1 \in 1..Len(e) : Len(e[k1]) \in 1..MaxLen /\ Stands(f, e, text, k1)
    BY <1>14, <1>15
  <2> QED BY <1>13, <1>16, <2>1, Zenon DEF Cuts
<1> QED BY <1>10, <1>17

(* ChunkText cuts every text that it meets.                                *)
LEMMA ChunkTextCuts ==
  \A text \in Remainders :
    ChunkText[text] \in Seq(Seq(Bytes)) /\ Cuts(ChunkText[text], text)
<1> DEFINE Fine(text) == ChunkText[text] \in Seq(Seq(Bytes)) /\ Cuts(ChunkText[text], text)
           T == {Len(text) : text \in {t \in Remainders : ~Fine(t)}}
<1> SUFFICES ASSUME T # {} PROVE FALSE
  OBVIOUS
<1>1. T \in SUBSET Nat
  BY RemaindersAre
<1>2. PICK l \in T : \A m \in T : l <= m
  <2> HIDE DEF T
  <2> QED BY <1>1, LeastOf
<1>3. PICK text \in Remainders : l = Len(text) /\ ~Fine(text)
  BY <1>2
<1>4. text \in Seq(Bytes) /\ Len(text) \in Nat /\ MaxLen \in Nat
  BY RemaindersAre, TelegramAssumption
<1>5. ChunkText[text] = ChunkStep(ChunkText, text)
  BY ChunkTextIs
<1>6. CASE text = <<>>
  <2>1. ChunkText[text] = <<>> /\ Len(text) = 0
    BY <1>5, <1>6 DEF ChunkStep
  <2> DEFINE f == [i \in 1..1 |-> 1]
  <2>2. Len(<<>>) = 0 /\ 0 + 1 = 1 /\ 1..0 = {}
    OBVIOUS
  <2>3. f \in [1..1 -> 1..1] /\ f[1] = 1
    OBVIOUS
  <2> HIDE DEF f
  <2>4. Cuts(<<>>, <<>>)
    BY <2>2, <2>3 DEF Cuts
  <2> QED BY <1>3, <1>6, <2>1, <2>4, EmptySeq
<1>7. CASE text # <<>> /\ Len(text) <= MaxLen
  <2>1. PICK n : n = Len(text)
    OBVIOUS
  <2>2. n \in Nat /\ n >= 1 /\ n <= MaxLen
    BY <1>4, <1>7, <2>1, EmptySeq
  <2>3. PICK e : e = <<text>>
    OBVIOUS
  <2>4. e \in Seq(Seq(Bytes)) /\ Len(e) = 1 /\ e[1] = text
    BY <1>4, <2>3
  <2>5. ChunkText[text] = e
    BY <1>5, <1>7, <2>3 DEF ChunkStep
  <2> DEFINE f == [i \in 1..2 |-> IF i = 1 THEN 1 ELSE n + 1]
  <2>6. f \in [1..2 -> 1..(n + 1)] /\ f[1] = 1 /\ f[2] = n + 1
    BY <2>2
  <2>7. text = SubSeq(text, 1, n)
    BY <1>4, <2>1, SubSeqFull
  <2> HIDE DEF f
  <2>8. n \in 1..MaxLen /\ 1 + 1 = 2 /\ n + 1 = 1 + n /\ 1 + n - 1 = n /\ 1..1 = {1}
    BY <1>4, <2>2
  <2>9. Cuts(e, text)
    <3>1. \A k \in 1..Len(e) : k = 1
      BY <2>4
    <3>2. f \in [1..(Len(e) + 1) -> 1..(Len(text) + 1)]
          /\ f[1] = 1 /\ f[Len(e) + 1] = Len(text) + 1
      BY <2>1, <2>4, <2>6, <2>8
    <3>3. ASSUME NEW k \in 1..Len(e)
          PROVE  Len(e[k]) \in 1..MaxLen /\ Stands(f, e, text, k)
      BY <2>1, <2>4, <2>6, <2>7, <2>8, <3>1 DEF Stands
    <3> QED BY <3>2, <3>3, Zenon DEF Cuts
  <2> QED BY <1>3, <2>4, <2>5, <2>9
<1>8. CASE Len(text) > MaxLen
  <2>1. PICK r : r = Rest(text)
    OBVIOUS
  <2>2. r \in Remainders /\ Len(r) < Len(text) /\ Len(r) \in Nat
    BY <1>3, <1>8, <2>1, RestRemains, RemaindersAre
  <2>3. Fine(r)
    <3> SUFFICES ASSUME ~Fine(r) PROVE FALSE
      OBVIOUS
    <3>1. Len(r) \in T
      BY <2>2
    <3> HIDE DEF T
    <3> QED BY <1>2, <1>3, <1>4, <2>2, <3>1
  <2>4. text # <<>> /\ ~(Len(text) <= MaxLen)
    BY <1>4, <1>8
  <2>5. ChunkText[text] = <<SubSeq(text, 1, CutAt(text))>> \o ChunkText[r]
    BY <1>5, <2>1, <2>4 DEF ChunkStep
  <2>6. Fine(text)
    BY <1>4, <1>8, <2>1, <2>3, <2>5, CutsMore
  <2> QED BY <1>3, <2>6
<1> QED BY <1>4, <1>6, <1>7, <1>8

-----------------------------------------------------------------------------
(* Without the place k, a set of places moves up behind it, and each place *)
(* keeps as many up to it.                                                 *)
MovedUp(P, Q, k) == \A i \in Nat : i \in Q <=> (IF i < k THEN i ELSE i + 1) \in P

LEMMA CountMoved ==
  ASSUME NEW P \in SUBSET Nat, IsFiniteSet(P), NEW Q \in SUBSET Nat, NEW k \in Nat, k \notin P,
         MovedUp(P, Q, k)
  PROVE  Cardinality(Q) = Cardinality(P)
<1> DEFINE was(i) == IF i < k THEN i ELSE i + 1
           f == [i \in Q |-> was(i)]
<1> USE DEF MovedUp
<1>1. \A i \in Q : i \in Nat /\ was(i) \in P
  OBVIOUS
<1>2. \A i, j \in Nat : was(i) = was(j) => i = j
  OBVIOUS
<1>3. ASSUME NEW p \in P PROVE \E i \in Q : was(i) = p
  <2>1. p \in Nat /\ p # k
    OBVIOUS
  <2>2. CASE p < k
    BY <2>1, <2>2
  <2>3. CASE ~(p < k)
    <3>1. p - 1 \in Nat /\ was(p - 1) = p
      BY <2>1, <2>3
    <3> QED BY <3>1
  <2> QED BY <2>2, <2>3
<1>4. f \in [Q -> P] /\ \A i \in Q : f[i] = was(i)
  BY <1>1
<1> HIDE DEF f, was
<1>5. f \in Bijection(Q, P)
  <2>1. f \in Injection(Q, P)
    BY <1>1, <1>2, <1>4 DEF Injection, IsInjective
  <2>2. f \in Surjection(Q, P)
    BY <1>3, <1>4 DEF Surjection
  <2> QED BY <2>1, <2>2 DEF Bijection
<1>6. IsFiniteSet(Q)
  BY <1>5, FS_Injection DEF Bijection
<1> QED BY <1>5, <1>6, FS_Bijection DEF ExistsBijection

LEMMA RankMoved ==
  ASSUME NEW P \in SUBSET Nat, IsFiniteSet(P), NEW Q \in SUBSET Nat, NEW k \in Nat, k \notin P,
         MovedUp(P, Q, k)
  PROVE  \A i, p \in Nat : p = (IF i < k THEN i ELSE i + 1) =>
           Cardinality({j \in Q : j <= i}) = Cardinality({j \in P : j <= p})
<1> SUFFICES ASSUME NEW i \in Nat, NEW p \in Nat, p = IF i < k THEN i ELSE i + 1
             PROVE  Cardinality({j \in Q : j <= i}) = Cardinality({j \in P : j <= p})
  OBVIOUS
<1> DEFINE below == {j \in P : j <= p}
           now == {j \in Q : j <= i}
<1>1. below \in SUBSET Nat /\ now \in SUBSET Nat /\ k \notin below /\ IsFiniteSet(below)
  <2>1. below \in SUBSET P
    OBVIOUS
  <2>2. IsFiniteSet(below)
    BY <2>1, FS_Subset
  <2> QED BY <2>2
<1>2. ASSUME NEW j \in Nat PROVE j \in now <=> (IF j < k THEN j ELSE j + 1) \in below
  <2>1. j <= i <=> (IF j < k THEN j ELSE j + 1) <= p
    <3>1. CASE i < k
      BY <3>1
    <3>2. CASE ~(i < k)
      BY <3>2
    <3> QED BY <3>1, <3>2
  <2> QED BY <2>1 DEF MovedUp
<1> HIDE DEF below, now
<1>3. Cardinality(now) = Cardinality(below)
  <2>1. MovedUp(below, now, k)
    BY <1>2 DEF MovedUp
  <2> QED BY <1>1, <2>1, CountMoved
<1> QED BY <1>3 DEF below, now

(* A place behind all others.                                              *)
LEMMA RankAdded ==
  ASSUME NEW P \in SUBSET Nat, IsFiniteSet(P), NEW l \in Nat, \A j \in P : j <= l
  PROVE  /\ Cardinality(P \cup {l + 1}) = Cardinality(P) + 1
         /\ Cardinality({j \in P \cup {l + 1} : j <= l + 1}) = Cardinality(P) + 1
         /\ \A i \in P : {j \in P \cup {l + 1} : j <= i} = {j \in P : j <= i}
         /\ l + 1 \notin P
<1>1. l + 1 \notin P
  OBVIOUS
<1>2. Cardinality(P \cup {l + 1}) = Cardinality(P) + 1
  BY <1>1, FS_AddElement
<1>3. {j \in P \cup {l + 1} : j <= l + 1} = P \cup {l + 1}
  <2>1. \A j \in P \cup {l + 1} : j <= l + 1
    OBVIOUS
  <2> QED BY <2>1, Zenon
<1>4. ASSUME NEW i \in P PROVE {j \in P \cup {l + 1} : j <= i} = {j \in P : j <= i}
  OBVIOUS
<1> QED BY <1>1, <1>2, <1>3, <1>4

-----------------------------------------------------------------------------
(* AnswerWhole rests on where the answers are: OnComplete has begun to     *)
(* send that of m, and what it still has to send is what the chat does not *)
(* show, or nothing after a failure.                                       *)
Begun(m) == m \in completed \/ \E a \in Agents : cur[a] = m /\ phase[a] = "answer"

AnswerInvOf(m) ==
  /\ outcome[m] = "text" => result[m] \in Texts
  /\ ~Begun(m) => Pieces(m) = {}
  /\ Cardinality(Pieces(m)) <= Len(Answer(m))
  /\ \A i \in Pieces(m) : chat[i] = Message(m, AnswerKind(m), Answer(m)[Shown(m, i)])
  /\ m \in completed \ failed => Cardinality(Pieces(m)) = Len(Answer(m))
  /\ \A a \in Agents : cur[a] = m /\ phase[a] = "answer" =>
       \/ left[a] = SubSeq(Answer(m), Cardinality(Pieces(m)) + 1, Len(Answer(m)))
       \/ left[a] = <<>> /\ m \in failed

AnswerInv ==
  /\ DOMAIN result = Messages /\ DOMAIN left = Agents
  /\ \A m \in Messages : AnswerInvOf(m)

(* The chat shows the same of the answer to m, perhaps at other places.    *)
SameShown(m) ==
  /\ Cardinality(Pieces(m)') = Cardinality(Pieces(m))
  /\ \A i \in Pieces(m)' : \E k \in Pieces(m) : chat'[i] = chat[k] /\ Shown(m, i)' = Shown(m, k)

LEMMA PiecesFinite ==
  ASSUME \E S : chat \in Seq(S), NEW m
  PROVE  /\ Pieces(m) \in SUBSET Nat /\ IsFiniteSet(Pieces(m)) /\ Cardinality(Pieces(m)) \in Nat
         /\ Len(chat) \in Nat /\ \A i \in Pieces(m) : i <= Len(chat)
<1>1. PICK l \in Nat : l = Len(chat) /\ DOMAIN chat = 1..l
  <2>1. PICK S : chat \in Seq(S)
    OBVIOUS
  <2> QED BY <2>1, LenProperties
<1>2. Pieces(m) \in SUBSET (1..l)
  BY <1>1 DEF Pieces
<1>3. IsFiniteSet(1..l)
  BY FS_Interval
<1>4. IsFiniteSet(Pieces(m)) /\ Cardinality(Pieces(m)) \in Nat
  BY <1>2, <1>3, FS_Subset, FS_CardinalityType
<1> QED BY <1>1, <1>2, <1>4

LEMMA SameWhenUnchanged ==
  ASSUME UNCHANGED chat, NEW m
  PROVE  SameShown(m)
<1>1. Pieces(m)' = Pieces(m)
  BY DEF Pieces
<1>2. \A i : Shown(m, i)' = Shown(m, i)
  BY <1>1 DEF Shown
<1> QED BY <1>1, <1>2 DEF SameShown

(* A message that is no piece of this answer.                              *)
LEMMA SameWhenPosted ==
  ASSUME \E S : chat \in Seq(S), NEW m, NEW n, NEW kind, NEW text,
         chat' = Append(chat, Message(n, kind, text)),
         n # m \/ kind \notin {"chunk", "error"}
  PROVE  SameShown(m)
<1>1. PICK l, e : l = Len(chat) /\ e = Message(n, kind, text)
  OBVIOUS
<1>2. /\ l \in Nat /\ DOMAIN chat = 1..l
      /\ DOMAIN chat' = 1..(l + 1)
      /\ \A i \in 1..l : chat'[i] = chat[i]
      /\ chat'[l + 1] = e
  BY <1>1, Appended
<1>3. ~(e.msg = m /\ e.kind \in {"chunk", "error"})
  BY <1>1 DEF Message
<1>4. \A i \in 1..(l + 1) : i = l + 1 \/ i \in 1..l
  BY <1>2
<1>5. 1..l \subseteq 1..(l + 1)
  BY <1>2
<1>6. Pieces(m)' = Pieces(m)
  BY <1>2, <1>3, <1>4, <1>5 DEF Pieces
<1>7. \A i \in Pieces(m) : chat'[i] = chat[i]
  BY <1>2 DEF Pieces
<1>8. \A i : Shown(m, i)' = Shown(m, i)
  BY <1>6 DEF Shown
<1> QED BY <1>6, <1>7, <1>8 DEF SameShown

(* A status message goes.                                                  *)
LEMMA SameWhenRemoved ==
  ASSUME \E S : chat \in Seq(S), NEW m, NEW n, NEW k \in StatusesOf(n), chat' = RemoveAt(chat, k)
  PROVE  SameShown(m)
<1>1. k \in DOMAIN chat /\ chat[k] = Message(n, "status", <<>>)
  BY DEF StatusesOf
<1>2. PICK l : l = Len(chat)
  OBVIOUS
<1>3. /\ l \in Nat /\ k \in 1..l /\ DOMAIN chat = 1..l /\ DOMAIN chat' = 1..(l - 1)
      /\ \A i \in DOMAIN chat' : chat'[i] = IF i < k THEN chat[i] ELSE chat[i + 1]
  BY <1>1, <1>2, Removed
<1>4. PICK P, Q : P = Pieces(m) /\ Q = Pieces(m)'
  OBVIOUS
<1>5. P \in SUBSET Nat /\ IsFiniteSet(P) /\ k \in Nat
  BY <1>3, <1>4, PiecesFinite
<1>6. Q \in SUBSET Nat
  BY <1>3, <1>4 DEF Pieces
<1>7. k \notin P
  BY <1>1, <1>4 DEF Pieces, Message
<1>8. ASSUME NEW i \in Nat PROVE i \in Q <=> (IF i < k THEN i ELSE i + 1) \in P
  <2>1. i \in 1..(l - 1) <=> (IF i < k THEN i ELSE i + 1) \in 1..l
    BY <1>3
  <2>2. PICK w : w = IF i < k THEN i ELSE i + 1
    OBVIOUS
  <2>3. i \in DOMAIN chat' => chat'[i] = chat[w]
    BY <1>3, <2>2
  <2>4. i \in DOMAIN chat' <=> w \in DOMAIN chat
    BY <1>3, <2>1, <2>2
  <2>5. i \in Q <=> w \in P
    BY <1>4, <2>3, <2>4 DEF Pieces
  <2> QED BY <2>2, <2>5
<1>u. MovedUp(P, Q, k)
  BY <1>8 DEF MovedUp
<1>9. Cardinality(Q) = Cardinality(P)
  BY <1>5, <1>6, <1>7, <1>u, CountMoved
<1>a. \A i, p \in Nat : p = (IF i < k THEN i ELSE i + 1) =>
        Cardinality({j \in Q : j <= i}) = Cardinality({j \in P : j <= p})
  BY <1>5, <1>6, <1>7, <1>u, RankMoved
<1>10. ASSUME NEW i \in Q
       PROVE  \E p \in P : chat'[i] = chat[p] /\ Shown(m, i)' = Shown(m, p)
  <2>1. PICK p : p = IF i < k THEN i ELSE i + 1
    OBVIOUS
  <2>2. i \in Nat /\ i \in DOMAIN chat'
    BY <1>4, <1>6 DEF Pieces
  <2>3. p \in P /\ chat'[i] = chat[p]
    BY <1>3, <1>8, <2>1, <2>2
  <2>3a. p \in Nat
    BY <2>1, <2>2
  <2>4. Cardinality({j \in Q : j <= i}) = Cardinality({j \in P : j <= p})
    BY <1>a, <2>1, <2>2, <2>3a
  <2>5. Shown(m, i)' = Shown(m, p)
    BY <1>4, <2>4 DEF Shown
  <2> QED BY <2>3, <2>5
<1> QED BY <1>4, <1>9, <1>10 DEF SameShown

(* An answer is a sequence, whatever the outcome and the result.           *)
LEMMA AnswerIs ==
  ASSUME NEW o, NEW text, o = "text" => text \in Texts
  PROVE  \E S : (CASE o = "error" -> << <<>> >>
                   [] o = "text" -> ChunkText[text]
                   [] OTHER -> <<>>) \in Seq(S)
<1> DEFINE answer == CASE o = "error" -> << <<>> >>
                       [] o = "text" -> ChunkText[text]
                       [] OTHER -> <<>>
<1>1. ASSUME o = "text" PROVE \E S : answer \in Seq(S)
  <2>1. answer = ChunkText[text] /\ text \in Remainders
    BY <1>1, RemaindersAre
  <2> HIDE DEF answer
  <2> QED BY <2>1, ChunkTextCuts
<1>2. ASSUME o = "error" PROVE \E S : answer \in Seq(S)
  <2>1. answer = << <<>> >>
    BY <1>2
  <2>2. << <<>> >> \in Seq({<<>>})
    OBVIOUS
  <2> HIDE DEF answer
  <2> QED BY <2>1, <2>2
<1>3. ASSUME o # "text" /\ o # "error" PROVE \E S : answer \in Seq(S)
  <2>1. answer = <<>>
    BY <1>3
  <2>2. <<>> \in Seq({})
    OBVIOUS
  <2> HIDE DEF answer
  <2> QED BY <2>1, <2>2
<1> HIDE DEF answer
<1>4. \E S : answer \in Seq(S)
  BY <1>1, <1>2, <1>3
<1> QED BY <1>4 DEF answer

(* A step that does nothing to m keeps what holds of it.                   *)
LEMMA AnswerKept ==
  ASSUME NEW m, AnswerInvOf(m), SameShown(m),
         outcome'[m] = outcome[m], result'[m] = result[m],
         failed \subseteq failed', m \in completed <=> m \in completed',
         \A a \in Agents : cur'[a] = m /\ phase'[a] = "answer" <=> cur[a] = m /\ phase[a] = "answer",
         \A a \in Agents : cur[a] = m /\ phase[a] = "answer" => left'[a] = left[a]
  PROVE  AnswerInvOf(m)'
<1>1. Answer(m)' = Answer(m) /\ AnswerKind(m)' = AnswerKind(m)
  BY DEF Answer, AnswerKind
<1>2. Begun(m)' <=> Begun(m)
  BY DEF Begun
<1>3. Cardinality(Pieces(m)') = Cardinality(Pieces(m))
  BY DEF SameShown
<1>4. Pieces(m) = {} => Pieces(m)' = {}
  BY DEF SameShown
<1>5. ASSUME NEW i \in Pieces(m)'
      PROVE  chat'[i] = Message(m, AnswerKind(m)', Answer(m)'[Shown(m, i)'])
  <2>1. PICK k \in Pieces(m) : chat'[i] = chat[k] /\ Shown(m, i)' = Shown(m, k)
    BY DEF SameShown
  <2>2. chat[k] = Message(m, AnswerKind(m), Answer(m)[Shown(m, k)])
    BY DEF AnswerInvOf
  <2> QED BY <1>1, <2>1, <2>2
<1>6. Cardinality(Pieces(m)') <= Len(Answer(m)')
  BY <1>1, <1>3 DEF AnswerInvOf
<1>7. m \in completed' \ failed' => Cardinality(Pieces(m)') = Len(Answer(m)')
  BY <1>1, <1>3 DEF AnswerInvOf
<1>8. ASSUME NEW a \in Agents, cur'[a] = m, phase'[a] = "answer"
      PROVE  \/ left'[a] = SubSeq(Answer(m)', Cardinality(Pieces(m)') + 1, Len(Answer(m)'))
             \/ left'[a] = <<>> /\ m \in failed'
  <2>1. cur[a] = m /\ phase[a] = "answer" /\ left'[a] = left[a]
    BY <1>8
  <2>2. \/ left[a] = SubSeq(Answer(m), Cardinality(Pieces(m)) + 1, Len(Answer(m)))
        \/ left[a] = <<>> /\ m \in failed
    BY <2>1 DEF AnswerInvOf
  <2> QED BY <1>1, <1>3, <2>1, <2>2
<1>9. outcome'[m] = "text" => result'[m] \in Texts
  BY DEF AnswerInvOf
<1>10. ~Begun(m)' => Pieces(m)' = {}
  BY <1>2, <1>4 DEF AnswerInvOf
<1> QED BY <1>5, <1>6, <1>7, <1>8, <1>9, <1>10 DEF AnswerInvOf, Message

(* A message whose answer has not begun when the step is done.             *)
LEMMA NotBegun ==
  ASSUME NEW m, ~Begun(m)', Pieces(m)' = {}, outcome'[m] = "text" => result'[m] \in Texts
  PROVE  AnswerInvOf(m)'
<1>1. PICK S : Answer(m)' \in Seq(S)
  BY AnswerIs DEF Answer
<1>2. Len(Answer(m)') \in Nat
  BY <1>1, LenProperties
<1>3. Cardinality(Pieces(m)') = 0
  BY FS_EmptySet
<1>4. Cardinality(Pieces(m)') <= Len(Answer(m)')
  BY <1>2, <1>3
<1> QED BY <1>4 DEF AnswerInvOf, Begun, Message

(* The next text is shown, and is no longer to be sent.                    *)
LEMMA NextShown ==
  ASSUME NEW S, NEW answer \in Seq(S), NEW c \in Nat, NEW texts,
         texts = SubSeq(answer, c + 1, Len(answer)), texts # <<>>, c <= Len(answer)
  PROVE  /\ c + 1 <= Len(answer) /\ Len(answer) \in Nat
         /\ Head(texts) = answer[c + 1]
         /\ Tail(texts) = SubSeq(answer, c + 2, Len(answer))
<1>1. PICK l : l = Len(answer)
  OBVIOUS
<1>2. l \in Nat /\ c + 1 \in 1..(l + 1)
  BY <1>1, LenProperties
<1>3. texts = From(answer, c + 1)
  BY DEF From
<1>4. /\ texts \in Seq(S) /\ Len(texts) = l - (c + 1) + 1
      /\ \A i \in 1..(l - (c + 1) + 1) : texts[i] = answer[c + 1 + i - 1]
  BY <1>1, <1>2, <1>3, FromIs
<1>5. Len(texts) # 0 /\ Len(texts) \in Nat
  BY <1>4, EmptySeq, LenProperties
<1>6. c + 1 <= l
  BY <1>2, <1>4, <1>5
<1>7. Head(texts) = answer[c + 1]
  <2>1. Head(texts) = texts[1]
    BY <1>4, HeadTailProperties
  <2>2. 1 \in 1..(l - (c + 1) + 1) /\ c + 1 + 1 - 1 = c + 1
    BY <1>2, <1>6
  <2> QED BY <1>4, <2>1, <2>2
<1>8. Tail(texts) = SubSeq(answer, c + 2, Len(answer))
  <2>1. Tail(texts) = From(texts, 2)
    BY <1>4, TailIsSubSeq DEF From
  <2>2. 2 \in 1..(Len(From(answer, c + 1)) + 1)
    BY <1>2, <1>3, <1>4, <1>6
  <2>3. From(From(answer, c + 1), 2) = From(answer, c + 1 + 2 - 1)
    BY <1>1, <1>2, <2>2, FromFrom
  <2>4. c + 1 + 2 - 1 = c + 2
    OBVIOUS
  <2> QED BY <1>3, <2>1, <2>3, <2>4 DEF From
<1> QED BY <1>1, <1>2, <1>6, <1>7, <1>8

(* A piece of the answer to m, with the next text.                         *)
LEMMA PieceShown ==
  ASSUME \E S : chat \in Seq(S), NEW m, NEW kind \in {"chunk", "error"}, NEW text,
         chat' = Append(chat, Message(m, kind, text)), NEW c, c = Cardinality(Pieces(m))
  PROVE  /\ Cardinality(Pieces(m)') = c + 1
         /\ \A i \in Pieces(m)' :
              \/ i \in Pieces(m) /\ chat'[i] = chat[i] /\ Shown(m, i)' = Shown(m, i)
              \/ chat'[i] = Message(m, kind, text) /\ Shown(m, i)' = c + 1
<1>1. PICK l, e, P : l = Len(chat) /\ e = Message(m, kind, text) /\ P = Pieces(m)
  OBVIOUS
<1>2. /\ l \in Nat /\ DOMAIN chat = 1..l
      /\ DOMAIN chat' = 1..(l + 1)
      /\ \A i \in 1..l : chat'[i] = chat[i]
      /\ chat'[l + 1] = e
  BY <1>1, Appended
<1>3. e.msg = m /\ e.kind \in {"chunk", "error"}
  BY <1>1 DEF Message
<1>4. \A i \in 1..(l + 1) : i = l + 1 \/ i \in 1..l
  BY <1>2
<1>5. 1..l \subseteq 1..(l + 1) /\ l + 1 \in 1..(l + 1)
  BY <1>2
<1>6. Pieces(m)' = P \cup {l + 1}
  BY <1>1, <1>2, <1>3, <1>4, <1>5 DEF Pieces
<1>7. P \in SUBSET Nat /\ IsFiniteSet(P) /\ \A i \in P : i <= l
  BY <1>1, PiecesFinite
<1>8. /\ Cardinality(P \cup {l + 1}) = c + 1
      /\ Cardinality({j \in P \cup {l + 1} : j <= l + 1}) = c + 1
      /\ \A i \in P : {j \in P \cup {l + 1} : j <= i} = {j \in P : j <= i}
  BY <1>1, <1>2, <1>7, RankAdded
<1>9. ASSUME NEW i \in P PROVE chat'[i] = chat[i] /\ Shown(m, i)' = Shown(m, i)
  <2>1. Shown(m, i)' = Shown(m, i)
    BY <1>1, <1>6, <1>8 DEF Shown
  <2> QED BY <1>1, <1>2, <2>1 DEF Pieces
<1>10. Shown(m, l + 1)' = c + 1
  BY <1>6, <1>8 DEF Shown
<1> QED BY <1>1, <1>2, <1>6, <1>8, <1>9, <1>10

(* One step per action; for the message that a step is about, and for the  *)
(* others.                                                                 *)
LEMMA AnswerStep ==
  ASSUME BotTypeInv, OnePlace, AnswerInv, [BotNext]_botVars, NEW m \in Messages
  PROVE  AnswerInvOf(m)'
<1>0. /\ \A a \in Agents : cur[a] \in 0..asked /\ queue[a] \in Seq(1..asked)
      /\ \A a \in Agents : cur[a] = 0 <=> phase[a] = "idle"
      /\ cur \in [Agents -> {0} \cup Messages] /\ DOMAIN phase = Agents
      /\ DOMAIN outcome = Messages /\ DOMAIN result = Messages /\ DOMAIN left = Agents
      /\ asked \in 0..MaxMessages /\ MaxMessages \in Nat /\ completed \subseteq 1..asked
      /\ m \in Nat /\ m # 0
  BY TelegramAssumption DEF BotTypeInv, BotTypeOK, AnswerInv, Messages
<1>s. \E S : chat \in Seq(S)
  BY DEF BotTypeInv
<1>m. AnswerInvOf(m)
  BY DEF AnswerInv
<1>1. ASSUME SameShown(m), outcome'[m] = outcome[m], result'[m] = result[m], failed \subseteq failed',
             UNCHANGED <<cur, phase, left, completed>>
      PROVE  AnswerInvOf(m)'
  BY <1>1, <1>m, AnswerKept
<1>2. ASSUME SameShown(m), ~Begun(m) PROVE Pieces(m)' = {}
  <2>1. Pieces(m) = {}
    BY <1>2, <1>m DEF AnswerInvOf
  <2> QED BY <1>2, <2>1 DEF SameShown
<1>3. ASSUME NEW n, NEW kind, NEW text, Post(n, kind, text), n # m \/ kind \notin {"chunk", "error"}
      PROVE  SameShown(m) /\ failed \subseteq failed'
  BY <1>3, <1>s, Posting, SameWhenPosted, SameWhenUnchanged
<1>4. ASSUME m = asked + 1 PROVE ~Begun(m)
  BY <1>0, <1>4 DEF Begun
<1>5. CASE CancelCtx
  <2>1. SameShown(m)
    BY <1>5, SameWhenUnchanged DEF CancelCtx
  <2> QED BY <1>1, <1>5, <2>1 DEF CancelCtx, agentVars, msgVars
<1>6. ASSUME NEW prefix, HandleText(prefix) PROVE AnswerInvOf(m)'
  <2>1. /\ asked' = asked + 1 /\ UNCHANGED <<cur, phase, left, result, completed>>
        /\ \/ UNCHANGED <<outcome, chat, failed>>
           \/ /\ outcome' = [outcome EXCEPT ![asked + 1] = "refused"]
              /\ Post(asked', "refusal", <<>>)
    BY <1>6 DEF HandleText
  <2>2. SameShown(m) /\ failed \subseteq failed'
    BY <1>3, <2>1, SameWhenUnchanged
  <2>3. CASE outcome'[m] = outcome[m]
    BY <1>1, <2>1, <2>2, <2>3
  <2>4. CASE outcome'[m] # outcome[m]
    <3>1. m = asked + 1 /\ outcome'[m] = "refused"
      BY <1>0, <2>1, <2>4
    <3>2. ~Begun(m)'
      BY <1>4, <2>1, <3>1 DEF Begun
    <3>3. Pieces(m)' = {}
      BY <1>2, <1>4, <2>2, <3>1
    <3> QED BY <3>1, <3>2, <3>3, NotBegun
  <2> QED BY <2>3, <2>4
<1>7. CASE StopCommand
  <2>1. /\ asked' = asked + 1 /\ UNCHANGED <<cur, phase, left, result, completed>>
        /\ outcome' = [outcome EXCEPT ![asked + 1] = "stop"]
        /\ Post(asked', "farewell", <<>>)
    BY <1>7 DEF StopCommand, agentVars
  <2>2. SameShown(m) /\ failed \subseteq failed'
    BY <1>3, <2>1
  <2>3. CASE outcome'[m] = outcome[m]
    BY <1>1, <2>1, <2>2, <2>3
  <2>4. CASE outcome'[m] # outcome[m]
    <3>1. m = asked + 1 /\ outcome'[m] = "stop"
      BY <1>0, <2>1, <2>4
    <3>2. ~Begun(m)'
      BY <1>4, <2>1, <3>1 DEF Begun
    <3>3. Pieces(m)' = {}
      BY <1>2, <1>4, <2>2, <3>1
    <3> QED BY <3>1, <3>2, <3>3, NotBegun
  <2> QED BY <2>3, <2>4
<1>8. ASSUME NEW a \in Agents, Begin(a) PROVE AnswerInvOf(m)'
  <2>0. PICK n : n = Head(queue[a])
    OBVIOUS
  <2>1. /\ phase[a] = "idle" /\ queue[a] # <<>>
        /\ cur' = [cur EXCEPT ![a] = n] /\ UNCHANGED <<left, result, chat, failed, completed>>
        /\ \E p \in {"events", "complete"} : phase' = [phase EXCEPT ![a] = p]
        /\ outcome' = outcome \/ outcome' = [outcome EXCEPT ![n] = "error"]
    BY <1>8, <2>0 DEF Begin, Goto
  <2>2. /\ \A b \in Agents : b # a => cur'[b] = cur[b] /\ phase'[b] = phase[b]
        /\ phase'[a] # "answer"
    BY <1>0, <2>1
  <2>3. SameShown(m)
    BY <2>1, SameWhenUnchanged
  <2>4. CASE m # n
    <3>1. outcome'[m] = outcome[m]
      BY <1>0, <2>1, <2>4
    <3>2. \A b \in Agents : cur'[b] = m /\ phase'[b] = "answer" <=> cur[b] = m /\ phase[b] = "answer"
      BY <2>1, <2>2
    <3> QED BY <1>m, <2>1, <2>3, <3>1, <3>2, AnswerKept
  <2>5. CASE m = n
    <3>1. 1 \in DOMAIN queue[a] /\ queue[a][1] = m
      <4>1. PICK q : q = queue[a]
        OBVIOUS
      <4>2. q \in Seq(1..asked) /\ q # <<>>
        BY <1>0, <2>1, <4>1
      <4>3. Head(q) = q[1] /\ 1 \in DOMAIN q
        BY <4>2, HeadTailProperties, LenProperties, EmptySeq
      <4> QED BY <2>0, <2>5, <4>1, <4>3
    <3>2. m \notin completed /\ \A b \in Agents : cur[b] # m
      BY <3>1 DEF OnePlace
    <3>3. ~Begun(m) /\ ~Begun(m)'
      BY <2>1, <2>2, <3>2 DEF Begun
    <3>4. Pieces(m)' = {}
      BY <1>2, <2>3, <3>3
    <3>5. outcome'[m] = "text" => result'[m] \in Texts
      BY <1>0, <1>m, <2>1, <2>5 DEF AnswerInvOf
    <3> QED BY <3>3, <3>4, <3>5, NotBegun
  <2> QED BY <2>4, <2>5
<1>9. ASSUME NEW a \in Agents, OnEvent(a) PROVE AnswerInvOf(m)'
  <2>1. Post(cur[a], "status", <<>>) /\ UNCHANGED <<cur, phase, left, outcome, result, completed>>
    BY <1>9 DEF OnEvent, agentVars
  <2>2. SameShown(m) /\ failed \subseteq failed'
    BY <1>3, <2>1
  <2> QED BY <1>1, <2>1, <2>2
<1>10. ASSUME NEW a \in Agents, EventsEnd(a) PROVE AnswerInvOf(m)'
  <2>0. PICK n : n = cur[a]
    OBVIOUS
  <2>1. /\ phase[a] = "events" /\ phase' = [phase EXCEPT ![a] = "complete"]
        /\ UNCHANGED <<cur, left, chat, failed, completed>>
        /\ \/ /\ \E text \in Texts : result' = [result EXCEPT ![n] = text]
              /\ outcome' = [outcome EXCEPT ![n] = "text"]
           \/ /\ \E o \in {"error", "nothing"} : outcome' = [outcome EXCEPT ![n] = o]
              /\ result' = result
    BY <1>10, <2>0 DEF EventsEnd, Goto
  <2>2. /\ \A b \in Agents : b # a => phase'[b] = phase[b]
        /\ phase'[a] = "complete"
    BY <1>0, <2>1
  <2>3. SameShown(m)
    BY <2>1, SameWhenUnchanged
  <2>4. CASE m # n
    <3>1. outcome'[m] = outcome[m] /\ result'[m] = result[m]
      BY <1>0, <2>1, <2>4
    <3>2. \A b \in Agents : cur'[b] = m /\ phase'[b] = "answer" <=> cur[b] = m /\ phase[b] = "answer"
      BY <2>1, <2>2
    <3> QED BY <1>m, <2>1, <2>3, <3>1, <3>2, AnswerKept
  <2>5. CASE m = n
    <3>1. m \notin completed /\ \A b \in Agents : cur[b] = m => b = a
      BY <1>0, <2>0, <2>5 DEF OnePlace
    <3>2. ~Begun(m) /\ ~Begun(m)'
      BY <2>1, <2>2, <3>1 DEF Begun
    <3>3. Pieces(m)' = {}
      BY <1>2, <2>3, <3>2
    <3>4. outcome'[m] = "text" => result'[m] \in Texts
      BY <1>0, <2>1, <2>5
    <3> QED BY <3>2, <3>3, <3>4, NotBegun
  <2> QED BY <2>4, <2>5
<1>11. ASSUME NEW a \in Agents, DeleteStatus(a) PROVE AnswerInvOf(m)'
  <2>0. PICK n : n = cur[a]
    OBVIOUS
  <2>1. /\ phase[a] = "complete" /\ phase' = [phase EXCEPT ![a] = "answer"]
        /\ left' = [left EXCEPT ![a] = Answer(n)]
        /\ UNCHANGED <<cur, outcome, result, completed>> /\ failed \subseteq failed'
        /\ chat' = chat \/ \E k \in StatusesOf(n) : chat' = RemoveAt(chat, k)
    BY <1>11, <2>0 DEF DeleteStatus, Goto, HasStatus, Call, msgVars
  <2>2. /\ \A b \in Agents : b # a => phase'[b] = phase[b] /\ left'[b] = left[b]
        /\ phase'[a] = "answer" /\ left'[a] = Answer(n)
    BY <1>0, <2>1
  <2>3. SameShown(m)
    <3>1. CASE chat' = chat
      BY <3>1, SameWhenUnchanged
    <3>2. ASSUME NEW k \in StatusesOf(n), chat' = RemoveAt(chat, k) PROVE SameShown(m)
      BY <1>s, <3>2, SameWhenRemoved
    <3> QED BY <2>1, <3>1, <3>2
  <2>4. CASE m # n
    <3>1. \A b \in Agents : cur'[b] = m /\ phase'[b] = "answer" <=> cur[b] = m /\ phase[b] = "answer"
      BY <2>0, <2>1, <2>2, <2>4
    <3>2. \A b \in Agents : cur[b] = m => left'[b] = left[b]
      BY <2>0, <2>2, <2>4
    <3> QED BY <1>m, <2>1, <2>3, <3>1, <3>2, AnswerKept
  <2>5. CASE m = n
    <3>1. m \notin completed /\ \A b \in Agents : cur[b] = m => b = a
      BY <1>0, <2>0, <2>5 DEF OnePlace
    <3>2. ~Begun(m)
      BY <2>1, <3>1 DEF Begun
    <3>3. Pieces(m)' = {} /\ Cardinality(Pieces(m)') = 0
      BY <1>2, <2>3, <3>2, FS_EmptySet
    <3>4. Answer(m)' = Answer(m) /\ outcome'[m] = outcome[m] /\ result'[m] = result[m]
      BY <2>1 DEF Answer
    <3>5. PICK S : Answer(m) \in Seq(S)
      BY <1>m, AnswerIs DEF Answer, AnswerInvOf
    <3>6. Len(Answer(m)) \in Nat /\ Answer(m) = SubSeq(Answer(m), 1, Len(Answer(m)))
      BY <3>5, LenProperties, SubSeqFull
    <3>7. Cardinality(Pieces(m)') <= Len(Answer(m)')
      BY <3>3, <3>4, <3>6
    <3>8. left'[a] = SubSeq(Answer(m)', Cardinality(Pieces(m)') + 1, Len(Answer(m)'))
      <4>1. 0 + 1 = 1
        OBVIOUS
      <4> QED BY <2>2, <2>5, <3>3, <3>4, <3>6, <4>1
    <3>9. \A b \in Agents : cur'[b] = m => b = a
      BY <2>1, <3>1
    <3>10. m \notin completed' /\ (outcome'[m] = "text" => result'[m] \in Texts)
      BY <1>m, <2>1, <3>1 DEF AnswerInvOf
    <3> QED BY <3>3, <3>7, <3>8, <3>9, <3>10 DEF AnswerInvOf, Message
  <2> QED BY <2>4, <2>5
<1>12. ASSUME NEW a \in Agents, SendChunk(a) PROVE AnswerInvOf(m)'
  <2>0. PICK n, kind, text : n = cur[a] /\ kind = AnswerKind(cur[a]) /\ text = Head(left[a])
    OBVIOUS
  <2>1. /\ phase[a] = "answer" /\ left[a] # <<>> /\ Post(n, kind, text)
        /\ left' = [left EXCEPT ![a] = IF Posted THEN Tail(@) ELSE <<>>]
        /\ UNCHANGED <<cur, phase, outcome, result, completed>>
    BY <1>12, <2>0 DEF SendChunk, AfterFailure, msgVars
  <2>2. /\ \A b \in Agents : b # a => left'[b] = left[b]
        /\ left'[a] = IF Posted THEN Tail(left[a]) ELSE <<>>
    BY <1>0, <2>1
  <2>3. CASE m # n
    <3>1. SameShown(m) /\ failed \subseteq failed'
      BY <1>3, <2>1, <2>3
    <3>2. \A b \in Agents : cur[b] = m => left'[b] = left[b]
      BY <2>0, <2>2, <2>3
    <3> QED BY <1>m, <2>1, <3>1, <3>2, AnswerKept
  <2>4. CASE m = n
    <3>1. /\ m \notin completed' /\ \A b \in Agents : cur'[b] = m => b = a
          /\ cur'[a] = m /\ phase'[a] = "answer"
          /\ (outcome'[m] = "text" => result'[m] \in Texts)
      BY <1>0, <1>m, <2>0, <2>1, <2>4 DEF OnePlace, AnswerInvOf
    <3>2. Begun(m)'
      BY <3>1 DEF Begun
    <3>3. Answer(m)' = Answer(m) /\ AnswerKind(m)' = AnswerKind(m)
      BY <2>1 DEF Answer, AnswerKind
    <3>4. PICK c : c = Cardinality(Pieces(m))
      OBVIOUS
    <3>5. c \in Nat /\ c <= Len(Answer(m))
      BY <1>s, <1>m, <3>4, PiecesFinite DEF AnswerInvOf
    <3>6. CASE chat' = Append(chat, Message(m, kind, text)) /\ Posted
      <4>1. left[a] = SubSeq(Answer(m), c + 1, Len(Answer(m)))
        BY <1>m, <2>0, <2>1, <2>4, <3>4 DEF AnswerInvOf
      <4>2. PICK S : Answer(m) \in Seq(S)
        BY <1>m, AnswerIs DEF Answer, AnswerInvOf
      <4>3. /\ c + 1 <= Len(Answer(m))
            /\ text = Answer(m)[c + 1]
            /\ Tail(left[a]) = SubSeq(Answer(m), c + 2, Len(Answer(m)))
        BY <2>0, <2>1, <3>5, <4>1, <4>2, NextShown
      <4>4. kind = AnswerKind(m) /\ kind \in {"chunk", "error"}
        BY <2>0, <2>4 DEF AnswerKind
      <4>5. /\ Cardinality(Pieces(m)') = c + 1
            /\ \A i \in Pieces(m)' :
                 \/ i \in Pieces(m) /\ chat'[i] = chat[i] /\ Shown(m, i)' = Shown(m, i)
                 \/ chat'[i] = Message(m, kind, text) /\ Shown(m, i)' = c + 1
        BY <1>s, <3>4, <3>6, <4>4, PieceShown, ZenonT(60)
      <4>6. ASSUME NEW i \in Pieces(m)'
            PROVE  chat'[i] = Message(m, AnswerKind(m)', Answer(m)'[Shown(m, i)'])
        <5>1. CASE i \in Pieces(m) /\ chat'[i] = chat[i] /\ Shown(m, i)' = Shown(m, i)
          <6>1. chat[i] = Message(m, AnswerKind(m), Answer(m)[Shown(m, i)])
            BY <1>m, <5>1 DEF AnswerInvOf
          <6> QED BY <3>3, <5>1, <6>1
        <5>2. CASE chat'[i] = Message(m, kind, text) /\ Shown(m, i)' = c + 1
          BY <3>3, <4>3, <4>4, <5>2
        <5> QED BY <4>5, <5>1, <5>2
      <4>7. Cardinality(Pieces(m)') <= Len(Answer(m)')
        BY <3>3, <4>3, <4>5
      <4>8. left'[a] = SubSeq(Answer(m)', Cardinality(Pieces(m)') + 1, Len(Answer(m)'))
        <5>1. c + 1 + 1 = c + 2
          BY <3>5
        <5> QED BY <2>2, <3>3, <3>6, <4>3, <4>5, <5>1
      <4> QED BY <3>1, <3>2, <4>6, <4>7, <4>8 DEF AnswerInvOf, Message
    <3>7. CASE chat' = chat /\ failed' = failed \cup {m} /\ ~Posted
      <4>1. Pieces(m)' = Pieces(m) /\ \A i : Shown(m, i)' = Shown(m, i)
        <5>1. Pieces(m)' = Pieces(m)
          BY <3>7 DEF Pieces
        <5> QED BY <5>1 DEF Shown
      <4>2. \A i \in Pieces(m)' : chat'[i] = Message(m, AnswerKind(m)', Answer(m)'[Shown(m, i)'])
        BY <1>m, <3>3, <3>7, <4>1 DEF AnswerInvOf
      <4>3. Cardinality(Pieces(m)') <= Len(Answer(m)')
        BY <3>3, <3>4, <3>5, <4>1
      <4>4. left'[a] = <<>> /\ m \in failed'
        BY <2>2, <3>7
      <4> QED BY <3>1, <3>2, <4>2, <4>3, <4>4 DEF AnswerInvOf, Message
    <3> QED BY <2>1, <2>4, <3>6, <3>7, Posting
  <2> QED BY <2>3, <2>4
<1>13. ASSUME NEW a \in Agents, Complete(a) PROVE AnswerInvOf(m)'
  <2>0. PICK n : n = cur[a]
    OBVIOUS
  <2>1. /\ phase[a] = "answer" /\ left[a] = <<>>
        /\ completed' = completed \cup {n}
        /\ cur' = [cur EXCEPT ![a] = 0] /\ phase' = [phase EXCEPT ![a] = "idle"]
        /\ UNCHANGED <<left, outcome, result, chat, failed>>
    BY <1>13, <2>0 DEF Complete, Goto, msgVars
  <2>2. /\ \A b \in Agents : b # a => cur'[b] = cur[b] /\ phase'[b] = phase[b]
        /\ cur'[a] = 0 /\ phase'[a] = "idle"
    BY <1>0, <2>1
  <2>3. SameShown(m)
    BY <2>1, SameWhenUnchanged
  <2>4. CASE m # n
    <3>1. \A b \in Agents : cur'[b] = m /\ phase'[b] = "answer" <=> cur[b] = m /\ phase[b] = "answer"
      BY <2>0, <2>2, <2>4
    <3>2. m \in completed <=> m \in completed'
      BY <2>1, <2>4
    <3> QED BY <1>m, <2>1, <2>3, <3>1, <3>2, AnswerKept
  <2>5. CASE m = n
    <3>1. Answer(m)' = Answer(m) /\ AnswerKind(m)' = AnswerKind(m) /\ Pieces(m)' = Pieces(m)
          /\ \A i : Shown(m, i)' = Shown(m, i)
      <4>1. Pieces(m)' = Pieces(m)
        BY <2>1 DEF Pieces
      <4> QED BY <2>1, <4>1 DEF Answer, AnswerKind, Shown
    <3>2. PICK S : Answer(m) \in Seq(S)
      BY <1>m, AnswerIs DEF Answer, AnswerInvOf
    <3>3. PICK c, l : c = Cardinality(Pieces(m)) /\ l = Len(Answer(m))
      OBVIOUS
    <3>4. c \in Nat /\ l \in Nat /\ c <= l
      BY <1>s, <1>m, <3>2, <3>3, PiecesFinite, LenProperties DEF AnswerInvOf
    <3>5. m \notin failed => c = l
      <4> SUFFICES ASSUME m \notin failed, c # l PROVE FALSE
        OBVIOUS
      <4>1. <<>> = From(Answer(m), c + 1)
        BY <1>m, <2>0, <2>1, <2>5, <3>3 DEF AnswerInvOf, From
      <4>2. c + 1 \in 1..(l + 1)
        BY <3>4
      <4>3. Len(From(Answer(m), c + 1)) = l - (c + 1) + 1
        BY <3>2, <3>3, <4>2, FromIs
      <4>4. Len(<<>>) = 0
        OBVIOUS
      <4> QED BY <3>4, <4>1, <4>3, <4>4
    <3>6. /\ m \in completed' /\ \A b \in Agents : cur'[b] # m
          /\ (outcome'[m] = "text" => result'[m] \in Texts)
      <4>1. \A b \in Agents : cur[b] = m => b = a
        BY <1>0, <2>0, <2>5 DEF OnePlace
      <4> QED BY <1>0, <1>m, <2>1, <2>2, <2>5, <4>1 DEF AnswerInvOf
    <3>7. Begun(m)'
      BY <3>6 DEF Begun
    <3>8. \A i \in Pieces(m)' : chat'[i] = Message(m, AnswerKind(m)', Answer(m)'[Shown(m, i)'])
      BY <1>m, <2>1, <3>1 DEF AnswerInvOf
    <3>9. /\ Cardinality(Pieces(m)') <= Len(Answer(m)')
          /\ m \notin failed' => Cardinality(Pieces(m)') = Len(Answer(m)')
      BY <2>1, <3>1, <3>3, <3>4, <3>5
    <3> QED BY <3>6, <3>7, <3>8, <3>9 DEF AnswerInvOf, Message
  <2> QED BY <2>4, <2>5
<1>14. CASE UNCHANGED botVars
  <2>1. SameShown(m)
    BY <1>14, SameWhenUnchanged DEF botVars
  <2> QED BY <1>1, <1>14, <2>1 DEF botVars, agentVars, msgVars
<1> QED BY <1>5, <1>6, <1>7, <1>8, <1>9, <1>10, <1>11, <1>12, <1>13, <1>14 DEF BotNext, UpdateLoop

LEMMA AnswerDomains ==
  DOMAIN result = Messages /\ DOMAIN left = Agents /\ [BotNext]_botVars
    => (DOMAIN result = Messages /\ DOMAIN left = Agents)'
<1> SUFFICES ASSUME DOMAIN result = Messages, DOMAIN left = Agents, [BotNext]_botVars
             PROVE  DOMAIN result' = DOMAIN result /\ DOMAIN left' = DOMAIN left
  OBVIOUS
<1>1. \A f, x, y : DOMAIN [f EXCEPT ![x] = y] = DOMAIN f
  OBVIOUS
<1>2. \/ left' = left
      \/ \E a, t : left' = [left EXCEPT ![a] = t]
  <2>1. ASSUME NEW a \in Agents, SendChunk(a) PROVE \E t : left' = [left EXCEPT ![a] = t]
    BY <2>1 DEF SendChunk
  <2>2. ASSUME NEW a \in Agents, DeleteStatus(a) PROVE \E t : left' = [left EXCEPT ![a] = t]
    BY <2>2 DEF DeleteStatus
  <2>3. ASSUME NEW a \in Agents, Begin(a) \/ OnEvent(a) \/ EventsEnd(a) \/ Complete(a)
        PROVE  left' = left
    BY <2>3 DEF Begin, OnEvent, EventsEnd, Complete, agentVars
  <2>4. ASSUME CancelCtx \/ UpdateLoop \/ UNCHANGED botVars PROVE left' = left
    BY <2>4 DEF UpdateLoop, CancelCtx, HandleText, StopCommand, botVars, agentVars
  <2> QED BY <2>1, <2>2, <2>3, <2>4 DEF BotNext
<1>3. \/ result' = result
      \/ \E a, t : result' = [result EXCEPT ![a] = t]
  <2>1. ASSUME NEW a \in Agents, EventsEnd(a)
        PROVE  result' = result \/ \E m, t : result' = [result EXCEPT ![m] = t]
    BY <2>1 DEF EventsEnd
  <2>2. ASSUME NEW a \in Agents,
               Begin(a) \/ OnEvent(a) \/ DeleteStatus(a) \/ SendChunk(a) \/ Complete(a)
        PROVE  result' = result
    BY <2>2 DEF Begin, OnEvent, DeleteStatus, SendChunk, Complete, msgVars
  <2>3. ASSUME CancelCtx \/ UpdateLoop \/ UNCHANGED botVars PROVE result' = result
    BY <2>3 DEF UpdateLoop, CancelCtx, HandleText, StopCommand, botVars, msgVars
  <2> QED BY <2>1, <2>2, <2>3 DEF BotNext
<1> QED BY <1>1, <1>2, <1>3

(* However the answers of several agents mix in the chat, each is cut      *)
(* without loss, and the chat shows the first of its pieces, in order, and *)
(* all once OnComplete has returned, unless a call of the API failed for   *)
(* it (chunker.go:8-10, handler.go:41-79).                                 *)
THEOREM AnswersWhole == BotSpec => []AnswerWhole
<1>1. BotInit => AnswerInv
  <2> SUFFICES ASSUME BotInit PROVE AnswerInv
    OBVIOUS
  <2>1. /\ chat = <<>> /\ completed = {} /\ \A a \in Agents : phase[a] = "idle"
        /\ DOMAIN result = Messages /\ DOMAIN left = Agents
        /\ \A m \in Messages : outcome[m] = "none"
    BY DEF BotInit
  <2>2. ASSUME NEW m \in Messages PROVE AnswerInvOf(m)
    <3>1. Pieces(m) = {} /\ Cardinality(Pieces(m)) = 0
      BY <2>1, FS_EmptySet DEF Pieces
    <3>2. Answer(m) = <<>> /\ Len(<<>>) = 0 /\ 0 <= 0
      BY <2>1, <2>2 DEF Answer
    <3>3. ~Begun(m) /\ m \notin completed /\ outcome[m] # "text"
      BY <2>1, <2>2 DEF Begun
    <3> QED BY <2>1, <3>1, <3>2, <3>3 DEF AnswerInvOf, Message
  <2> QED BY <2>1, <2>2 DEF AnswerInv
<1>2. BotTypeInv /\ OnePlace /\ AnswerInv /\ [BotNext]_botVars => AnswerInv'
  <2> SUFFICES ASSUME BotTypeInv, OnePlace, AnswerInv, [BotNext]_botVars PROVE AnswerInv'
    OBVIOUS
  <2>1. \A m \in Messages : AnswerInvOf(m)'
    BY AnswerStep
  <2>2. (DOMAIN result = Messages /\ DOMAIN left = Agents)'
    BY AnswerDomains DEF AnswerInv
  <2> QED BY <2>1, <2>2 DEF AnswerInv, Messages
<1>3. BotTypeInv /\ AnswerInv => AnswerWhole
  <2> SUFFICES ASSUME BotTypeInv, AnswerInv, NEW m \in 1..asked
               PROVE  /\ outcome[m] = "text" => Cuts(Answer(m), result[m])
                      /\ outcome[m] = "error" => Len(Answer(m)) = 1
                      /\ AnswerInvOf(m)
    BY DEF AnswerWhole, AnswerInvOf
  <2>1. AnswerInvOf(m)
    BY TelegramAssumption DEF BotTypeInv, BotTypeOK, Messages, AnswerInv
  <2>2. ASSUME outcome[m] = "text" PROVE Cuts(Answer(m), result[m])
    <3>1. Answer(m) = ChunkText[result[m]] /\ result[m] \in Remainders
      BY <2>1, <2>2, RemaindersAre DEF Answer, AnswerInvOf
    <3> QED BY <3>1, ChunkTextCuts
  <2>3. ASSUME outcome[m] = "error" PROVE Len(Answer(m)) = 1
    <3>1. Answer(m) = << <<>> >>
      BY <2>3 DEF Answer
    <3>2. \A e : Len(<<e>>) = 1
      OBVIOUS
    <3> QED BY <3>1, <3>2
  <2> QED BY <2>1, <2>2, <2>3
<1>4. BotInit => OnePlace
  <2> SUFFICES ASSUME BotInit PROVE OnePlace
    OBVIOUS
  <2>1. completed = {} /\ \A a \in Agents : cur[a] = 0 /\ queue[a] = <<>>
    BY DEF BotInit
  <2> QED BY <2>1 DEF OnePlace
<1> QED BY <1>1, <1>2, <1>3, <1>4, BotTypeInvariant, PlaceStep, PTL DEF BotSpec
=============================================================================
