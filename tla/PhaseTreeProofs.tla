--------------------------- MODULE PhaseTreeProofs ---------------------------
(***************************************************************************)
(* Proofs about the phases of a project, for any number of phases,         *)
(* commands, descriptions and milestones.                                  *)
(***************************************************************************)
EXTENDS PhaseTree, NaturalLemmas, SequenceTheorems

\* A header or a directory has natural numbers, the current milestone ends in
\* ROADMAP.md, and a directory is known by the number it got when it was made.
RoadmapTyped ==
  /\ roadmap \in Seq(Header)
  /\ later \in BOOLEAN /\ cut \in Nat
  /\ later => cut <= Len(roadmap)
DiskTyped ==
  /\ made \in Nat
  /\ disk \subseteq Dir
  /\ \A x \in disk : x.id <= made
  /\ \A x, y \in disk : x.id = y.id => x = y
  /\ \E top \in Nat : \A x \in disk : x.d <= top

\* What a command under way remembers.  A removal that was not forced has
\* seen no SUMMARY, and the directories it is going to rename lie behind the
\* removed phase.
JobTyped ==
  /\ job.op \in {"add", "insert"} => job.h \in Header
  /\ job.op = "insert" => job.at \in 1..(Len(roadmap) + 1)
  /\ job.op = "delete" =>
       /\ job = [op |-> "delete", n |-> job.n, d |-> job.d, form |-> job.form,
                 force |-> job.force, ids |-> job.ids]
       /\ job.n \in Nat /\ job.d \in Nat
       /\ ~job.force => \A x \in disk : x.id \in job.ids /\ x.run => x.id \in raced
  /\ job.op = "rename" =>
       /\ job = [op |-> "rename", n |-> job.n, d |-> job.d, form |-> job.form, ids |-> job.ids]
       /\ job.n \in Nat /\ job.d \in Nat
       /\ \A x \in disk : x.id \in job.ids => IF job.d > 0 THEN x.d > job.d ELSE x.n > job.n
  /\ job.op = "archive" =>
       job = [op |-> "archive", to |-> job.to, ids |-> job.ids] /\ job.to \in Versions

WorkKept ==
  /\ archive = [v \in Versions |-> archive[v]]
  /\ \A i \in executed : i \in Nat /\ i <= made
  /\ \A x \in disk : x.id \in executed => x.run
  /\ ExecutedWorkKept

TreeInv == RoadmapTyped /\ DiskTyped /\ JobTyped /\ WorkKept

-----------------------------------------------------------------------------
(* Sequences and numbers. *)

\* The element is put in at its place, and the others keep theirs.
LEMMA InsertAtElements ==
  ASSUME NEW S, NEW s \in Seq(S), NEW e \in S, NEW i \in 1..(Len(s) + 1)
  PROVE  /\ InsertAt(s, i, e) \in Seq(S)
         /\ Len(InsertAt(s, i, e)) = Len(s) + 1
         /\ \A j \in 1..(Len(s) + 1) :
              InsertAt(s, i, e)[j] = IF j < i THEN s[j] ELSE IF j = i THEN e ELSE s[j - 1]
<1> DEFINE a == SubSeq(s, 1, i - 1)
           b == SubSeq(s, i, Len(s))
<1>0. Len(s) \in Nat /\ i \in Nat /\ \A j \in 1..Len(s) : s[j] \in S
  BY LenProperties, ElementOfSeq
<1>1. a \in Seq(S) /\ Len(a) = i - 1 /\ \A j \in 1..(i - 1) : a[j] = s[j]
  <2>1. \A j \in 1..(i - 1) : s[j] \in S
    BY <1>0
  <2>2. /\ SubSeq(s, 1, i - 1) \in Seq(S)
        /\ Len(SubSeq(s, 1, i - 1)) = IF 1 <= i - 1 THEN (i - 1) - 1 + 1 ELSE 0
        /\ \A j \in 1..((i - 1) - 1 + 1) : SubSeq(s, 1, i - 1)[j] = s[1 + j - 1]
    BY <1>0, <2>1, SubSeqProperties
  <2> QED
    BY <1>0, <2>2
<1>2. b \in Seq(S) /\ Len(b) = Len(s) - i + 1 /\ \A j \in 1..(Len(s) - i + 1) : b[j] = s[i + j - 1]
  <2>1. \A j \in i..Len(s) : s[j] \in S
    BY <1>0
  <2>2. /\ SubSeq(s, i, Len(s)) \in Seq(S)
        /\ Len(SubSeq(s, i, Len(s))) = IF i <= Len(s) THEN Len(s) - i + 1 ELSE 0
        /\ \A j \in 1..(Len(s) - i + 1) : SubSeq(s, i, Len(s))[j] = s[i + j - 1]
    BY <1>0, <2>1, SubSeqProperties
  <2> QED
    BY <1>0, <2>2
<1>3. <<e>> \in Seq(S) /\ Len(<<e>>) = 1 /\ <<e>>[1] = e
  OBVIOUS
<1> HIDE DEF a, b
<1> DEFINE c == a \o <<e>>
<1>4. /\ c \in Seq(S) /\ Len(c) = Len(a) + Len(<<e>>)
      /\ \A j \in 1..(Len(a) + Len(<<e>>)) : c[j] = IF j <= Len(a) THEN a[j] ELSE <<e>>[j - Len(a)]
  BY <1>1, <1>3, ConcatProperties
<1> HIDE DEF c
<1>5. Len(c) = i /\ \A j \in 1..i : (j < i => c[j] = s[j]) /\ (j = i => c[j] = e)
  <2>1. Len(c) = i
    BY <1>0, <1>1, <1>3, <1>4
  <2> SUFFICES ASSUME NEW j \in 1..i PROVE (j < i => c[j] = s[j]) /\ (j = i => c[j] = e)
    BY <2>1
  <2>2. j \in 1..(Len(a) + Len(<<e>>)) /\ Len(a) = i - 1
    BY <1>0, <1>1, <1>3
  <2>3. j < i => c[j] = s[j]
    BY <1>0, <1>1, <1>4, <2>2
  <2>4. j = i => j - Len(a) = 1 /\ ~(j <= Len(a))
    BY <1>0, <1>1
  <2>5. j = i => c[j] = <<e>>[1]
    BY <1>4, <2>2, <2>4
  <2> QED
    BY <1>3, <2>3, <2>5
<1> DEFINE r == c \o b
<1>6. /\ r \in Seq(S) /\ Len(r) = Len(c) + Len(b)
      /\ \A j \in 1..(Len(c) + Len(b)) : r[j] = IF j <= Len(c) THEN c[j] ELSE b[j - Len(c)]
  <2>1. c \in Seq(S) /\ b \in Seq(S)
    BY <1>2, <1>4
  <2> QED
    BY <2>1, ConcatProperties
<1>7. InsertAt(s, i, e) = r
  BY DEF InsertAt, a, b, c
<1> HIDE DEF r
<1>8. Len(r) = Len(s) + 1
  BY <1>0, <1>2, <1>5, <1>6
<1>9. ASSUME NEW j \in 1..(Len(s) + 1)
      PROVE  r[j] = IF j < i THEN s[j] ELSE IF j = i THEN e ELSE s[j - 1]
  <2>0. j \in 1..(Len(c) + Len(b))
    BY <1>0, <1>2, <1>5
  <2>1. CASE j <= i
    <3>1. r[j] = c[j] /\ j \in 1..i
      BY <1>0, <1>5, <1>6, <2>0, <2>1
    <3> QED
      BY <1>0, <1>5, <2>1, <3>1
  <2>2. CASE j > i
    <3>1. j - i \in 1..(Len(s) - i + 1) /\ i + (j - i) - 1 = j - 1
      BY <1>0, <2>2
    <3>2. b[j - i] = s[j - 1]
      BY <1>2, <3>1
    <3>3. r[j] = b[j - i]
      BY <1>0, <1>5, <1>6, <2>0, <2>2
    <3> QED
      BY <1>0, <2>2, <3>2, <3>3
  <2> QED
    BY <1>0, <2>1, <2>2
<1> QED
  BY <1>6, <1>7, <1>8, <1>9

\* The element at a place is taken out, and the others keep their order.
LEMMA RemoveAtElements ==
  ASSUME NEW S, NEW s \in Seq(S), NEW i \in 1..Len(s)
  PROVE  /\ RemoveAt(s, i) \in Seq(S)
         /\ Len(RemoveAt(s, i)) = Len(s) - 1
         /\ \A j \in 1..(Len(s) - 1) : RemoveAt(s, i)[j] = IF j < i THEN s[j] ELSE s[j + 1]
<1> DEFINE a == SubSeq(s, 1, i - 1)
           b == SubSeq(s, i + 1, Len(s))
<1>0. Len(s) \in Nat /\ i \in Nat /\ \A j \in 1..Len(s) : s[j] \in S
  BY LenProperties, ElementOfSeq
<1>1. a \in Seq(S) /\ Len(a) = i - 1 /\ \A j \in 1..(i - 1) : a[j] = s[j]
  <2>1. \A j \in 1..(i - 1) : s[j] \in S
    BY <1>0
  <2>2. /\ SubSeq(s, 1, i - 1) \in Seq(S)
        /\ Len(SubSeq(s, 1, i - 1)) = IF 1 <= i - 1 THEN (i - 1) - 1 + 1 ELSE 0
        /\ \A j \in 1..((i - 1) - 1 + 1) : SubSeq(s, 1, i - 1)[j] = s[1 + j - 1]
    BY <1>0, <2>1, SubSeqProperties
  <2> QED
    BY <1>0, <2>2
<1>2. b \in Seq(S) /\ Len(b) = Len(s) - i /\ \A j \in 1..(Len(s) - i) : b[j] = s[i + j]
  <2>1. \A j \in (i + 1)..Len(s) : s[j] \in S
    BY <1>0
  <2>2. /\ SubSeq(s, i + 1, Len(s)) \in Seq(S)
        /\ Len(SubSeq(s, i + 1, Len(s))) = IF i + 1 <= Len(s) THEN Len(s) - (i + 1) + 1 ELSE 0
        /\ \A j \in 1..(Len(s) - (i + 1) + 1) : SubSeq(s, i + 1, Len(s))[j] = s[i + 1 + j - 1]
    BY <1>0, <2>1, SubSeqProperties
  <2> QED
    BY <1>0, <2>2
<1> HIDE DEF a, b
<1> DEFINE r == a \o b
<1>3. /\ r \in Seq(S) /\ Len(r) = Len(a) + Len(b)
      /\ \A j \in 1..(Len(a) + Len(b)) : r[j] = IF j <= Len(a) THEN a[j] ELSE b[j - Len(a)]
  BY <1>1, <1>2, ConcatProperties
<1>4. RemoveAt(s, i) = r
  BY DEF RemoveAt, a, b
<1> HIDE DEF r
<1>5. Len(r) = Len(s) - 1
  BY <1>0, <1>1, <1>2, <1>3
<1>6. ASSUME NEW j \in 1..(Len(s) - 1) PROVE r[j] = IF j < i THEN s[j] ELSE s[j + 1]
  <2>0. j \in 1..(Len(a) + Len(b))
    BY <1>0, <1>1, <1>2
  <2>1. CASE j < i
    BY <1>0, <1>1, <1>3, <2>0, <2>1
  <2>2. CASE ~(j < i)
    <3>1. j - (i - 1) \in 1..(Len(s) - i) /\ i + (j - (i - 1)) = j + 1
      BY <1>0, <2>2
    <3>2. b[j - (i - 1)] = s[j + 1]
      BY <1>2, <3>1
    <3>3. ~(j <= Len(a)) /\ Len(a) = i - 1
      BY <1>0, <1>1, <2>2
    <3> QED
      BY <1>3, <2>0, <2>2, <3>2, <3>3
  <2> QED
    BY <2>1, <2>2
<1> QED
  BY <1>3, <1>4, <1>5, <1>6

\* A function on the places of a sequence is a sequence.
LEMMA SameLength ==
  ASSUME NEW S, NEW N \in Nat, NEW f \in [1..N -> S]
  PROVE  f \in Seq(S) /\ Len(f) = N
<1>1. f \in Seq(S)
  BY SeqDef
<1> QED
  BY <1>1, LenProperties

\* The greatest of a bounded set, and the least of any, are what they say.
LEMMA MaxIsGreatest ==
  ASSUME NEW S, S \subseteq Nat, S # {}, NEW K \in Nat, \A y \in S : y <= K
  PROVE  Max(S) \in S /\ \A y \in S : y <= Max(S)
<1>1. \E x \in S : \A y \in S : x >= y
  BY GreatestNatural
<1>2. Max(S) \in S /\ \A y \in S : Max(S) >= y
  BY <1>1 DEF Max
<1> QED
  BY <1>2

LEMMA MinIsLeast ==
  ASSUME NEW S, S \subseteq Nat, S # {}
  PROVE  Min(S) \in S /\ \A y \in S : Min(S) <= y
<1>1. \E x \in S : \A y \in S : x <= y
  BY LeastNatural
<1> QED
  BY <1>1 DEF Min

\* The headers of ROADMAP.md have a type.
LEMMA HeadersTyped ==
  ASSUME RoadmapTyped
  PROVE  /\ Len(roadmap) \in Nat /\ DOMAIN roadmap = 1..Len(roadmap)
         /\ \A i \in 1..Len(roadmap) : /\ roadmap[i] \in Header
                                       /\ roadmap[i].n \in Nat /\ roadmap[i].d \in Nat
         /\ roadmap \in [1..Len(roadmap) -> Header]
<1>1. roadmap \in Seq(Header)
  BY DEF RoadmapTyped
<1>2. /\ Len(roadmap) \in Nat /\ DOMAIN roadmap = 1..Len(roadmap)
      /\ roadmap \in [1..Len(roadmap) -> Header]
  BY <1>1, LenProperties
<1>3. \A i \in 1..Len(roadmap) : roadmap[i] \in Header
  BY <1>2
<1>4. \A h \in Header : h.n \in Nat /\ h.d \in Nat
  BY DEF Header
<1> QED
  BY <1>2, <1>3, <1>4

\* The headers of the current milestone are the first ones.
Here   == IF later THEN cut ELSE Len(roadmap)
Places == 1..Here

LEMMA CurrentPlaces ==
  ASSUME RoadmapTyped
  PROVE  /\ Current = Places /\ Here \in Nat /\ Here <= Len(roadmap) /\ Len(roadmap) \in Nat
         /\ \A i \in Places : /\ i \in Nat /\ i \in 1..Len(roadmap) /\ roadmap[i] \in Header
                             /\ roadmap[i].n \in Nat /\ roadmap[i].d \in Nat
<1>1. /\ Len(roadmap) \in Nat /\ DOMAIN roadmap = 1..Len(roadmap)
      /\ \A i \in 1..Len(roadmap) : /\ roadmap[i] \in Header
                                    /\ roadmap[i].n \in Nat /\ roadmap[i].d \in Nat
  BY HeadersTyped
<1>2. Here \in Nat /\ Here <= Len(roadmap)
  BY <1>1 DEF Here, RoadmapTyped
<1>3. \A i \in Places : i \in Nat /\ i \in 1..Len(roadmap)
  BY <1>1, <1>2 DEF Places
<1>4. Current = Places
  BY <1>1 DEF Current, Places, Here
<1> QED
  BY <1>1, <1>2, <1>3, <1>4

\* `phase add` takes a number no header of the milestone has.
LEMMA NextIntegerIsNew ==
  ASSUME RoadmapTyped
  PROVE  /\ NextInteger \in Nat /\ NextInteger > 0
         /\ \A i \in Places : roadmap[i].n < NextInteger
         /\ NextInteger = 1 \/ \E i \in Places : NextInteger = roadmap[i].n + 1
<1>1. Here \in Nat /\ Current = Places /\ Places = 1..Here
      /\ \A i \in Places : roadmap[i].n \in Nat
  BY CurrentPlaces DEF Places
<1> DEFINE N == {h.n : h \in extractCurrentMilestone} \cup {0}
           f == [i \in 1..Here |-> roadmap[i].n]
<1>2. PICK K \in Nat : \A i \in 1..Here : f[i] <= K
  <2>1. \A i \in 1..Here : f[i] \in Nat
    BY <1>1
  <2> HIDE DEF f
  <2> QED
    BY <1>1, <2>1, BoundedValues
<1>3. N \subseteq Nat /\ N # {} /\ \A y \in N : y <= K
  BY <1>1, <1>2 DEF extractCurrentMilestone
<1>4. Max(N) \in N /\ \A y \in N : y <= Max(N)
  <2> HIDE DEF N
  <2> QED
    BY <1>3, MaxIsGreatest
<1>5. NextInteger = 1 + Max(N)
  BY DEF NextInteger
<1>6. \A i \in Places : roadmap[i].n \in N
  BY <1>1 DEF extractCurrentMilestone
<1>7. \A k \in N : k = 0 \/ \E i \in Places : k = roadmap[i].n
  BY <1>1 DEF extractCurrentMilestone
<1> HIDE DEF N
<1>8. Max(N) \in Nat
  BY <1>3, <1>4
<1> QED
  BY <1>1, <1>3, <1>4, <1>5, <1>6, <1>7, <1>8

\* `phase insert` takes a decimal no directory of this phase has.
LEMMA NextDecimalIsNew ==
  ASSUME DiskTyped, NEW n
  PROVE  /\ NextDecimal(n) \in Nat /\ NextDecimal(n) > 0
         /\ \A x \in disk : x.n = n => x.d < NextDecimal(n)
<1> DEFINE N == {x.d : x \in {y \in disk : y.n = n}} \cup {0}
<1>1. PICK K \in Nat : \A x \in disk : x.d <= K
  BY DEF DiskTyped
<1>2. N \subseteq Nat /\ N # {} /\ \A y \in N : y <= K
  BY <1>1 DEF DiskTyped, Dir
<1>3. Max(N) \in N /\ \A y \in N : y <= Max(N)
  <2> HIDE DEF N
  <2> QED
    BY <1>2, MaxIsGreatest
<1>4. NextDecimal(n) = 1 + Max(N)
  BY DEF NextDecimal
<1>5. \A x \in disk : x.n = n => x.d \in N
  OBVIOUS
<1> HIDE DEF N
<1>6. Max(N) \in Nat
  BY <1>2, <1>3
<1>7. \A x \in disk : x.n = n => x.d \in Nat /\ x.d <= Max(N)
  BY <1>2, <1>3, <1>5
<1> QED
  BY <1>4, <1>6, <1>7

-----------------------------------------------------------------------------
(* The invariant, step by step. *)

LEMMA TreeInit ==
  ASSUME Init
  PROVE  TreeInv
<1>1. PICK name \in [1..(Planned + 1) -> Slugs], phases \in {Planned, Planned + 1} :
        /\ roadmap = [i \in 1..phases |->
                        [n |-> i, d |-> 0, slug |-> name[i],
                         box |-> IF i <= Planned THEN "open" ELSE "none"]]
        /\ later \in BOOLEAN
        /\ phases > Planned => later
        /\ cut = IF later THEN Planned ELSE 0
        /\ disk = {[n |-> i, d |-> 0, slug |-> name[i], id |-> i, run |-> FALSE] : i \in 1..Planned}
  BY DEF Init
<1>2. Planned \in Nat /\ Planned > 0
  BY PhaseTreeAssumption
<1>3. RoadmapTyped
  <2>0. phases \in Nat /\ phases >= Planned
    BY <1>2
  <2>1. roadmap \in [1..phases -> Header]
    BY <1>1, <1>2, <2>0 DEF Header
  <2>2. roadmap \in Seq(Header) /\ Len(roadmap) = phases
    BY <2>0, <2>1, SameLength
  <2>3. cut \in Nat /\ (later => cut <= phases)
    BY <1>1, <1>2, <2>0
  <2> QED
    BY <1>1, <2>2, <2>3 DEF RoadmapTyped
<1>4. DiskTyped
  <2>1. made \in Nat /\ made = Planned
    BY <1>2 DEF Init
  <2> DEFINE first(i) == [n |-> i, d |-> 0, slug |-> name[i], id |-> i, run |-> FALSE]
  <2>0. /\ \A i \in 1..Planned : first(i) \in Dir /\ first(i).id = i /\ i \in Nat /\ i <= Planned
        /\ disk = {first(i) : i \in 1..Planned}
    BY <1>1, <1>2 DEF Dir
  <2> HIDE DEF first
  <2>2. disk \subseteq Dir
    BY <2>0
  <2>3. /\ \A x \in disk : x.id <= made
        /\ \A x, y \in disk : x.id = y.id => x = y
    BY <2>0, <2>1
  <2>4. \A x \in disk : x.d <= 0
    BY <1>1
  <2> QED
    BY <2>1, <2>2, <2>3, <2>4 DEF DiskTyped
<1>5. JobTyped
  BY DEF Init, Idle, JobTyped
<1>6. WorkKept
  BY DEF Init, WorkKept, ExecutedWorkKept
<1> QED
  BY <1>3, <1>4, <1>5, <1>6 DEF TreeInv

\* A fresh directory has an identity of its own and no SUMMARY.
LEMMA MakeDirInv ==
  ASSUME DiskTyped, WorkKept, NEW n \in Nat, NEW d \in Nat, NEW slug \in Slugs,
         MakeDir(n, d, slug), UNCHANGED <<archive, executed, dropped, raced>>
  PROVE  DiskTyped' /\ WorkKept'
<1>1. CASE UNCHANGED <<disk, made>>
  BY <1>1 DEF DiskTyped, WorkKept, ExecutedWorkKept
<1> DEFINE x == [n |-> n, d |-> d, slug |-> slug, id |-> made + 1, run |-> FALSE]
<1>2. CASE disk' = disk \cup {x} /\ made' = made + 1
  <2>1. x \in Dir /\ x.id = made + 1 /\ x.d = d /\ ~x.run
    BY DEF Dir, DiskTyped
  <2>2. /\ made' \in Nat /\ disk' \subseteq Dir /\ \A y \in disk : y.id \in Nat
    BY <1>2, <2>1 DEF DiskTyped, Dir
  <2> HIDE DEF x
  <2>3. \A y \in disk' : y.id <= made'
    BY <1>2, <2>1, <2>2 DEF DiskTyped
  <2>4. \A y, z \in disk' : y.id = z.id => y = z
    BY <1>2, <2>1, <2>2 DEF DiskTyped
  <2>5. \E top \in Nat : \A y \in disk' : y.d <= top
    <3>1. PICK top \in Nat : \A y \in disk : y.d <= top
      BY DEF DiskTyped
    <3>2. \A y \in disk : y.d \in Nat
      BY DEF DiskTyped, Dir
    <3>3. \A y \in disk' : y.d <= top + d
      BY <1>2, <2>1, <3>1, <3>2
    <3> QED
      BY <3>3
  <2>6. WorkKept'
    <3>1. \A i \in executed : i \in Nat /\ i <= made
      BY DEF WorkKept
    <3>2. /\ \A i \in executed' : i \in Nat /\ i <= made'
          /\ \A y \in disk' : y.id \in executed' => y.run
      BY <1>2, <2>1, <3>1 DEF WorkKept, DiskTyped
    <3>3. ExecutedWorkKept'
      BY <1>2 DEF WorkKept, ExecutedWorkKept
    <3>4. archive' = [v \in Versions |-> archive'[v]]
      BY DEF WorkKept
    <3> QED
      BY <3>2, <3>3, <3>4 DEF WorkKept
  <2> QED
    BY <2>2, <2>3, <2>4, <2>5, <2>6 DEF DiskTyped
<1> QED
  BY <1>1, <1>2 DEF MakeDir

\* phase add and insert.
LEMMA AddInv ==
  ASSUME TreeInv,
         \/ \E slug \in Slugs : PhaseAdd(slug) \/ \E i \in Current : PhaseInsert(i, slug)
         \/ PhaseAddRoadmap \/ PhaseInsertRoadmap
  PROVE  TreeInv'
<1>0. /\ RoadmapTyped /\ DiskTyped /\ JobTyped /\ WorkKept
      /\ Len(roadmap) \in Nat /\ Current = Places
      /\ \A i \in Places : i \in 1..Len(roadmap) /\ roadmap[i].n \in Nat /\ roadmap[i].d \in Nat
  BY CurrentPlaces DEF TreeInv
<1>1. ASSUME NEW slug \in Slugs, PhaseAdd(slug) PROVE TreeInv'
  <2> DEFINE h == [n |-> NextInteger, d |-> 0, slug |-> slug, box |-> "none"]
  <2>1. /\ MakeDir(NextInteger, 0, slug)
        /\ job' = [op |-> "add", h |-> h]
        /\ UNCHANGED <<roadmap, later, cut, archive, state, executed, dropped, raced>>
    BY <1>1 DEF PhaseAdd
  <2>2. NextInteger \in Nat
    BY <1>0, NextIntegerIsNew
  <2>3. h \in Header
    BY <2>2 DEF Header
  <2>4. DiskTyped' /\ WorkKept'
    BY <1>0, <2>1, <2>2, MakeDirInv
  <2>5. job'.op = "add" /\ job'.h \in Header
    BY <2>1, <2>3
  <2>6. JobTyped'
    BY <2>5 DEF JobTyped
  <2> QED
    BY <1>0, <2>1, <2>4, <2>6 DEF TreeInv, RoadmapTyped
<1>2. ASSUME NEW slug \in Slugs, NEW i \in Current, PhaseInsert(i, slug) PROVE TreeInv'
  <2> DEFINE n == roadmap[i].n
             h == [n |-> n, d |-> NextDecimal(n), slug |-> slug, box |-> "none"]
  <2>1. /\ MakeDir(n, NextDecimal(n), slug)
        /\ job' = [op |-> "insert", at |-> i + 1, h |-> h]
        /\ UNCHANGED <<roadmap, later, cut, archive, state, executed, dropped, raced>>
    BY <1>2 DEF PhaseInsert
  <2>2. n \in Nat /\ NextDecimal(n) \in Nat
    BY <1>0, NextDecimalIsNew
  <2>3. h \in Header
    BY <2>2 DEF Header
  <2>4. DiskTyped' /\ WorkKept'
    BY <1>0, <2>1, <2>2, MakeDirInv
  <2>5. job'.op = "insert" /\ job'.h \in Header /\ job'.at \in 1..(Len(roadmap') + 1)
    BY <1>0, <2>1, <2>3
  <2>6. JobTyped'
    BY <2>5 DEF JobTyped
  <2> QED
    BY <1>0, <2>1, <2>4, <2>6 DEF TreeInv, RoadmapTyped
<1>3. CASE PhaseAddRoadmap
  <2>1. /\ roadmap' = Append(roadmap, job.h) /\ job.h \in Header /\ job'.op = "idle"
        /\ UNCHANGED <<later, cut, disk, archive, executed, dropped, raced, made>>
    BY <1>0, <1>3 DEF PhaseAddRoadmap, Idle, JobTyped
  <2>2. roadmap' \in Seq(Header) /\ Len(roadmap') = Len(roadmap) + 1
    BY <1>0, <2>1 DEF RoadmapTyped
  <2>3. RoadmapTyped'
    BY <1>0, <2>1, <2>2 DEF RoadmapTyped
  <2> QED
    BY <1>0, <2>1, <2>3 DEF TreeInv, DiskTyped, JobTyped, WorkKept, ExecutedWorkKept
<1>4. CASE PhaseInsertRoadmap
  <2>1. /\ roadmap' = InsertAt(roadmap, job.at, job.h) /\ job.h \in Header /\ job'.op = "idle"
        /\ job.at \in 1..(Len(roadmap) + 1)
        /\ cut' = IF later /\ job.at <= cut THEN cut + 1 ELSE cut
        /\ UNCHANGED <<later, disk, archive, executed, dropped, raced, made>>
    BY <1>0, <1>4 DEF PhaseInsertRoadmap, Idle, JobTyped
  <2>2. /\ InsertAt(roadmap, job.at, job.h) \in Seq(Header)
        /\ Len(InsertAt(roadmap, job.at, job.h)) = Len(roadmap) + 1
    BY <1>0, <2>1, InsertAtElements DEF RoadmapTyped
  <2>3. RoadmapTyped'
    BY <1>0, <2>1, <2>2 DEF RoadmapTyped
  <2> QED
    BY <1>0, <2>1, <2>3 DEF TreeInv, DiskTyped, JobTyped, WorkKept, ExecutedWorkKept
<1> QED
  BY <1>1, <1>2, <1>3, <1>4

\* A step of a command that touches no directory, no header and no history of
\* the work: what remains is the record of the command.
LEMMA CommandInv ==
  ASSUME TreeInv, UNCHANGED <<roadmap, later, cut, disk, archive, executed, dropped, raced, made>>, JobTyped'
  PROVE  TreeInv'
BY DEF TreeInv, RoadmapTyped, DiskTyped, WorkKept, ExecutedWorkKept

\* phase remove: the guard has looked at the directory it found.
LEMMA RemoveInv ==
  ASSUME TreeInv, NEW n \in Nat, NEW d \in Nat, NEW force \in BOOLEAN, NEW form,
         PhaseRemove(n, d, force, form)
  PROVE  TreeInv'
<1> DEFINE target == FirstOf({x \in disk : x.n = n /\ x.d = d})
<1>1. PICK gone \in IF target = {} THEN {{}} ELSE {{x} : x \in target} :
        /\ \A y \in gone : y.run => force
        /\ job' = [op |-> "delete", n |-> n, d |-> d, form |-> form, force |-> force,
                   ids |-> {y.id : y \in gone}]
  BY DEF PhaseRemove
<1>2. UNCHANGED <<roadmap, later, cut, disk, archive, executed, dropped, raced, made>>
  BY DEF PhaseRemove
<1>3. gone \subseteq disk
  BY DEF FirstOf
<1>4. /\ job'.op = "delete" /\ job'.n = n /\ job'.d = d /\ job'.form = form /\ job'.force = force
      /\ job'.ids = {y.id : y \in gone}
  BY <1>1
<1>5. \A x, y \in disk : x.id = y.id => x = y
  BY DEF TreeInv, DiskTyped
<1>6. ~force => \A x \in disk : x.id \in job'.ids => ~x.run
  BY <1>1, <1>3, <1>4, <1>5
<1>7. JobTyped'
  BY <1>1, <1>2, <1>4, <1>6 DEF JobTyped
<1> QED
  BY <1>2, <1>7, CommandInv

\* Its directory is deleted: forced, or nothing was executed in it, or that
\* happened after the guard had looked.
LEMMA DeleteInv ==
  ASSUME TreeInv, PhaseRemoveDelete
  PROVE  TreeInv'
<1> DEFINE gone == {x \in disk : x.id \in job.ids}
<1>1. /\ job.op = "delete" /\ disk' = disk \ gone
      /\ dropped' = IF job.force THEN dropped \cup job.ids ELSE dropped
      /\ job' = [op |-> "rename", n |-> job.n, d |-> job.d, form |-> job.form,
                 ids |-> {x.id : x \in ToRename(job.n, job.d, disk \ gone)}]
      /\ UNCHANGED <<roadmap, later, cut, archive, executed, raced, made>>
  BY DEF PhaseRemoveDelete
<1>2. /\ job.n \in Nat /\ job.d \in Nat
      /\ ~job.force => \A x \in disk : x.id \in job.ids /\ x.run => x.id \in raced
      /\ DiskTyped /\ WorkKept /\ RoadmapTyped
  BY <1>1 DEF TreeInv, JobTyped
<1>3. DiskTyped'
  BY <1>1, <1>2 DEF DiskTyped
<1>4. /\ job'.op = "rename" /\ job'.n = job.n /\ job'.d = job.d /\ job'.form = job.form
      /\ job'.ids = {x.id : x \in ToRename(job.n, job.d, disk \ gone)}
  BY <1>1
<1>5. \A x \in disk' : x.id \in job'.ids => IF job.d > 0 THEN x.d > job.d ELSE x.n > job.n
  <2> SUFFICES ASSUME NEW x \in disk', x.id \in job'.ids
               PROVE  IF job.d > 0 THEN x.d > job.d ELSE x.n > job.n
    OBVIOUS
  <2>1. PICK y \in ToRename(job.n, job.d, disk \ gone) : x.id = y.id
    BY <1>4
  <2>2. y \in disk /\ IF job.d > 0 THEN y.d > job.d ELSE y.n > job.n
    BY <2>1 DEF ToRename
  <2>3. x = y
    BY <1>1, <1>2, <2>1, <2>2 DEF DiskTyped
  <2> QED
    BY <2>2, <2>3
<1>6. JobTyped'
  BY <1>1, <1>2, <1>4, <1>5 DEF JobTyped
<1>7. ExecutedWorkKept'
  <2> SUFFICES ASSUME NEW i \in executed, i \notin dropped', i \notin raced
               PROVE  i \in {x.id : x \in disk' \cup UNION Range(archive)}
    BY <1>1 DEF ExecutedWorkKept
  <2>1. PICK x \in disk \cup UNION Range(archive) : x.id = i
    BY <1>1, <1>2 DEF WorkKept, ExecutedWorkKept
  <2>2. x \in disk => x.run
    BY <1>2, <2>1 DEF WorkKept
  <2>3. x \notin gone
    BY <1>1, <1>2, <2>1, <2>2
  <2> QED
    BY <1>1, <2>1, <2>3
<1>8. WorkKept'
  BY <1>1, <1>2, <1>7 DEF WorkKept
<1> QED
  BY <1>1, <1>2, <1>3, <1>6, <1>8 DEF TreeInv, RoadmapTyped

\* A directory is renamed: it stays the same directory.
LEMMA RenumberedDir ==
  ASSUME TreeInv, job.op = "rename", NEW x \in disk, x.id \in job.ids
  PROVE  /\ Renumbered(x) \in Dir
         /\ Renumbered(x).id = x.id /\ Renumbered(x).run = x.run
         /\ Renumbered(x).n = IF job.d > 0 THEN x.n ELSE x.n - 1
         /\ Renumbered(x).d = IF job.d > 0 THEN x.d - 1 ELSE x.d
         /\ Renumbered(x).slug = x.slug
<1>1. /\ job.n \in Nat /\ job.d \in Nat /\ IF job.d > 0 THEN x.d > job.d ELSE x.n > job.n
      /\ x \in Dir
  BY DEF TreeInv, JobTyped, DiskTyped
<1>2. x = [n |-> x.n, d |-> x.d, slug |-> x.slug, id |-> x.id, run |-> x.run]
      /\ x.n \in Nat /\ x.d \in Nat /\ x.slug \in Slugs /\ x.id \in Nat /\ x.run \in BOOLEAN
  BY <1>1 DEF Dir
<1>3. CASE job.d > 0
  <2>1. Renumbered(x) = [n |-> x.n, d |-> x.d - 1, slug |-> x.slug, id |-> x.id, run |-> x.run]
    BY <1>2, <1>3 DEF Renumbered
  <2>2. x.d - 1 \in Nat
    BY <1>1, <1>2, <1>3
  <2> QED
    BY <1>2, <1>3, <2>1, <2>2 DEF Dir
<1>4. CASE ~(job.d > 0)
  <2>1. Renumbered(x) = [n |-> x.n - 1, d |-> x.d, slug |-> x.slug, id |-> x.id, run |-> x.run]
    BY <1>2, <1>4 DEF Renumbered
  <2>2. x.n - 1 \in Nat
    BY <1>1, <1>2, <1>4
  <2> QED
    BY <1>2, <1>4, <2>1, <2>2 DEF Dir
<1> QED
  BY <1>3, <1>4

LEMMA RenameInv ==
  ASSUME TreeInv, PhaseRemoveRename
  PROVE  TreeInv'
<1>1. PICK x \in {y \in disk : y.id \in job.ids} :
        \/ job' = [job EXCEPT !.ids = {}] /\ UNCHANGED disk
        \/ /\ disk' = (disk \ {x}) \cup {Renumbered(x)}
           /\ job' = [job EXCEPT !.ids = @ \ {x.id}]
  BY DEF PhaseRemoveRename
<1>2. /\ job.op = "rename" /\ UNCHANGED <<roadmap, later, cut, archive, executed, dropped, raced, made>>
      /\ job = [op |-> "rename", n |-> job.n, d |-> job.d, form |-> job.form, ids |-> job.ids]
      /\ job.n \in Nat /\ job.d \in Nat
      /\ \A y \in disk : y.id \in job.ids => IF job.d > 0 THEN y.d > job.d ELSE y.n > job.n
      /\ DiskTyped /\ WorkKept /\ RoadmapTyped
  BY DEF PhaseRemoveRename, TreeInv, JobTyped
<1>3. CASE job' = [job EXCEPT !.ids = {}] /\ UNCHANGED disk
  <2>1. /\ job'.op = "rename" /\ job'.n = job.n /\ job'.d = job.d /\ job'.ids = {}
        /\ job' = [op |-> "rename", n |-> job'.n, d |-> job'.d, form |-> job'.form, ids |-> job'.ids]
    BY <1>2, <1>3
  <2>2. JobTyped'
    BY <1>2, <2>1 DEF JobTyped
  <2> QED
    BY <1>2, <1>3, <2>2, CommandInv
<1>4. CASE /\ disk' = (disk \ {x}) \cup {Renumbered(x)}
           /\ job' = [job EXCEPT !.ids = @ \ {x.id}]
  <2> DEFINE z == Renumbered(x)
  <2>1. /\ z \in Dir /\ z.id = x.id /\ z.run = x.run /\ z.d <= x.d
    <3>1. x.d \in Nat
      BY <1>2 DEF DiskTyped, Dir
    <3> QED
      BY <1>2, <3>1, RenumberedDir
  <2> HIDE DEF z
  <2>2. /\ job'.op = "rename" /\ job'.n = job.n /\ job'.d = job.d /\ job'.ids = job.ids \ {x.id}
        /\ job' = [op |-> "rename", n |-> job'.n, d |-> job'.d, form |-> job'.form, ids |-> job'.ids]
    BY <1>2, <1>4
  <2>3. disk' = (disk \ {x}) \cup {z}
    BY <1>4 DEF z
  <2>4. DiskTyped'
    <3>1. \A y \in disk : y.d \in Nat /\ y.id \in Nat
      BY <1>2 DEF DiskTyped, Dir
    <3>2. PICK top \in Nat : \A y \in disk : y.d <= top
      BY <1>2 DEF DiskTyped
    <3>3. z.d \in Nat
      BY <2>1 DEF Dir
    <3>4. \A y \in disk' : y.d <= top
      BY <2>1, <2>3, <3>1, <3>2, <3>3
    <3>5. \A y, w \in disk' : y.id = w.id => y = w
      BY <1>2, <2>1, <2>3 DEF DiskTyped
    <3>6. made' \in Nat /\ disk' \subseteq Dir /\ \A y \in disk' : y.id <= made'
      BY <1>2, <2>1, <2>3 DEF DiskTyped
    <3> QED
      BY <3>4, <3>5, <3>6 DEF DiskTyped
  <2>5. JobTyped'
    <3>1. \A y \in disk' : y.id \in job'.ids => y \in disk /\ y.id \in job.ids
      BY <2>1, <2>2, <2>3
    <3> QED
      BY <1>2, <2>2, <3>1 DEF JobTyped
  <2>6. WorkKept'
    <3>1. {y.id : y \in disk'} = {y.id : y \in disk}
      BY <2>1, <2>3
    <3>2. ExecutedWorkKept'
      BY <1>2, <3>1 DEF WorkKept, ExecutedWorkKept
    <3>3. \A y \in disk' : y.id \in executed => y.run
      BY <1>2, <2>1, <2>3 DEF WorkKept
    <3> QED
      BY <1>2, <3>2, <3>3 DEF WorkKept
  <2> QED
    BY <1>2, <2>4, <2>5, <2>6 DEF TreeInv, RoadmapTyped
<1> QED
  BY <1>1, <1>3, <1>4

\* A section goes, and the headers behind it are renumbered.
LEMMA DropTyped ==
  ASSUME RoadmapTyped, NEW n, NEW d, NEW form
  PROVE  /\ DropSection(roadmap, n, d, form) \in Seq(Header)
         /\ Sections(n, d, form) = {} => DropSection(roadmap, n, d, form) = roadmap
         /\ Sections(n, d, form) # {} =>
              /\ Min(Sections(n, d, form)) \in 1..Len(roadmap)
              /\ Len(DropSection(roadmap, n, d, form)) = Len(roadmap) - 1
              /\ \A j \in 1..(Len(roadmap) - 1) :
                   LET at == Min(Sections(n, d, form))
                   IN  SameName(DropSection(roadmap, n, d, form)[j],
                                roadmap[IF j < at THEN j ELSE j + 1])
<1> DEFINE found  == Sections(n, d, form)
           unlist == [i \in DOMAIN roadmap |->
                        IF i \in found THEN [roadmap[i] EXCEPT !.box = "none"] ELSE roadmap[i]]
<1>1. /\ Len(roadmap) \in Nat /\ DOMAIN roadmap = 1..Len(roadmap)
      /\ \A i \in 1..Len(roadmap) : roadmap[i] \in Header
      /\ roadmap \in Seq(Header)
  BY HeadersTyped DEF RoadmapTyped
<1>2. unlist \in [1..Len(roadmap) -> Header]
  <2>1. \A i \in 1..Len(roadmap) : [roadmap[i] EXCEPT !.box = "none"] \in Header
    BY <1>1 DEF Header
  <2> QED
    BY <1>1, <2>1
<1>3. found \subseteq Nat /\ found \subseteq 1..Len(roadmap)
  BY <1>1 DEF Sections
<1>4. DropSection(roadmap, n, d, form) = IF found = {} THEN roadmap ELSE RemoveAt(unlist, Min(found))
  BY DEF DropSection, Sections
<1>7. \A i \in 1..Len(roadmap) : SameName(unlist[i], roadmap[i])
  <2>1. \A i \in 1..Len(roadmap) : /\ SameName([roadmap[i] EXCEPT !.box = "none"], roadmap[i])
                                  /\ SameName(roadmap[i], roadmap[i])
    BY <1>1 DEF Header, SameName, Same
  <2> QED
    BY <1>1, <2>1
<1> HIDE DEF unlist, found
<1>5. unlist \in Seq(Header) /\ Len(unlist) = Len(roadmap)
  BY <1>1, <1>2, SameLength
<1>6. CASE found # {}
  <2>1. PICK at \in 1..Len(unlist) : at = Min(found)
    BY <1>3, <1>5, <1>6, MinIsLeast
  <2>2. /\ RemoveAt(unlist, at) \in Seq(Header)
        /\ Len(RemoveAt(unlist, at)) = Len(roadmap) - 1
        /\ \A j \in 1..(Len(roadmap) - 1) :
             RemoveAt(unlist, at)[j] = IF j < at THEN unlist[j] ELSE unlist[j + 1]
    BY <1>5, <2>1, RemoveAtElements
  <2>3. \A j \in 1..(Len(roadmap) - 1) :
          SameName(RemoveAt(unlist, at)[j], roadmap[IF j < at THEN j ELSE j + 1])
    <3> SUFFICES ASSUME NEW j \in 1..(Len(roadmap) - 1)
                 PROVE  SameName(RemoveAt(unlist, at)[j], roadmap[IF j < at THEN j ELSE j + 1])
      OBVIOUS
    <3>1. j \in 1..Len(roadmap) /\ j + 1 \in 1..Len(roadmap)
      BY <1>1
    <3> QED
      BY <1>7, <2>2, <3>1
  <2>4. DropSection(roadmap, n, d, form) = RemoveAt(unlist, at)
    BY <1>4, <1>6, <2>1
  <2> QED
    BY <1>5, <1>6, <2>1, <2>2, <2>3, <2>4 DEF found
<1> QED
  BY <1>1, <1>4, <1>6 DEF found

LEMMA RenumberTyped ==
  ASSUME NEW hs \in Seq(Header), NEW n \in Nat
  PROVE  /\ RenumberHeaders(hs, n) \in Seq(Header) /\ Len(RenumberHeaders(hs, n)) = Len(hs)
         /\ \A i \in 1..Len(hs) : ~(hs[i].d = 0 /\ hs[i].n > n) => RenumberHeaders(hs, n)[i] = hs[i]
<1>1. Len(hs) \in Nat /\ DOMAIN hs = 1..Len(hs) /\ \A i \in 1..Len(hs) : hs[i] \in Header
  BY LenProperties, ElementOfSeq
<1>2. \A i \in 1..Len(hs) : [hs[i] EXCEPT !.n = n] \in Header
  BY <1>1 DEF Header
<1>3. RenumberHeaders(hs, n) \in [1..Len(hs) -> Header]
  BY <1>1, <1>2 DEF RenumberHeaders
<1>4. RenumberHeaders(hs, n) \in Seq(Header) /\ Len(RenumberHeaders(hs, n)) = Len(hs)
  BY <1>1, <1>3, SameLength
<1> QED
  BY <1>1, <1>4 DEF RenumberHeaders

LEMMA RemoveRoadmapInv ==
  ASSUME TreeInv, PhaseRemoveRoadmap \/ PhaseRemoveState
  PROVE  TreeInv'
<1>1. CASE PhaseRemoveRoadmap
  <2> DEFINE rest == DropSection(roadmap, job.n, job.d, job.form)
             found == Sections(job.n, job.d, job.form)
  <2>1. /\ roadmap' = IF job.d = 0 THEN RenumberHeaders(rest, job.n) ELSE rest
        /\ later' = (later /\ ~Severs(job.n, job.d, job.form))
        /\ cut' = IF ~later' THEN 0 ELSE IF found # {} /\ Min(found) < cut THEN cut - 1 ELSE cut
        /\ job'.op = "count" /\ UNCHANGED <<disk, archive, executed, dropped, raced, made>>
        /\ job.n \in Nat
    BY <1>1 DEF PhaseRemoveRoadmap, TreeInv, JobTyped
  <2>2. RoadmapTyped /\ Len(roadmap) \in Nat /\ later \in BOOLEAN /\ cut \in Nat
        /\ (later => cut <= Len(roadmap))
    BY HeadersTyped DEF TreeInv, RoadmapTyped
  <2>4. /\ rest \in Seq(Header) /\ (found = {} => rest = roadmap)
        /\ found # {} => Min(found) \in 1..Len(roadmap) /\ Len(rest) = Len(roadmap) - 1
    BY <2>2, DropTyped
  <2>5. later' => later /\ ~(found # {} /\ Min(found) = cut)
    BY <2>1 DEF Severs
  <2> HIDE DEF rest, found
  <2>6. roadmap' \in Seq(Header) /\ Len(roadmap') = Len(rest)
    BY <2>1, <2>4, RenumberTyped
  <2>7. later' \in BOOLEAN
    BY <2>1, <2>2
  <2>8. cut' \in Nat /\ (later' => cut' <= Len(roadmap'))
    <3>1. CASE ~later'
      BY <2>1, <3>1
    <3>2. CASE later' /\ found = {}
      BY <2>1, <2>2, <2>4, <2>5, <2>6, <3>2
    <3>3. CASE later' /\ found # {}
      <4>1. PICK at \in 1..Len(roadmap) : at = Min(found)
        BY <2>4, <3>3
      <4>2. cut' = (IF at < cut THEN cut - 1 ELSE cut) /\ at # cut /\ cut <= Len(roadmap)
            /\ Len(roadmap') = Len(roadmap) - 1
        BY <2>1, <2>2, <2>4, <2>5, <2>6, <3>3, <4>1
      <4> QED
        BY <2>2, <4>1, <4>2
    <3> QED
      BY <3>1, <3>2, <3>3
  <2>3. RoadmapTyped'
    BY <2>6, <2>7, <2>8 DEF RoadmapTyped
  <2> QED
    BY <2>1, <2>3 DEF TreeInv, DiskTyped, JobTyped, WorkKept, ExecutedWorkKept
<1>2. CASE PhaseRemoveState
  <2>1. job'.op = "idle" /\ UNCHANGED <<roadmap, later, cut, disk, archive, executed, dropped, raced, made>>
    BY <1>2 DEF PhaseRemoveState, Idle
  <2>2. JobTyped'
    BY <2>1 DEF JobTyped
  <2> QED
    BY <2>1, <2>2, CommandInv
<1> QED
  BY <1>1, <1>2

\* phase complete ticks a box; STATE.md is no matter here.
LEMMA CompleteInv ==
  ASSUME TreeInv, NEW n, NEW d, NEW form, PhaseComplete(n, d, form) \/ PhaseCompleteState
  PROVE  TreeInv'
<1>1. CASE PhaseComplete(n, d, form)
  <2> DEFINE open == {i \in DOMAIN roadmap : roadmap[i].box = "open" /\ Matches(roadmap[i], n, d, form)}
  <2>1. /\ roadmap' = [i \in DOMAIN roadmap |->
                         IF open # {} /\ i = Min(open) THEN [roadmap[i] EXCEPT !.box = "done"]
                         ELSE roadmap[i]]
        /\ job'.op = "advance" /\ UNCHANGED <<later, cut, disk, archive, executed, dropped, raced, made>>
    BY <1>1 DEF PhaseComplete
  <2>2. /\ Len(roadmap) \in Nat /\ DOMAIN roadmap = 1..Len(roadmap)
        /\ \A i \in 1..Len(roadmap) : roadmap[i] \in Header
    BY HeadersTyped DEF TreeInv
  <2>3. \A i \in 1..Len(roadmap) : [roadmap[i] EXCEPT !.box = "done"] \in Header
    BY <2>2 DEF Header
  <2> HIDE DEF open
  <2>4. roadmap' \in [1..Len(roadmap) -> Header]
    BY <2>1, <2>2, <2>3
  <2>5. RoadmapTyped'
    BY <2>1, <2>2, <2>4, SameLength DEF RoadmapTyped, TreeInv
  <2> QED
    BY <2>1, <2>5 DEF TreeInv, DiskTyped, JobTyped, WorkKept, ExecutedWorkKept
<1>2. CASE PhaseCompleteState
  <2>1. job'.op = "idle" /\ UNCHANGED <<roadmap, later, cut, disk, archive, executed, dropped, raced, made>>
    BY <1>2 DEF PhaseCompleteState, Idle
  <2>2. JobTyped'
    BY <2>1 DEF JobTyped
  <2> QED
    BY <2>1, <2>2, CommandInv
<1> QED
  BY <1>1, <1>2

\* milestone complete moves directories to the archive.
LEMMA MilestoneInv ==
  ASSUME TreeInv, (\E v \in Versions : MilestoneComplete(v)) \/ ArchivePhase
  PROVE  TreeInv'
<1>1. ASSUME NEW v \in Versions, MilestoneComplete(v) PROVE TreeInv'
  <2>1. /\ job' = [op |-> "archive", to |-> v, ids |-> {x.id : x \in InMilestone}]
        /\ UNCHANGED <<roadmap, later, cut, disk, archive, executed, dropped, raced, made>>
    BY <1>1 DEF MilestoneComplete
  <2>2. job'.op = "archive" /\ job'.to = v /\ job' = [op |-> "archive", to |-> job'.to, ids |-> job'.ids]
    BY <2>1
  <2>3. JobTyped'
    BY <2>2 DEF JobTyped
  <2> QED
    BY <2>1, <2>3, CommandInv
<1>2. CASE ArchivePhase
  <2>1. /\ job.op = "archive" /\ UNCHANGED <<roadmap, later, cut, executed, dropped, raced, made>>
        /\ job = [op |-> "archive", to |-> job.to, ids |-> job.ids] /\ job.to \in Versions
        /\ DiskTyped /\ WorkKept /\ RoadmapTyped
    BY <1>2 DEF ArchivePhase, TreeInv, JobTyped
  <2>2. CASE job' = Idle /\ UNCHANGED <<disk, archive>>
    <3>1. JobTyped'
      BY <2>2 DEF JobTyped, Idle
    <3> QED
      BY <2>1, <2>2, <3>1, CommandInv
  <2>3. ASSUME NEW x \in disk, archive' = [archive EXCEPT ![job.to] = @ \cup {x}],
               disk' = disk \ {x}, job' = [job EXCEPT !.ids = @ \ {x.id}]
        PROVE  TreeInv'
    <3>1. /\ job'.op = "archive" /\ job'.to = job.to
          /\ job' = [op |-> "archive", to |-> job'.to, ids |-> job'.ids]
      BY <2>1, <2>3
    <3>2. JobTyped'
      BY <2>1, <3>1 DEF JobTyped
    <3>3. DiskTyped'
      BY <2>1, <2>3 DEF DiskTyped
    <3>4. archive = [v \in Versions |-> archive[v]]
      BY <2>1 DEF WorkKept
    <3>5. /\ archive' = [v \in Versions |-> archive'[v]]
          /\ \A v \in Versions : archive[v] \subseteq archive'[v]
          /\ x \in archive'[job.to]
          /\ DOMAIN archive = Versions /\ DOMAIN archive' = Versions
      BY <2>1, <2>3, <3>4
    <3>6. disk \cup UNION Range(archive) \subseteq disk' \cup UNION Range(archive')
      BY <2>1, <2>3, <3>5 DEF Range
    <3>7. ExecutedWorkKept'
      BY <2>1, <3>6 DEF WorkKept, ExecutedWorkKept
    <3> QED
      BY <2>1, <2>3, <3>2, <3>3, <3>5, <3>7 DEF TreeInv, WorkKept, RoadmapTyped
  <2> QED
    BY <1>2, <2>2, <2>3 DEF ArchivePhase
<1> QED
  BY <1>1, <1>2

\* An executor writes a SUMMARY, or the command is killed, or nothing happens.
LEMMA SummaryInv ==
  ASSUME TreeInv, NEW x \in disk, WriteSummary(x)
  PROVE  TreeInv'
<1> DEFINE z == [x EXCEPT !.run = TRUE]
<1>1. /\ disk' = (disk \ {x}) \cup {z} /\ executed' = executed \cup {x.id}
      /\ raced' = IF job.op = "delete" /\ x.id \in job.ids THEN raced \cup {x.id} ELSE raced
      /\ UNCHANGED <<roadmap, later, cut, archive, job, dropped, made>>
  BY DEF WriteSummary
<1>2. DiskTyped /\ WorkKept /\ RoadmapTyped /\ JobTyped /\ x \in Dir /\ x.id \in Nat
  BY DEF TreeInv, DiskTyped, Dir
<1>3. z \in Dir /\ z.id = x.id /\ z.n = x.n /\ z.d = x.d /\ z.run = TRUE
  BY <1>2 DEF Dir
<1> HIDE DEF z
<1>4. DiskTyped'
  BY <1>1, <1>2, <1>3 DEF DiskTyped
<1>5. \A y \in disk : y.id = x.id => y = x
  BY <1>2 DEF DiskTyped
<1>6. JobTyped'
  <2>1. job.op = "delete" /\ ~job.force =>
          \A y \in disk' : y.id \in job.ids /\ y.run => y.id \in raced'
    BY <1>1, <1>2, <1>3 DEF JobTyped
  <2>2. job.op = "rename" =>
          \A y \in disk' : y.id \in job.ids => IF job.d > 0 THEN y.d > job.d ELSE y.n > job.n
    BY <1>1, <1>2, <1>3 DEF JobTyped
  <2> QED
    BY <1>1, <1>2, <2>1, <2>2 DEF JobTyped
<1>7. WorkKept'
  <2>1. {y.id : y \in disk'} = {y.id : y \in disk}
    BY <1>1, <1>3
  <2>2. ExecutedWorkKept'
    BY <1>1, <1>2, <2>1 DEF WorkKept, ExecutedWorkKept
  <2>3. \A y \in disk' : y.id \in executed' => y.run
    BY <1>1, <1>2, <1>3, <1>5 DEF WorkKept
  <2>4. \A i \in executed' : i \in Nat /\ i <= made'
    BY <1>1, <1>2 DEF WorkKept, DiskTyped
  <2> QED
    BY <1>1, <1>2, <2>2, <2>3, <2>4 DEF WorkKept
<1> QED
  BY <1>1, <1>2, <1>4, <1>6, <1>7 DEF TreeInv, RoadmapTyped

LEMMA StopInv ==
  ASSUME TreeInv, Kill \/ UNCHANGED vars
  PROVE  TreeInv'
<1>1. CASE Kill
  <2>1. job'.op = "idle" /\ UNCHANGED <<roadmap, later, cut, disk, archive, executed, dropped, raced, made>>
    BY <1>1 DEF Kill, Idle
  <2>2. JobTyped'
    BY <2>1 DEF JobTyped
  <2> QED
    BY <2>1, <2>2, CommandInv
<1>2. CASE UNCHANGED vars
  <2>1. JobTyped'
    BY <1>2 DEF vars, TreeInv, JobTyped
  <2> QED
    BY <1>2, <2>1, CommandInv DEF vars
<1> QED
  BY <1>1, <1>2

LEMMA TreeStep ==
  ASSUME TreeInv, [Next]_vars
  PROVE  TreeInv'
<1>1. CASE NumberedCommand
  <2>1. PICK x \in Range(roadmap) \cup disk, form \in Forms :
          \/ PhaseComplete(x.n, x.d, form)
          \/ \E force \in BOOLEAN : PhaseRemove(x.n, x.d, force, form)
    BY <1>1 DEF NumberedCommand
  <2>2. x.n \in Nat /\ x.d \in Nat
    <3>1. \A y \in disk : y.n \in Nat /\ y.d \in Nat
      BY DEF TreeInv, DiskTyped, Dir
    <3>2. \A y \in Range(roadmap) : y.n \in Nat /\ y.d \in Nat
      BY HeadersTyped DEF TreeInv, Range
    <3> QED
      BY <3>1, <3>2
  <2> QED
    BY <2>1, <2>2, CompleteInv, RemoveInv
<1>2. CASE PhaseCompleteState
  BY <1>2, CompleteInv
<1> QED
  BY <1>1, <1>2, AddInv, DeleteInv, RenameInv, RemoveRoadmapInv, MilestoneInv, SummaryInv, StopInv
  DEF Next

\* Executed work survives: a directory that ever held a SUMMARY is on disk or
\* archived unless it was deleted with --force or the SUMMARY was written
\* after the guard of `phase remove` had looked (cmdPhaseRemove,
\* renameIntegerPhases, cmdMilestoneComplete).
THEOREM ExecutedWorkIsKept == Spec => []ExecutedWorkKept
<1>1. Init => TreeInv
  BY TreeInit
<1>2. TreeInv /\ [Next]_vars => TreeInv'
  BY TreeStep
<1>3. TreeInv => ExecutedWorkKept
  BY DEF TreeInv, WorkKept
<1> QED
  BY <1>1, <1>2, <1>3, PTL DEF Spec

-----------------------------------------------------------------------------
(* The order of the phases on disk. *)

\* The phases of disk in one state and in the next.
OrderStep ==
  \A x, y \in disk : \A x1, y1 \in disk' :
    (x.id = x1.id /\ y.id = y1.id /\ x.d = 0 /\ y.d = 0 /\ x.n < y.n) => x1.n <= y1.n

\* A step that renumbers no directory keeps their order.
LEMMA SameNumbers ==
  ASSUME TreeInv, \A x \in disk, x1 \in disk' : x.id = x1.id => x1.n = x.n
  PROVE  OrderStep
<1>1. \A x \in disk : x.n \in Nat
  BY DEF TreeInv, DiskTyped, Dir
<1> QED
  BY <1>1 DEF OrderStep

\* One directory is renumbered, and by one.
LEMMA RenameOrder ==
  ASSUME TreeInv, PhaseRemoveRename
  PROVE  OrderStep
<1>1. PICK x \in {y \in disk : y.id \in job.ids} :
        \/ UNCHANGED disk
        \/ disk' = (disk \ {x}) \cup {Renumbered(x)}
  BY DEF PhaseRemoveRename
<1>2. job.op = "rename"
  BY DEF PhaseRemoveRename
<1>3. /\ \A y \in disk : y.n \in Nat
      /\ \A y, z \in disk : y.id = z.id => y = z
  BY DEF TreeInv, DiskTyped, Dir
<1>4. Renumbered(x).id = x.id /\ Renumbered(x).n \in {x.n, x.n - 1}
  BY <1>2, RenumberedDir
<1>5. \A y \in disk, y1 \in disk' : y.id = y1.id => y1.n = y.n \/ (y = x /\ y1.n = x.n - 1)
  BY <1>1, <1>3, <1>4
<1> QED
  BY <1>3, <1>5 DEF OrderStep

\* Renumbering on disk never swaps two integer phases, at no step of it
\* (renameIntegerPhases, renameDecimalPhases).
THEOREM OrderIsKept == Spec => IntegerOrderKept
<1>1. Init => TreeInv
  BY TreeInit
<1>2. TreeInv /\ [Next]_vars => TreeInv'
  BY TreeStep
<1>3. TreeInv /\ [Next]_vars =>
        [\A x, y \in disk : \A x1, y1 \in disk' :
           (x.id = x1.id /\ y.id = y1.id /\ x.d = 0 /\ y.d = 0 /\ x.n < y.n) => x1.n <= y1.n]_vars
  <2> SUFFICES ASSUME TreeInv, Next PROVE OrderStep
    BY DEF OrderStep
  <2>0. /\ \A x, y \in disk : x.id = y.id => x = y
        /\ \A x \in disk : x.id \in Nat /\ x.id <= made
        /\ made \in Nat /\ disk \subseteq Dir
    BY DEF TreeInv, DiskTyped, Dir
  <2>1. CASE PhaseRemoveRename
    BY <2>1, RenameOrder
  <2>2. CASE disk' \subseteq disk
    BY <2>0, <2>2, SameNumbers
  <2>3. ASSUME NEW n, NEW d, NEW slug, MakeDir(n, d, slug) PROVE OrderStep
    <3>1. CASE disk' = disk
      BY <2>2, <3>1
    <3>2. CASE disk' = disk \cup {[n |-> n, d |-> d, slug |-> slug, id |-> made + 1, run |-> FALSE]}
      BY <2>0, <3>2, SameNumbers
    <3> QED
      BY <2>3, <3>1, <3>2 DEF MakeDir
  <2>4. ASSUME NEW x \in disk, WriteSummary(x) PROVE OrderStep
    <3>1. disk' = (disk \ {x}) \cup {[x EXCEPT !.run = TRUE]}
      BY <2>4 DEF WriteSummary
    <3>2. [x EXCEPT !.run = TRUE].id = x.id /\ [x EXCEPT !.run = TRUE].n = x.n
      BY <2>0 DEF Dir
    <3> QED
      BY <2>0, <3>1, <3>2, SameNumbers
  <2>5. CASE PhaseRemoveDelete \/ ArchivePhase
    BY <2>2, <2>5 DEF PhaseRemoveDelete, ArchivePhase
  <2>6. CASE NumberedCommand
    BY <2>2, <2>6 DEF NumberedCommand, PhaseComplete, PhaseRemove
  <2>7. CASE \E slug \in Slugs : PhaseAdd(slug) \/ \E i \in Current : PhaseInsert(i, slug)
    BY <2>3, <2>7 DEF PhaseAdd, PhaseInsert
  <2>8. CASE \/ PhaseAddRoadmap \/ PhaseInsertRoadmap \/ PhaseRemoveRoadmap \/ PhaseRemoveState
             \/ PhaseCompleteState \/ Kill \/ \E v \in Versions : MilestoneComplete(v)
    BY <2>2, <2>8 DEF PhaseAddRoadmap, PhaseInsertRoadmap, PhaseRemoveRoadmap, PhaseRemoveState,
                      PhaseCompleteState, Kill, MilestoneComplete
  <2> QED
    BY <2>1, <2>4, <2>5, <2>6, <2>7, <2>8 DEF Next
<1> QED
  BY <1>1, <1>2, <1>3, PTL DEF Spec, IntegerOrderKept

-----------------------------------------------------------------------------
(* ROADMAP.md and the disk. *)

Present(h) == \E x \in disk : SameName(h, x)
Listed(x)  == \E i \in Places : SameName(roadmap[i], x)

\* No number is used twice, no integer on disk is left out, and no phase has
\* been shipped yet.
Orderly ==
  /\ \A i, j \in Places : Same(roadmap[i], roadmap[j]) => i = j
  /\ \A x, y \in disk : Same(x, y) => x = y
  /\ \A x \in disk : x.n >= 1 /\ \A k \in 1..x.n : \E y \in disk : y.n = k /\ y.d = 0
  /\ \A v \in Versions : archive[v] = {}

\* Headers and directories are the same phases ...
Tidy == Orderly /\ (\A i \in Places : Present(roadmap[i])) /\ \A x \in disk : Listed(x)

\* ... but for the one whose directory is there and whose header is to come, ...
Announced(h) ==
  /\ Orderly /\ \A i \in Places : Present(roadmap[i]) /\ ~Same(roadmap[i], h)
  /\ Present(h) /\ \A x \in disk : SameName(h, x) \/ Listed(x)

\* ... or the one whose header is still there and whose directory is gone; it
\* was the last of its kind, and not the last before a later milestone.
Final(n, d) == \A x \in disk : (x.n = n => x.d <= d) /\ (d = 0 => x.n <= n)
Doomed ==
  /\ Tidy /\ job.form = "header" /\ Final(job.n, job.d) /\ ~Severs(job.n, job.d, job.form)
  /\ \A x \in disk : x.id \in job.ids <=> Same(x, job)
Removed ==
  /\ Orderly /\ job.form = "header" /\ job.ids = {} /\ ~Severs(job.n, job.d, job.form)
  /\ \A i \in Places : /\ Same(roadmap[i], job) \/ Present(roadmap[i])
                       /\ job.d = 0 /\ roadmap[i].d = 0 => roadmap[i].n <= job.n
  /\ \A x \in disk : ~Same(x, job) /\ Listed(x)

DriftInv ==
  /\ job.op \in {"idle", "add", "insert", "delete", "rename", "count", "advance", "archive"}
  /\ job.op = "archive" => drift
  /\ ~drift =>
       /\ job.op \in {"idle", "advance", "count"} => Tidy
       /\ job.op \in {"add", "insert"} => Announced(job.h)
       /\ job.op = "add" => ~later
       /\ job.op = "insert" => job.at \in 1..(Here + 1) /\ (later => job.at <= cut)
       /\ job.op = "delete" => Doomed
       /\ job.op = "rename" => Removed

LEMMA DriftInit ==
  ASSUME Init
  PROVE  DriftInv
<1>1. PICK name \in [1..(Planned + 1) -> Slugs], phases \in {Planned, Planned + 1} :
        /\ roadmap = [i \in 1..phases |->
                        [n |-> i, d |-> 0, slug |-> name[i],
                         box |-> IF i <= Planned THEN "open" ELSE "none"]]
        /\ later \in BOOLEAN
        /\ phases > Planned => later
        /\ cut = IF later THEN Planned ELSE 0
        /\ disk = {[n |-> i, d |-> 0, slug |-> name[i], id |-> i, run |-> FALSE] : i \in 1..Planned}
  BY DEF Init
<1>2. Planned \in Nat /\ Planned > 0 /\ TreeInv
  BY PhaseTreeAssumption, TreeInit
<1>3. Places = 1..Planned
  <2>1. phases \in Nat /\ phases >= Planned /\ (~later => phases = Planned)
    BY <1>1, <1>2
  <2>2. ~later => Len(roadmap) = Planned
    <3>1. DOMAIN roadmap = 1..phases
      BY <1>1
    <3>2. Len(roadmap) \in Nat /\ DOMAIN roadmap = 1..Len(roadmap)
      BY <1>2, HeadersTyped DEF TreeInv
    <3>3. Len(roadmap) = phases
      BY <2>1, <3>1, <3>2
    <3> QED
      BY <2>1, <3>3
  <2> QED
    BY <1>1, <2>2 DEF Places, Here
<1> DEFINE first(i) == [n |-> i, d |-> 0, slug |-> name[i], id |-> i, run |-> FALSE]
<1>4. /\ \A i \in 1..Planned : /\ first(i) \in disk /\ first(i).n = i /\ first(i).d = 0
                               /\ first(i).slug = name[i]
      /\ \A x \in disk : \E i \in 1..Planned : x = first(i)
  BY <1>1
<1>5. \A i \in 1..Planned : roadmap[i].n = i /\ roadmap[i].d = 0 /\ roadmap[i].slug = name[i]
  <2>1. \A i \in 1..Planned : i \in 1..phases
    BY <1>1, <1>2
  <2> QED
    BY <1>1, <2>1
<1>6. \A v \in Versions : archive[v] = {}
  BY DEF Init
<1> HIDE DEF first
<1>7. \A i \in 1..Planned : i >= 1 /\ \A k \in 1..i : k \in 1..Planned
  BY <1>2
<1>8. Orderly
  <2>1. \A i, j \in Places : Same(roadmap[i], roadmap[j]) => i = j
    BY <1>3, <1>5 DEF Same
  <2>2. \A x, y \in disk : Same(x, y) => x = y
    BY <1>4 DEF Same
  <2>3. \A x \in disk : x.n >= 1 /\ \A k \in 1..x.n : \E y \in disk : y.n = k /\ y.d = 0
    BY <1>4, <1>7
  <2> QED
    BY <1>6, <2>1, <2>2, <2>3 DEF Orderly
<1>9. /\ \A i \in Places : Present(roadmap[i])
      /\ \A x \in disk : Listed(x)
  BY <1>3, <1>4, <1>5 DEF Present, Listed, SameName, Same
<1> QED
  BY <1>8, <1>9 DEF Init, Idle, DriftInv, Tidy

\* Where headers and directories are the same phases, `validate consistency`
\* and the lookups find them.
LEMMA TidyIsConsistent ==
  ASSUME TreeInv, Tidy
  PROVE  ValidateConsistency
<1>0. /\ Current = Places /\ \A x \in disk : x.n \in Nat /\ x.d \in Nat
  BY CurrentPlaces DEF TreeInv, DiskTyped, Dir
<1> DEFINE integers == {x.n : x \in {y \in disk : y.d = 0}}
<1>1. \A h \in extractCurrentMilestone : \E x \in disk : Same(h, x)
  BY <1>0 DEF extractCurrentMilestone, Tidy, Present, SameName
<1>2. \A x \in disk : \E h \in extractCurrentMilestone : h.n = x.n /\ h.d \in {0, x.d}
  BY <1>0 DEF extractCurrentMilestone, Tidy, Listed, SameName, Same
<1>3. ASSUME NEW k \in integers PROVE k = Min(integers) \/ k - 1 \in integers
  <2>1. PICK x \in disk : x.n = k /\ x.d = 0
    OBVIOUS
  <2>2. k \in Nat /\ k >= 1 /\ \A j \in 1..k : j \in integers
    BY <1>0, <2>1 DEF Tidy, Orderly
  <2>3. integers \subseteq Nat /\ \A j \in integers : j >= 1
    BY <1>0 DEF Tidy, Orderly
  <2> HIDE DEF integers
  <2>4. CASE k = 1
    <3>1. Min(integers) \in integers /\ \A j \in integers : Min(integers) <= j
      BY <2>3, MinIsLeast
    <3>2. PICK m \in integers : m = Min(integers)
      BY <3>1
    <3>3. m \in Nat /\ m >= 1 /\ m <= 1
      BY <2>3, <2>4, <3>1, <3>2
    <3> QED
      BY <2>4, <3>2, <3>3
  <2>5. CASE k # 1
    <3>1. k - 1 \in 1..k
      BY <2>2, <2>5
    <3> QED
      BY <2>2, <3>1
  <2> QED
    BY <2>4, <2>5
<1> QED
  BY <1>1, <1>2, <1>3 DEF ValidateConsistency

LEMMA TidyIsFound ==
  ASSUME TreeInv, Tidy
  PROVE  LookupsAgree
<1>0. /\ Current = Places /\ \A x \in disk : x.n \in Nat /\ x.d \in Nat
      /\ Places \subseteq Nat
  BY CurrentPlaces DEF TreeInv, DiskTyped, Dir
<1> SUFFICES ASSUME NEW i \in Places
             PROVE  LET h == roadmap[i]
                        found == {PhasesList(h.n, h.d), findPhaseInternal(h.n, h.d)}
                                 \cup {InitPhaseOp(h.n, h.d, form) : form \in Forms}
                    IN  /\ RoadmapGetPhase(h.n, h.d, "header") = {h}
                        /\ \A S \in found : S # {} /\ \A x \in S : SameName(h, x)
  BY <1>0 DEF LookupsAgree, extractCurrentMilestone
<1> DEFINE h == roadmap[i]
<1>1. PICK x \in disk : SameName(h, x)
  BY DEF Tidy, Present
<1>2. x.n = h.n /\ x.d = h.d
  BY <1>1 DEF SameName, Same
<1> DEFINE S == StartsWith(disk, h.n, h.d)
<1>3. x \in S /\ S \subseteq disk /\ \A y \in S : y.n = x.n /\ (x.d = 0 \/ y.d = x.d)
  BY <1>2 DEF StartsWith
<1> HIDE DEF S
<1>4. FirstOf(S) = {x}
  <2>1. x \in FirstOf(S)
    BY <1>0, <1>3 DEF FirstOf, comparePhaseNum
  <2>2. ASSUME NEW y \in FirstOf(S) PROVE y = x
    <3>1. y \in S /\ ~comparePhaseNum(x, y)
      BY <1>3, <2>2 DEF FirstOf
    <3>2. y.n = x.n /\ y.d = x.d
      BY <1>0, <1>3, <3>1 DEF comparePhaseNum
    <3> QED
      BY <1>3, <3>1, <3>2 DEF Tidy, Orderly, Same
  <2> QED
    BY <2>1, <2>2
<1>5. PhasesList(h.n, h.d) = {x} /\ findPhaseInternal(h.n, h.d) = {x}
  BY <1>3, <1>4 DEF PhasesList, findPhaseInternal, S
<1>6. \A form \in Forms : InitPhaseOp(h.n, h.d, form) = {x}
  BY <1>5 DEF InitPhaseOp
<1>7. RoadmapGetPhase(h.n, h.d, "header") = {h}
  <2> DEFINE found == {j \in Current : Matches(roadmap[j], h.n, h.d, "header")}
  <2>1. found = {i}
    BY <1>0 DEF Matches, Tidy, Orderly, Same
  <2>2. RoadmapGetPhase(h.n, h.d, "header") = {roadmap[j] : j \in {k \in found : \A l \in found : k <= l}}
    BY DEF RoadmapGetPhase
  <2> HIDE DEF found
  <2>3. {k \in found : \A l \in found : k <= l} = {i}
    BY <1>0, <2>1
  <2> QED
    BY <2>2, <2>3
<1> QED
  BY <1>1, <1>5, <1>6, <1>7

\* The header comes: `phase add` puts it last, `phase insert` behind the
\* section of its integer.
LEMMA InsertTidy ==
  ASSUME TreeInv, NEW h, Announced(h), NEW at \in 1..(Here + 1),
         Here' = Here + 1,
         \A j \in 1..(Here + 1) :
           roadmap'[j] = IF j < at THEN roadmap[j] ELSE IF j = at THEN h ELSE roadmap[j - 1],
         UNCHANGED <<disk, archive>>
  PROVE  Tidy'
<1>0. Here \in Nat
  BY CurrentPlaces DEF TreeInv
<1> DEFINE new(i) == IF i < at THEN i ELSE i + 1
<1>1. \A i \in Places : new(i) \in Places' /\ new(i) # at /\ roadmap'[new(i)] = roadmap[i]
  BY <1>0 DEF Places
<1>2. \A j \in Places' : j = at \/ \E i \in Places : j = new(i)
  <2> SUFFICES ASSUME NEW j \in Places', j # at PROVE \E i \in Places : j = new(i)
    OBVIOUS
  <2>1. CASE j < at
    <3>1. j \in Places /\ j = new(j)
      BY <1>0, <2>1 DEF Places
    <3> QED BY <3>1
  <2>2. CASE j > at
    <3>1. j - 1 \in Places /\ j = new(j - 1)
      BY <1>0, <2>2 DEF Places
    <3> QED BY <3>1
  <2> QED
    BY <1>0, <2>1, <2>2 DEF Places
<1>3. at \in Places' /\ roadmap'[at] = h
  BY <1>0 DEF Places
<1> HIDE DEF new
<1>4. /\ \A i, j \in Places : Same(roadmap[i], roadmap[j]) => i = j
      /\ \A i \in Places : ~Same(roadmap[i], h) /\ ~Same(h, roadmap[i])
  BY DEF Announced, Orderly, Same
<1>5. \A i, j \in Places' : Same(roadmap'[i], roadmap'[j]) => i = j
  BY <1>1, <1>2, <1>3, <1>4
<1>6. Orderly'
  BY <1>5 DEF Announced, Orderly
<1>7. \A i \in Places' : Present(roadmap[i])'
  BY <1>1, <1>2, <1>3 DEF Announced, Present
<1>8. \A x \in disk' : Listed(x)'
  BY <1>1, <1>2, <1>3 DEF Announced, Listed
<1> QED
  BY <1>6, <1>7, <1>8 DEF Tidy

LEMMA HeaderDrift ==
  ASSUME TreeInv, DriftInv, PhaseAddRoadmap \/ PhaseInsertRoadmap
  PROVE  DriftInv'
<1>1. /\ job'.op = "idle" /\ UNCHANGED <<disk, archive, drift>>
      /\ ~drift => Announced(job.h)
      /\ roadmap \in Seq(Header) /\ Len(roadmap) \in Nat /\ job.h \in Header
      /\ later \in BOOLEAN /\ cut \in Nat /\ later' = later /\ (later => cut <= Len(roadmap))
  BY HeadersTyped DEF PhaseAddRoadmap, PhaseInsertRoadmap, Idle, DriftInv, TreeInv, RoadmapTyped, JobTyped
<1>4. Here \in Nat /\ Here <= Len(roadmap)
  BY CurrentPlaces DEF TreeInv
<1>2. ASSUME ~drift
      PROVE  \E at \in 1..(Here + 1) :
        /\ Here' = Here + 1
        /\ \A j \in 1..(Here + 1) :
             roadmap'[j] = IF j < at THEN roadmap[j] ELSE IF j = at THEN job.h ELSE roadmap[j - 1]
  <2>1. CASE PhaseAddRoadmap
    <3> DEFINE at == Len(roadmap) + 1
    <3>1. roadmap' = Append(roadmap, job.h) /\ ~later
      BY <1>2, <2>1 DEF PhaseAddRoadmap, DriftInv
    <3>5. Here = Len(roadmap) /\ Here' = Len(roadmap')
      BY <1>1, <3>1 DEF Here
    <3>2. /\ Len(roadmap') = at /\ roadmap'[at] = job.h
          /\ \A j \in 1..Len(roadmap) : roadmap'[j] = roadmap[j]
      BY <1>1, <3>1
    <3>3. \A j \in 1..at : (j < at /\ j \in 1..Len(roadmap)) \/ (j = at /\ ~(j < at))
      BY <1>1
    <3>4. at \in 1..(Len(roadmap) + 1)
      BY <1>1
    <3> QED
      BY <3>2, <3>3, <3>4, <3>5
  <2>2. CASE PhaseInsertRoadmap
    <3>1. roadmap' = InsertAt(roadmap, job.at, job.h) /\ job.at \in 1..(Len(roadmap) + 1)
      BY <2>2 DEF PhaseInsertRoadmap, TreeInv, JobTyped
    <3>3. /\ job.at \in 1..(Here + 1) /\ (later => job.at <= cut)
          /\ cut' = IF later /\ job.at <= cut THEN cut + 1 ELSE cut
      BY <1>2, <2>2 DEF PhaseInsertRoadmap, DriftInv
    <3>2. /\ Len(InsertAt(roadmap, job.at, job.h)) = Len(roadmap) + 1
          /\ \A j \in 1..(Len(roadmap) + 1) :
               InsertAt(roadmap, job.at, job.h)[j]
                 = IF j < job.at THEN roadmap[j] ELSE IF j = job.at THEN job.h ELSE roadmap[j - 1]
      BY <1>1, <3>1, InsertAtElements
    <3>4. Here' = Here + 1
      BY <1>1, <3>1, <3>2, <3>3 DEF Here
    <3>5. \A j \in 1..(Here + 1) : j \in 1..(Len(roadmap) + 1)
      BY <1>1, <1>4
    <3> QED
      BY <3>1, <3>2, <3>3, <3>4, <3>5
  <2> QED
    BY <2>1, <2>2
<1>3. ~drift => Tidy'
  <2> SUFFICES ASSUME ~drift PROVE Tidy'
    OBVIOUS
  <2>1. PICK h : h = job.h
    OBVIOUS
  <2>2. Announced(h)
    BY <1>1, <2>1
  <2> QED
    BY <1>1, <1>2, <2>1, <2>2, InsertTidy
<1> QED
  BY <1>1, <1>3 DEF DriftInv

\* The directory of a phase with a number of its own is made.
LEMMA MakeDirDrift ==
  ASSUME TreeInv, Tidy, NEW n \in Nat, NEW d \in Nat, NEW slug \in Slugs, NEW h \in Header,
         h.n = n, h.d = d, h.slug = slug, MakeDir(n, d, slug), UNCHANGED <<roadmap, later, cut, archive>>,
         \A x \in disk : ~(x.n = n /\ x.d = d),
         n >= 1, \A k \in 1..n : (k = n /\ d = 0) \/ \E y \in disk : y.n = k /\ y.d = 0
  PROVE  Announced(h)'
<1> DEFINE z == [n |-> n, d |-> d, slug |-> slug, id |-> made + 1, run |-> FALSE]
<1>1. disk' = disk \cup {z}
  BY DEF MakeDir, SameName, Same
<1>2. z.n = n /\ z.d = d /\ z.slug = slug
  OBVIOUS
<1> HIDE DEF z
<1>3. Places' = Places /\ \A i \in Places : Present(roadmap[i]) /\ ~Same(roadmap[i], h)
  BY DEF Places, Here, Tidy, Present, SameName, Same
<1>4. Orderly'
  <2>1. \A x, y \in disk' : Same(x, y) => x = y
    BY <1>1, <1>2 DEF Tidy, Orderly, Same
  <2>2. \A x \in disk' : x.n >= 1 /\ \A k \in 1..x.n : \E y \in disk' : y.n = k /\ y.d = 0
    BY <1>1, <1>2 DEF Tidy, Orderly
  <2> QED
    BY <1>3, <2>1, <2>2 DEF Tidy, Orderly
<1>5. Present(h)' /\ \A i \in Places' : Present(roadmap[i])'
  BY <1>1, <1>2, <1>3 DEF Present, SameName, Same
<1>6. \A x \in disk' : SameName(h, x) \/ Listed(x)'
  BY <1>1, <1>2, <1>3 DEF Tidy, Listed, SameName, Same
<1> QED
  BY <1>3, <1>4, <1>5, <1>6 DEF Announced, Same

LEMMA AddDrift ==
  ASSUME TreeInv, DriftInv, NEW slug \in Slugs,
         PhaseAdd(slug) \/ \E i \in Current : PhaseInsert(i, slug)
  PROVE  DriftInv'
<1>0. /\ Here \in Nat /\ Current = Places
      /\ \A i \in Places : roadmap[i].n \in Nat /\ roadmap[i].d \in Nat
      /\ RoadmapTyped /\ DiskTyped
      /\ \A x \in disk : x.n \in Nat /\ x.d \in Nat
  BY CurrentPlaces DEF TreeInv, DiskTyped, Dir
<1>1. CASE PhaseAdd(slug)
  <2>0. PICK n \in Nat : n = NextInteger
    BY <1>0, NextIntegerIsNew
  <2> DEFINE h == [n |-> n, d |-> 0, slug |-> slug, box |-> "none"]
  <2>1. /\ job.op = "idle" /\ MakeDir(n, 0, slug) /\ job' = [op |-> "add", h |-> h]
        /\ drift' = (drift \/ later) /\ UNCHANGED <<roadmap, later, cut, archive>>
    BY <1>1, <2>0 DEF PhaseAdd, Start, Idle
  <2>2. /\ n \in Nat /\ n > 0 /\ (\A i \in Places : roadmap[i].n < n)
        /\ n = 1 \/ \E i \in Places : n = roadmap[i].n + 1
    BY <1>0, <2>0, NextIntegerIsNew
  <2>3. h \in Header /\ h.n = n /\ h.d = 0 /\ h.slug = slug
    BY <2>2 DEF Header
  <2> HIDE DEF h
  <2>4. ASSUME ~drift' PROVE Announced(h)' /\ ~later'
    <3>1. Tidy /\ ~later'
      BY <2>1, <2>4 DEF DriftInv
    <3>2. \A x \in disk : x.n < n
      BY <2>2, <3>1 DEF Tidy, Listed, SameName, Same
    <3>3. \A k \in 1..n : k = n \/ \E y \in disk : y.n = k /\ y.d = 0
      <4>1. CASE n = 1
        BY <4>1
      <4>2. ASSUME NEW i \in Places, n = roadmap[i].n + 1
            PROVE  \A k \in 1..n : k = n \/ \E y \in disk : y.n = k /\ y.d = 0
        <5>1. PICK x \in disk : x.n = roadmap[i].n
          BY <3>1 DEF Tidy, Present, SameName, Same
        <5>2. \A k \in 1..n : k = n \/ k \in 1..x.n
          BY <1>0, <2>2, <4>2, <5>1
        <5> QED
          BY <3>1, <5>2 DEF Tidy, Orderly
      <4> QED
        BY <2>2, <4>1, <4>2
    <3>4. \A x \in disk : ~(x.n = n /\ x.d = 0)
      BY <1>0, <2>2, <3>2
    <3>5. n >= 1 /\ 0 \in Nat
      BY <2>2
    <3> QED
      BY <2>1, <2>2, <2>3, <3>1, <3>3, <3>4, <3>5, MakeDirDrift
  <2>5. job'.op = "add" /\ job'.h = h
    BY <2>1
  <2> QED
    BY <2>1, <2>4, <2>5 DEF DriftInv, Announced
<1>2. ASSUME NEW i \in Places, PhaseInsert(i, slug) PROVE DriftInv'
  <2>0. PICK n \in Nat, d \in Nat : n = roadmap[i].n /\ d = NextDecimal(n)
    BY <1>0, NextDecimalIsNew
  <2> DEFINE h == [n |-> n, d |-> d, slug |-> slug, box |-> "none"]
  <2>1. /\ job.op = "idle" /\ MakeDir(n, d, slug) /\ job' = [op |-> "insert", at |-> i + 1, h |-> h]
        /\ drift' = (drift \/ (later /\ i = cut)) /\ UNCHANGED <<roadmap, later, cut, archive>>
    BY <1>2, <2>0 DEF PhaseInsert, Start, Idle
  <2>2. n \in Nat /\ d \in Nat /\ d > 0 /\ \A x \in disk : x.n = n => x.d < d
    BY <1>0, <2>0, NextDecimalIsNew
  <2>3. h \in Header /\ h.n = n /\ h.d = d /\ h.slug = slug
    BY <2>2 DEF Header
  <2> HIDE DEF h
  <2>4. ASSUME ~drift' PROVE Announced(h)'
    <3>1. Tidy
      BY <2>1, <2>4 DEF DriftInv
    <3>2. PICK x \in disk : x.n = n
      BY <2>0, <3>1 DEF Tidy, Present, SameName, Same
    <3>3. n >= 1 /\ \A k \in 1..n : \E y \in disk : y.n = k /\ y.d = 0
      BY <3>1, <3>2 DEF Tidy, Orderly
    <3>4. \A y \in disk : ~(y.n = n /\ y.d = d)
      BY <1>0, <2>2
    <3> QED
      BY <2>1, <2>2, <2>3, <3>1, <3>3, <3>4, MakeDirDrift
  <2>5. job'.op = "insert" /\ job'.h = h /\ job'.at = i + 1
    BY <2>1
  <2>6. ~drift' => job'.at \in 1..(Here' + 1) /\ (later' => job'.at <= cut')
    <3>1. Here' = Here /\ i \in 1..Here /\ (later => Here = cut)
      BY <1>2, <2>1 DEF Here, Places
    <3>2. ~drift' => ~(later /\ i = cut)
      BY <2>1
    <3>3. later' = later /\ cut' = cut
      BY <2>1
    <3> QED
      BY <1>0, <2>5, <3>1, <3>2, <3>3
  <2> QED
    BY <2>1, <2>4, <2>5, <2>6 DEF DriftInv, Announced
<1> QED
  BY <1>0, <1>1, <1>2

\* phase remove of a phase that is there.
LEMMA RemoveDrift ==
  ASSUME TreeInv, DriftInv, NEW p \in Range(roadmap) \cup disk, NEW force \in BOOLEAN, NEW form,
         PhaseRemove(p.n, p.d, force, form)
  PROVE  DriftInv'
<1> DEFINE target == FirstOf({x \in disk : x.n = p.n /\ x.d = p.d})
<1>1. PICK gone \in IF target = {} THEN {{}} ELSE {{x} : x \in target} :
        job' = [op |-> "delete", n |-> p.n, d |-> p.d, form |-> form, force |-> force,
                ids |-> {y.id : y \in gone}]
  BY DEF PhaseRemove
<1>2. /\ job.op = "idle" /\ UNCHANGED <<roadmap, later, cut, disk, archive>>
      /\ drift' = (drift \/ form # "header" \/ HasFollowers(p.n, p.d) \/ Severs(p.n, p.d, form))
  BY DEF PhaseRemove, Start, Idle
<1>3. /\ job'.op = "delete" /\ job'.n = p.n /\ job'.d = p.d /\ job'.form = form
      /\ job'.ids = {y.id : y \in gone}
  BY <1>1
<1>4. ASSUME ~drift' PROVE Doomed'
  <2>1. Tidy /\ form = "header" /\ ~HasFollowers(p.n, p.d) /\ ~Severs(p.n, p.d, form)
    BY <1>2, <1>4 DEF DriftInv
  <2>2. /\ \A x \in disk : x.n \in Nat /\ x.d \in Nat
        /\ \A x, y \in disk : x.id = y.id => x = y
        /\ p.n \in Nat /\ p.d \in Nat
    <3>1. \A h \in Range(roadmap) : h.n \in Nat /\ h.d \in Nat
      BY HeadersTyped DEF TreeInv, Range
    <3> QED
      BY <3>1 DEF TreeInv, DiskTyped, Dir
  <2>3. \A x, y \in {z \in disk : z.n = p.n /\ z.d = p.d} : x = y
    BY <2>1 DEF Tidy, Orderly, Same
  <2>4. target = {x \in disk : x.n = p.n /\ x.d = p.d}
    BY <2>2 DEF FirstOf, comparePhaseNum
  <2> HIDE DEF target
  <2>5. gone = {x \in disk : x.n = p.n /\ x.d = p.d}
    BY <2>3, <2>4
  <2>6. \A x \in disk : x.id \in job'.ids <=> (x.n = p.n /\ x.d = p.d)
    BY <1>3, <2>2, <2>5
  <2>7. \A y \in disk : (y.n = p.n => y.d <= p.d) /\ (p.d = 0 => y.n <= p.n)
    BY <2>1, <2>2 DEF HasFollowers, ToRename
  <2>8. Final(job.n, job.d)'
    BY <1>2, <1>3, <2>7 DEF Final
  <2>9. Tidy'
    BY <1>2, <2>1 DEF Tidy, Orderly, Present, Listed, Places, Here
  <2>10. ~Severs(job.n, job.d, job.form)'
    BY <1>2, <1>3, <2>1 DEF Severs, Sections
  <2>11. \A x \in disk' : x.id \in job'.ids <=> Same(x, job')
    BY <1>2, <1>3, <2>6 DEF Same
  <2> QED
    BY <1>3, <2>1, <2>8, <2>9, <2>10, <2>11 DEF Doomed, Same
<1> QED
  BY <1>3, <1>4 DEF DriftInv

\* Its directory goes; nothing is to be renamed.
LEMMA DeleteDrift ==
  ASSUME TreeInv, DriftInv, PhaseRemoveDelete
  PROVE  DriftInv'
<1> DEFINE gone == {x \in disk : x.id \in job.ids}
<1>1. /\ job.op = "delete" /\ disk' = disk \ gone /\ UNCHANGED <<roadmap, later, cut, archive, drift>>
      /\ job' = [op |-> "rename", n |-> job.n, d |-> job.d, form |-> job.form,
                 ids |-> {x.id : x \in ToRename(job.n, job.d, disk \ gone)}]
  BY DEF PhaseRemoveDelete
<1>2. /\ job'.op = "rename" /\ job'.n = job.n /\ job'.d = job.d /\ job'.form = job.form
      /\ job'.ids = {x.id : x \in ToRename(job.n, job.d, disk \ gone)}
  BY <1>1
<1>3. ASSUME ~drift PROVE Removed'
  <2>1. Doomed /\ Places' = Places
    BY <1>1, <1>3 DEF DriftInv, Places, Here
  <2>3. /\ \A y \in disk : y.n \in Nat /\ y.d \in Nat
        /\ \A y, z \in disk : y.id = z.id => y = z
        /\ \A i \in Places : roadmap[i].n \in Nat /\ roadmap[i].d \in Nat
        /\ job.n \in Nat /\ job.d \in Nat
    BY <1>1, CurrentPlaces DEF TreeInv, DiskTyped, Dir, JobTyped
  <2>4. \A y \in disk : y \in gone <=> Same(y, job)
    BY <2>1 DEF Doomed
  <2> HIDE DEF gone
  <2>5. /\ \A y \in disk : y \in disk' <=> ~(y.n = job.n /\ y.d = job.d)
        /\ disk' \subseteq disk
    BY <1>1, <2>4 DEF Same
  <2>6. /\ Tidy /\ job.form = "header" /\ ~Severs(job.n, job.d, job.form)
        /\ \A y \in disk : (y.n = job.n => y.d <= job.d) /\ (job.d = 0 => y.n <= job.n)
    BY <2>1 DEF Doomed, Final
  <2>7. job'.ids = {}
    <3>1. \A y \in disk \ gone : ~(IF job.d > 0 THEN y.n = job.n /\ y.d > job.d ELSE y.n > job.n)
      BY <2>3, <2>6
    <3>2. ToRename(job.n, job.d, disk \ gone) = {}
      BY <3>1 DEF ToRename
    <3> QED
      BY <1>2, <3>2
  <2>8. \A y \in disk' : y.n >= 1 /\ \A k \in 1..y.n : \E z \in disk' : z.n = k /\ z.d = 0
    <3> SUFFICES ASSUME NEW y \in disk', NEW k \in 1..y.n
                 PROVE  \E z \in disk' : z.n = k /\ z.d = 0
      BY <2>5, <2>6 DEF Tidy, Orderly
    <3>1. PICK z \in disk : z.n = k /\ z.d = 0
      BY <2>5, <2>6 DEF Tidy, Orderly
    <3>2. ~(z.n = job.n /\ z.d = job.d)
      <4> SUFFICES ASSUME z.n = job.n, z.d = job.d PROVE FALSE
        OBVIOUS
      <4>1. job.d = 0 /\ job.n = k /\ y \in disk /\ y.n <= job.n /\ y.n >= k
        BY <2>3, <2>5, <2>6, <3>1
      <4>2. y.n = job.n /\ y.d <= 0
        BY <2>3, <2>6, <4>1
      <4> QED
        BY <2>3, <2>5, <4>1, <4>2
    <3> QED
      BY <2>5, <3>1, <3>2
  <2>9. Orderly'
    BY <1>1, <2>1, <2>5, <2>6, <2>8 DEF Tidy, Orderly
  <2>10. \A i \in Places : Same(roadmap[i], job) \/ \E y \in disk' : SameName(roadmap[i], y)
    BY <2>5, <2>6 DEF Tidy, Present, SameName, Same
  <2>11. \A i \in Places : job.d = 0 /\ roadmap[i].d = 0 => roadmap[i].n <= job.n
    BY <2>6 DEF Tidy, Present, SameName, Same
  <2>12. ~Severs(job.n, job.d, job.form)'
    BY <1>1, <1>2, <2>6 DEF Severs, Sections
  <2>13. \A y \in disk' : ~Same(y, job) /\ Listed(y)
    BY <2>5, <2>6 DEF Tidy, Same
  <2> QED
    BY <1>1, <1>2, <2>1, <2>6, <2>7, <2>9, <2>10, <2>11, <2>12, <2>13
    DEF Removed, Present, Listed, Same
<1> QED
  BY <1>1, <1>2, <1>3 DEF DriftInv

\* Its section goes; no header is to be renumbered.
LEMMA SectionDrift ==
  ASSUME TreeInv, DriftInv, PhaseRemoveRoadmap
  PROVE  DriftInv'
<1> DEFINE rest  == DropSection(roadmap, job.n, job.d, job.form)
           found == Sections(job.n, job.d, job.form)
<1>1. /\ job.op = "rename" /\ job'.op = "count" /\ UNCHANGED <<disk, archive, drift>>
      /\ roadmap' = IF job.d = 0 THEN RenumberHeaders(rest, job.n) ELSE rest
      /\ later' = (later /\ ~Severs(job.n, job.d, job.form))
      /\ cut' = IF ~later' THEN 0 ELSE IF found # {} /\ Min(found) < cut THEN cut - 1 ELSE cut
      /\ job.n \in Nat /\ job.d \in Nat
  BY DEF PhaseRemoveRoadmap, TreeInv, JobTyped
<1>2. /\ Len(roadmap) \in Nat /\ DOMAIN roadmap = 1..Len(roadmap)
      /\ Here \in Nat /\ Here <= Len(roadmap) /\ Places = 1..Here
      /\ \A i \in Places : roadmap[i].n \in Nat /\ roadmap[i].d \in Nat
      /\ later \in BOOLEAN /\ RoadmapTyped
  BY HeadersTyped, CurrentPlaces DEF TreeInv, RoadmapTyped, Places
<1>3. /\ rest \in Seq(Header) /\ (found = {} => rest = roadmap)
      /\ found # {} =>
           /\ Min(found) \in 1..Len(roadmap)
           /\ Len(rest) = Len(roadmap) - 1
           /\ \A j \in 1..(Len(roadmap) - 1) :
                SameName(rest[j], roadmap[IF j < Min(found) THEN j ELSE j + 1])
  BY <1>2, DropTyped
<1>4. ASSUME ~drift PROVE Tidy'
  <2>1. Removed /\ later' = later /\ ~(later /\ found # {} /\ Min(found) = cut)
    BY <1>1, <1>2, <1>4 DEF DriftInv, Removed, Severs
  <2>2. \A i \in Places : Same(roadmap[i], job) <=> i \in found
    BY <1>2, <2>1 DEF Removed, Sections, Matches, Same
  <2>3. found # {} => \A i \in Places : i \in found <=> i = Min(found)
    <3> SUFFICES ASSUME found # {}, NEW i \in Places PROVE i \in found <=> i = Min(found)
      OBVIOUS
    <3>1. found \subseteq Nat
      BY <1>2 DEF Sections
    <3>2. PICK at \in found : at = Min(found) /\ \A k \in found : at <= k
      <4> HIDE DEF found
      <4> QED
        BY <3>1, MinIsLeast
    <3>3. i \in found => at \in Places
      <4>1. at \in 1..Len(roadmap)
        BY <1>2, <3>2 DEF Sections
      <4>2. i \in found => at <= i
        BY <3>2
      <4> HIDE DEF found
      <4> QED
        BY <1>2, <4>1, <4>2
    <3>4. i \in found => i = at
      BY <2>1, <2>2, <3>2, <3>3 DEF Removed, Orderly, Same
    <3> QED
      BY <3>2, <3>4
  <2>4. Len(roadmap') = Len(rest)
    BY <1>1, <1>3, RenumberTyped
  <2> HIDE DEF rest, found
  \* Each header that is left stood at a place of its own.
  <2> DEFINE Map(N, old) ==
               /\ Here' = N /\ N <= Len(rest)
               /\ \A j \in 1..N : SameName(rest[j], roadmap[old[j]]) /\ old[j] \notin found
               /\ \A j, k \in 1..N : old[j] = old[k] => j = k
               /\ \A i \in Places : i \in found \/ \E j \in 1..N : i = old[j]
  <2>10. \E N \in Nat : \E old \in [1..N -> Places] : Map(N, old)
    <3>1. CASE found = {}
      <4> DEFINE f == [j \in 1..Here |-> j]
      <4>1. rest = roadmap /\ cut' = (IF ~later THEN 0 ELSE cut) /\ Len(roadmap') = Len(roadmap)
        BY <1>1, <1>3, <2>1, <2>4, <3>1
      <4>2. Here' = Here
        BY <2>1, <4>1 DEF Here
      <4>3. f \in [1..Here -> Places] /\ \A j \in 1..Here : f[j] = j
        BY <1>2
      <4>4. \A j \in 1..Here : SameName(rest[j], roadmap[f[j]]) /\ f[j] \notin found
        BY <3>1, <4>1, <4>3 DEF SameName, Same
      <4> HIDE DEF f
      <4> QED
        BY <1>2, <4>1, <4>2, <4>3, <4>4
    <3>2. CASE found # {}
      <4>0. PICK at \in 1..Len(roadmap) : at = Min(found)
        BY <1>3, <3>2
      <4>1. /\ Len(roadmap') = Len(roadmap) - 1 /\ Len(rest) = Len(roadmap) - 1
            /\ \A j \in 1..(Len(roadmap) - 1) : SameName(rest[j], roadmap[IF j < at THEN j ELSE j + 1])
            /\ \A i \in Places : i \in found <=> i = at
            /\ cut' = (IF ~later THEN 0 ELSE IF at < cut THEN cut - 1 ELSE cut)
            /\ later => at # cut
        BY <1>1, <1>3, <2>1, <2>3, <2>4, <3>2, <4>0
      <4>2. CASE at > Here
        <5> DEFINE f == [j \in 1..Here |-> j]
        <5>1. later /\ Here = cut /\ cut' = cut
          BY <1>2, <4>0, <4>1, <4>2 DEF Here
        <5>2. Here' = Here
          BY <2>1, <5>1 DEF Here
        <5>3. f \in [1..Here -> Places] /\ \A j \in 1..Here : f[j] = j
          BY <1>2
        <5>4. \A j \in 1..Here : j \in 1..(Len(roadmap) - 1) /\ j < at /\ j # at
          BY <1>2, <4>0, <4>2
        <5>5. \A j \in 1..Here : SameName(rest[j], roadmap[f[j]]) /\ f[j] \notin found
          BY <1>2, <4>1, <5>3, <5>4
        <5> HIDE DEF f
        <5>6. Here <= Len(rest)
          BY <1>2, <4>0, <4>1, <4>2
        <5>7. \A j, k \in 1..Here : f[j] = f[k] => j = k
          BY <5>3
        <5>8. \A i \in Places : \E j \in 1..Here : i = f[j]
          BY <1>2, <5>3
        <5> QED
          BY <1>2, <5>2, <5>3, <5>5, <5>6, <5>7, <5>8
      <4>3. CASE at <= Here
        <5> DEFINE M == Here - 1
                   f == [j \in 1..M |-> IF j < at THEN j ELSE j + 1]
        <5>1. Here' = M
          <6>1. CASE later
            BY <1>2, <2>1, <4>1, <4>3, <6>1 DEF Here
          <6>2. CASE ~later
            BY <1>2, <2>1, <4>1, <6>2 DEF Here
          <6> QED
            BY <6>1, <6>2
        <5>2. M \in Nat /\ M <= Len(rest)
          BY <1>2, <4>0, <4>1, <4>3
        <5>3. \A j \in 1..M : /\ j \in Places /\ j + 1 \in Places /\ j \in 1..(Len(roadmap) - 1)
                              /\ f[j] = (IF j < at THEN j ELSE j + 1)
          BY <1>2
        <5>4. f \in [1..M -> Places]
          BY <5>3
        <5>5. \A j \in 1..M : SameName(rest[j], roadmap[f[j]]) /\ f[j] # at /\ f[j] \in Places
          BY <4>0, <4>1, <5>3
        <5>6. \A j, k \in 1..M : f[j] = f[k] => j = k
          BY <4>0, <5>3
        <5>7. \A i \in Places : i = at \/ \E j \in 1..M : i = f[j]
          <6> SUFFICES ASSUME NEW i \in Places, i # at PROVE \E j \in 1..M : i = f[j]
            OBVIOUS
          <6>1. CASE i < at
            <7>1. i \in 1..M /\ i = f[i]
              BY <1>2, <4>0, <4>3, <6>1
            <7> QED BY <7>1
          <6>2. CASE i > at
            <7>1. i - 1 \in 1..M /\ i = f[i - 1]
              BY <1>2, <4>0, <6>2
            <7> QED BY <7>1
          <6> QED
            BY <1>2, <4>0, <6>1, <6>2
        <5> HIDE DEF M, f
        <5>8. \A j \in 1..M : SameName(rest[j], roadmap[f[j]]) /\ f[j] \notin found
          BY <4>1, <5>5
        <5>9. \A i \in Places : i \in found \/ \E j \in 1..M : i = f[j]
          BY <4>1, <5>7
        <5>10. Map(M, f)
          BY <5>1, <5>2, <5>6, <5>8, <5>9
        <5> HIDE DEF Map
        <5> QED
          BY <5>2, <5>4, <5>10
      <4>4. at > Here \/ at <= Here
        BY <1>2, <4>0
      <4> HIDE DEF Map
      <4> QED
        BY <4>2, <4>3, <4>4
    <3> QED
      BY <3>1, <3>2
  <2>5. PICK N \in Nat : \E old \in [1..N -> Places] : Map(N, old)
    BY <2>10
  <2>11. PICK old \in [1..N -> Places] : Map(N, old)
    BY <2>5
  <2>6. Places' = 1..N /\ \A j \in 1..N : SameName(roadmap'[j], roadmap[old[j]])
    <3>1. \A j \in 1..N : job.d = 0 => ~(rest[j].d = 0 /\ rest[j].n > job.n)
      <4> SUFFICES ASSUME NEW j \in 1..N, job.d = 0, rest[j].d = 0, rest[j].n > job.n PROVE FALSE
        OBVIOUS
      <4>1. PICK i \in Places : SameName(rest[j], roadmap[i])
        BY <2>11
      <4>2. roadmap[i].d = 0 /\ roadmap[i].n > job.n
        BY <4>1 DEF SameName, Same
      <4>3. roadmap[i].n <= job.n
        BY <2>1, <4>2 DEF Removed
      <4> QED
        BY <1>1, <1>2, <4>2, <4>3
    <3>2. Len(rest) \in Nat
      BY <1>3, LenProperties
    <3>3. \A j \in 1..N : j \in 1..Len(rest)
      BY <2>11, <3>2
    <3>4. \A j \in 1..N : roadmap'[j] = rest[j]
      BY <1>1, <1>3, <3>1, <3>3, RenumberTyped
    <3> QED
      BY <2>11, <3>4 DEF Places
  <2>7. Orderly'
    <3>1. \A j, k \in Places' : Same(roadmap'[j], roadmap'[k]) => j = k
      <4> SUFFICES ASSUME NEW j \in Places', NEW k \in Places', Same(roadmap'[j], roadmap'[k])
                   PROVE  j = k
        OBVIOUS
      <4>1. Same(roadmap[old[j]], roadmap[old[k]])
        BY <2>6 DEF SameName, Same
      <4>2. old[j] = old[k]
        BY <2>1, <2>11, <2>6, <4>1 DEF Removed, Orderly
      <4> QED
        BY <2>11, <2>6, <4>2
    <3> QED
      BY <1>1, <2>1, <3>1 DEF Removed, Orderly
  <2>8. \A j \in Places' : Present(roadmap[j])'
    <3> SUFFICES ASSUME NEW j \in Places' PROVE Present(roadmap[j])'
      OBVIOUS
    <3>1. old[j] \in Places /\ ~Same(roadmap[old[j]], job)
      BY <2>2, <2>11, <2>6
    <3>2. PICK x \in disk : SameName(roadmap[old[j]], x)
      BY <2>1, <3>1 DEF Removed, Present
    <3> QED
      BY <1>1, <2>6, <3>2 DEF Present, SameName, Same
  <2>9. \A x \in disk' : Listed(x)'
    <3> SUFFICES ASSUME NEW x \in disk PROVE Listed(x)'
      BY <1>1
    <3>1. PICK i \in Places : SameName(roadmap[i], x)
      BY <2>1 DEF Removed, Listed
    <3>2. i \notin found
      BY <2>1, <2>2, <3>1 DEF Removed, SameName, Same
    <3>3. PICK j \in 1..N : i = old[j]
      BY <2>11, <3>2
    <3> QED
      BY <2>6, <3>1, <3>3 DEF Listed, SameName, Same
  <2> QED
    BY <2>7, <2>8, <2>9 DEF Tidy
<1> QED
  BY <1>1, <1>4 DEF DriftInv

\* phase complete ticks a box.
LEMMA CompleteDrift ==
  ASSUME TreeInv, DriftInv, NEW n, NEW d, NEW form, PhaseComplete(n, d, form)
  PROVE  DriftInv'
<1> DEFINE open == {i \in DOMAIN roadmap : roadmap[i].box = "open" /\ Matches(roadmap[i], n, d, form)}
<1>1. /\ roadmap' = [i \in DOMAIN roadmap |->
                       IF open # {} /\ i = Min(open) THEN [roadmap[i] EXCEPT !.box = "done"]
                       ELSE roadmap[i]]
      /\ job.op = "idle" /\ job'.op = "advance" /\ UNCHANGED <<later, cut, disk, archive, drift>>
  BY DEF PhaseComplete, Start, Idle
<1>2. /\ Len(roadmap) \in Nat /\ DOMAIN roadmap = 1..Len(roadmap)
      /\ \A i \in 1..Len(roadmap) : roadmap[i] \in Header
      /\ \A i \in Places : i \in 1..Len(roadmap)
  BY HeadersTyped, CurrentPlaces DEF TreeInv
<1> HIDE DEF open
<1>3. \A i \in 1..Len(roadmap) : /\ [roadmap[i] EXCEPT !.box = "done"] \in Header
                        /\ SameName([roadmap[i] EXCEPT !.box = "done"], roadmap[i])
                        /\ SameName(roadmap[i], roadmap[i])
  BY <1>2 DEF Header, SameName, Same
<1>4. roadmap' \in [1..Len(roadmap) -> Header] /\ \A i \in Places : SameName(roadmap'[i], roadmap[i])
  BY <1>1, <1>2, <1>3
<1>5. Places' = Places
  <2>1. Len(roadmap') = Len(roadmap)
    BY <1>2, <1>4, SameLength
  <2> QED
    BY <1>1, <2>1 DEF Places, Here
<1>6. ASSUME ~drift PROVE Tidy'
  <2>1. Tidy
    BY <1>1, <1>6 DEF DriftInv
  <2>2. Orderly'
    BY <1>1, <1>4, <1>5, <2>1 DEF Tidy, Orderly, SameName, Same
  <2>3. \A i \in Places' : Present(roadmap[i])'
    <3> SUFFICES ASSUME NEW i \in Places PROVE Present(roadmap[i])'
      BY <1>5
    <3>1. PICK x \in disk : SameName(roadmap[i], x)
      BY <2>1 DEF Tidy, Present
    <3>2. SameName(roadmap'[i], x) /\ x \in disk'
      BY <1>1, <1>4, <3>1 DEF SameName, Same
    <3> QED
      BY <3>2 DEF Present
  <2>4. \A x \in disk' : Listed(x)'
    BY <1>1, <1>4, <1>5, <2>1 DEF Tidy, Listed, SameName, Same
  <2> QED
    BY <2>2, <2>3, <2>4 DEF Tidy
<1> QED
  BY <1>1, <1>6 DEF DriftInv

\* A SUMMARY changes nothing about the phase it is written for.
LEMMA SummaryDrift ==
  ASSUME TreeInv, DriftInv, NEW x \in disk, WriteSummary(x)
  PROVE  DriftInv'
<1> DEFINE z == [x EXCEPT !.run = TRUE]
<1>1. /\ disk' = (disk \ {x}) \cup {z} /\ UNCHANGED <<roadmap, later, cut, archive, job, drift>>
  BY DEF WriteSummary
<1>2. SameName(z, x) /\ z.id = x.id
  BY DEF TreeInv, DiskTyped, Dir, SameName, Same
<1> HIDE DEF z
<1>3. /\ \A y \in disk : \E w \in disk' : SameName(w, y) /\ w.id = y.id
      /\ \A w \in disk' : \E y \in disk : SameName(w, y) /\ w.id = y.id
  BY <1>1, <1>2 DEF SameName, Same
<1>4. Places' = Places /\ Here' = Here /\ (Severs(job.n, job.d, job.form) <=> Severs(job.n, job.d, job.form)')
  BY <1>1 DEF Places, Here, Severs, Sections
<1>5. Orderly => Orderly'
  <2> SUFFICES ASSUME Orderly PROVE Orderly'
    OBVIOUS
  <2>1. \A y, w \in disk' : Same(y, w) => y = w
    BY <1>1, <1>2 DEF Orderly, SameName, Same
  <2>2. \A w \in disk' : w.n >= 1 /\ \A k \in 1..w.n : \E y \in disk' : y.n = k /\ y.d = 0
    <3> SUFFICES ASSUME NEW w \in disk'
                 PROVE  w.n >= 1 /\ \A k \in 1..w.n : \E y \in disk' : y.n = k /\ y.d = 0
      OBVIOUS
    <3>1. PICK y \in disk : w.n = y.n
      BY <1>3 DEF SameName, Same
    <3>2. y.n >= 1 /\ \A k \in 1..y.n : \E u \in disk : u.n = k /\ u.d = 0
      BY DEF Orderly
    <3>3. \A u \in disk : \E v \in disk' : v.n = u.n /\ v.d = u.d
      BY <1>3 DEF SameName, Same
    <3> QED
      BY <3>1, <3>2, <3>3
  <2> QED
    BY <1>1, <1>4, <2>1, <2>2 DEF Orderly
<1>6. \A h : Present(h) => \E w \in disk' : SameName(h, w)
  BY <1>3 DEF Present, SameName, Same
<1>7. \A w \in disk' : \E y \in disk : /\ SameName(w, y) /\ w.id = y.id
                                       /\ Listed(y) => Listed(w)
                                       /\ \A h : SameName(h, y) => SameName(h, w)
  BY <1>3 DEF Listed, SameName, Same
<1>8. Tidy => Tidy'
  BY <1>1, <1>4, <1>5, <1>6, <1>7 DEF Tidy, Present, Listed
<1>9. Announced(job.h) => Announced(job.h)'
  <2> SUFFICES ASSUME Announced(job.h) PROVE Announced(job.h)'
    OBVIOUS
  <2>1. PICK h : h = job.h
    OBVIOUS
  <2>2. /\ Orderly /\ \A i \in Places : Present(roadmap[i]) /\ ~Same(roadmap[i], h)
        /\ Present(h) /\ \A y \in disk : SameName(h, y) \/ Listed(y)
    BY <2>1 DEF Announced
  <2>3. \A w \in disk' : SameName(h, w) \/ Listed(w)
    BY <1>7, <2>2
  <2> QED
    BY <1>1, <1>4, <1>5, <1>6, <2>1, <2>2, <2>3 DEF Announced, Present, Listed
<1>10. Doomed => Doomed'
  <2> SUFFICES ASSUME Doomed PROVE Doomed'
    OBVIOUS
  <2>1. \A w \in disk' : (w.n = job.n => w.d <= job.d) /\ (job.d = 0 => w.n <= job.n)
    BY <1>3 DEF Doomed, Final, SameName, Same
  <2>2. \A w \in disk' : w.id \in job.ids <=> Same(w, job)
    BY <1>3 DEF Doomed, SameName, Same
  <2> QED
    BY <1>1, <1>4, <1>8, <2>1, <2>2 DEF Doomed, Final, Same
<1>11. Removed => Removed'
  <2> SUFFICES ASSUME Removed PROVE Removed'
    OBVIOUS
  <2>1. \A w \in disk' : ~Same(w, job) /\ Listed(w)
    BY <1>7 DEF Removed, SameName, Same
  <2>2. \A i \in Places : Same(roadmap[i], job) \/ \E w \in disk' : SameName(roadmap[i], w)
    BY <1>6 DEF Removed
  <2> QED
    BY <1>1, <1>4, <1>5, <2>1, <2>2 DEF Removed, Present, Listed, Same
<1> QED
  BY <1>1, <1>4, <1>8, <1>9, <1>10, <1>11 DEF DriftInv

\* The remaining steps: they end a command, or part ROADMAP.md from the disk
\* and say so.
LEMMA OtherDrift ==
  ASSUME TreeInv, DriftInv,
         \/ PhaseRemoveRename \/ PhaseRemoveState \/ PhaseCompleteState \/ ArchivePhase
         \/ (\E v \in Versions : MilestoneComplete(v)) \/ Kill \/ UNCHANGED vars
  PROVE  DriftInv'
<1>1. CASE PhaseRemoveRename
  <2>1. job.op = "rename" /\ job.ids # {} /\ UNCHANGED drift
    BY <1>1 DEF PhaseRemoveRename
  <2>2. job'.op = "rename"
    BY <1>1, <2>1 DEF PhaseRemoveRename, TreeInv, JobTyped
  <2>3. drift
    BY <2>1 DEF DriftInv, Removed
  <2> QED
    BY <2>1, <2>2, <2>3 DEF DriftInv
<1>2. CASE PhaseRemoveState \/ PhaseCompleteState
  <2>1. /\ job.op \in {"count", "advance"} /\ job'.op = "idle"
        /\ UNCHANGED <<roadmap, later, cut, disk, archive, drift>>
    <3>1. CASE PhaseRemoveState
      BY <3>1 DEF PhaseRemoveState, Idle
    <3>2. CASE PhaseCompleteState
      <4>1. job.op = "advance" /\ job' = Idle /\ UNCHANGED <<roadmap, later, cut, disk, archive, drift>>
        BY <3>2, Zenon DEF PhaseCompleteState
      <4> QED
        BY <4>1 DEF Idle
    <3> QED
      BY <1>2, <3>1, <3>2
  <2>2. Tidy => Tidy'
    BY <2>1 DEF Tidy, Orderly, Present, Listed, Places, Here
  <2> QED
    BY <2>1, <2>2 DEF DriftInv
<1>3. CASE ArchivePhase
  <2>1. job.op = "archive" /\ UNCHANGED drift /\ drift
    BY <1>3 DEF ArchivePhase, DriftInv
  <2>2. job'.op \in {"idle", "archive"}
    BY <1>3, <2>1 DEF ArchivePhase, Idle, TreeInv, JobTyped
  <2> QED
    BY <2>1, <2>2 DEF DriftInv
<1>4. CASE (\E v \in Versions : MilestoneComplete(v)) \/ Kill
  <2>1. drift' /\ job'.op \in {"idle", "archive"}
    BY <1>4 DEF MilestoneComplete, Kill, Idle
  <2> QED
    BY <2>1 DEF DriftInv
<1>5. CASE UNCHANGED vars
  <2>1. UNCHANGED <<roadmap, later, cut, disk, archive, job, drift>>
    BY <1>5 DEF vars
  <2>2. /\ Places' = Places /\ Here' = Here /\ (Orderly => Orderly')
        /\ Severs(job.n, job.d, job.form) <=> Severs(job.n, job.d, job.form)'
    BY <2>1 DEF Orderly, Places, Here, Severs, Sections
  <2>3. Tidy => Tidy'
    BY <2>1, <2>2 DEF Tidy, Present, Listed
  <2>4. Announced(job.h) => Announced(job.h)'
    BY <2>1, <2>2 DEF Announced, Present, Listed
  <2>5. Doomed => Doomed'
    BY <2>1, <2>2, <2>3 DEF Doomed, Final, Same
  <2>6. Removed => Removed'
    BY <2>1, <2>2 DEF Removed, Present, Listed, Same
  <2> QED
    BY <2>1, <2>2, <2>3, <2>4, <2>5, <2>6 DEF DriftInv
<1> QED
  BY <1>1, <1>2, <1>3, <1>4, <1>5

\* ROADMAP.md and the disk, as `validate consistency` and the lookups see
\* them, part only through a killed command, an archived milestone, a removal
\* that leaves phases behind or is given the number in another form, or, where
\* a later milestone's section follows, a phase added, inserted behind the
\* last phase of the current one, or removed as the last of it (cmdPhaseAdd,
\* cmdPhaseInsert, cmdPhaseRemove, extractCurrentMilestone, findPhaseInternal).
THEOREM DriftIsExplained == Spec => []DriftExplained
<1>1. Init => TreeInv /\ DriftInv
  BY TreeInit, DriftInit
<1>2. TreeInv /\ DriftInv /\ [Next]_vars => (TreeInv /\ DriftInv)'
  <2> SUFFICES ASSUME TreeInv, DriftInv, [Next]_vars PROVE TreeInv' /\ DriftInv'
    OBVIOUS
  <2>1. TreeInv'
    BY TreeStep
  <2>2. CASE NumberedCommand
    BY <2>1, <2>2, CompleteDrift, RemoveDrift DEF NumberedCommand
  <2>3. DriftInv'
    BY <2>2, AddDrift, HeaderDrift, DeleteDrift, SectionDrift, SummaryDrift, OtherDrift DEF Next
  <2> QED
    BY <2>1, <2>3
<1>3. TreeInv /\ DriftInv => DriftExplained
  <2>1. TreeInv /\ DriftInv /\ job = Idle /\ ~drift => Tidy
    BY DEF DriftInv, Idle
  <2> QED
    BY <2>1, TidyIsConsistent, TidyIsFound DEF DriftExplained
<1> QED
  BY <1>1, <1>2, <1>3, PTL DEF Spec
=============================================================================
