---------------------- MODULE OfflineDescriptorsProofs ----------------------
(***************************************************************************)
(* Proofs about OfflineDescriptors: first what the operations on one list  *)
(* of free ranges do, then the inductive invariant of the manager, and that *)
(* it implements SlotPool.                                                 *)
(***************************************************************************)
EXTENDS OfflineDescriptors, SequenceTheorems, TLAPS

\* A slot is in one of the ranges of a list
InList(list, s) == \E j \in 1 .. Len(list) : Covers(list[j], s)

LEMMA RangeFields ==
  ASSUME NEW r \in Ranges
  PROVE  /\ r.start \in Places /\ r.end \in 1 .. NumDescriptors
         /\ r.start \in Int /\ r.end \in Int
BY SizesAssumption DEF Ranges, Places

LEMMA OneSlotRange ==
  ASSUME NEW s \in Places
  PROVE  FreeRange(s, s + 1) \in Ranges
BY SizesAssumption DEF Ranges, Places, FreeRange

LEMMA SeqIntro ==
  ASSUME NEW n \in Nat, NEW S, NEW f \in [1 .. n -> S]
  PROVE  f \in Seq(S) /\ Len(f) = n
BY SeqDef

\* AllocateHeapSlot takes exactly the first slot of the first range.
LEMMA TakeFirstExact ==
  ASSUME NEW list \in Seq(Ranges), list # <<>>, Ascending(list)
  PROVE  /\ TakeFirst(list) \in Seq(Ranges)
         /\ Ascending(TakeFirst(list))
         /\ list[1].start \in Places
         /\ InList(list, list[1].start)
         /\ \A s \in Places :
              InList(TakeFirst(list), s)
                <=> InList(list, s) /\ s # list[1].start
<1> DEFINE first == list[1]
<1>1. Len(list) \in Nat \ {0} /\ 1 \in 1 .. Len(list)
  BY EmptySeq
<1>2. \A j \in 1 .. Len(list) : list[j] \in Ranges
  BY ElementOfSeq
<1>3. /\ \A j \in 1 .. Len(list) :
           /\ list[j].start \in Places /\ list[j].end \in 1 .. NumDescriptors
           /\ list[j].start \in Int /\ list[j].end \in Int
      /\ \A j \in 1 .. Len(list) : list[j].start < list[j].end
      /\ \A j, k \in 1 .. Len(list) : j < k => list[j].end <= list[k].start
  BY <1>2, RangeFields DEF Ascending
<1>4. InList(list, first.start)
  BY <1>1, <1>3 DEF InList, Covers
<1>5. CASE first.start + 1 = first.end
  <2>1. TakeFirst(list) = Tail(list)
    BY <1>5 DEF TakeFirst
  <2>2. /\ Tail(list) \in Seq(Ranges) /\ Len(Tail(list)) = Len(list) - 1
        /\ \A j \in 1 .. Len(list) - 1 : Tail(list)[j] = list[j + 1]
    BY HeadTailProperties
  <2>3. Ascending(Tail(list))
    BY <1>1, <1>3, <2>2 DEF Ascending
  <2>4. ASSUME NEW s \in Places
        PROVE  InList(Tail(list), s) <=> InList(list, s) /\ s # first.start
    <3> s \in Int
      BY DEF Places
    <3>1. ASSUME InList(Tail(list), s)
          PROVE  InList(list, s) /\ s # first.start
      <4>1. PICK j \in 1 .. Len(list) - 1 : Covers(list[j + 1], s)
        BY <2>2, <3>1 DEF InList
      <4>2. j + 1 \in 1 .. Len(list) /\ 1 < j + 1
        BY <1>1
      <4>3. first.start < list[j + 1].start
        BY <1>1, <1>3, <4>2
      <4>4. s # first.start
        BY <1>1, <1>3, <4>1, <4>2, <4>3 DEF Covers
      <4> QED
        BY <4>1, <4>2, <4>4 DEF InList
    <3>2. ASSUME InList(list, s), s # first.start
          PROVE  InList(Tail(list), s)
      <4>1. PICK j \in 1 .. Len(list) : Covers(list[j], s)
        BY <3>2 DEF InList
      <4>2. j # 1
        BY <1>1, <1>3, <1>5, <3>2, <4>1 DEF Covers
      <4>3. j - 1 \in 1 .. Len(list) - 1 /\ Tail(list)[j - 1] = list[j]
        BY <1>1, <2>2, <4>2
      <4> QED
        BY <2>2, <4>1, <4>3 DEF InList
    <3> QED
      BY <3>1, <3>2
  <2> QED
    BY <1>1, <1>3, <1>4, <2>1, <2>2, <2>3, <2>4
<1>6. CASE first.start + 1 # first.end
  <2> DEFINE less == [first EXCEPT !.start = @ + 1]
             result == [list EXCEPT ![1] = less]
  <2>1. TakeFirst(list) = result
    BY <1>6 DEF TakeFirst
  <2>2. first \in Ranges
    BY <1>1, <1>2
  <2>3. /\ less \in Ranges /\ less.start = first.start + 1
        /\ less.end = first.end /\ less.start < less.end
    <3>1. /\ first.start \in Places /\ first.end \in 1 .. NumDescriptors
          /\ first.start < first.end /\ first.start + 1 # first.end
      BY <1>1, <1>3, <1>6
    <3>2. first.start + 1 \in Places /\ first.start + 1 < first.end
      BY <3>1, SizesAssumption DEF Places
    <3>3. less = [start |-> first.start + 1, end |-> first.end]
      BY <2>2 DEF Ranges
    <3> QED
      BY <3>1, <3>2, <3>3 DEF Ranges
  <2> HIDE DEF less
  <2>4. /\ result \in Seq(Ranges) /\ Len(result) = Len(list)
        /\ \A j \in 1 .. Len(list) :
             result[j] = IF j = 1 THEN less ELSE list[j]
    BY <1>1, <2>3, ExceptSeq
  <2> HIDE DEF result
  <2>5. Ascending(result)
    <3>1. \A j \in 1 .. Len(list) :
            /\ result[j].end = list[j].end
            /\ result[j].start < result[j].end
            /\ list[j].start <= result[j].start
      BY <1>1, <1>3, <2>3, <2>4
    <3>2. \A j, k \in 1 .. Len(list) :
            j < k => result[k].start = list[k].start
      BY <1>1, <2>4
    <3> QED
      BY <1>3, <2>4, <3>1, <3>2 DEF Ascending
  <2>6. ASSUME NEW s \in Places
        PROVE  InList(result, s) <=> InList(list, s) /\ s # first.start
    <3> s \in Int
      BY DEF Places
    <3>1. \A j \in 1 .. Len(list) :
            j # 1 => first.end <= list[j].start /\ first.start < first.end
      BY <1>1, <1>3
    <3>2. \A j \in 1 .. Len(list) :
            Covers(result[j], s) <=> Covers(list[j], s) /\ s # first.start
      BY <1>1, <1>3, <2>3, <2>4, <3>1 DEF Covers
    <3> QED
      BY <2>4, <3>2 DEF InList
  <2> QED
    BY <1>1, <1>3, <1>4, <2>1, <2>4, <2>5, <2>6
<1> QED
  BY <1>5, <1>6


\* `result' is a list of free ranges that has the slots of `list' and s
AddsSlot(list, s, result) ==
  /\ result \in Seq(Ranges) /\ Ascending(result) /\ result # <<>>
  /\ \A t \in Places : InList(result, t) <=> InList(list, t) \/ t = s

\* The range `wide' covers s too and overlaps no other than the k-th
Widens(list, s, k, wide) ==
  /\ wide \in Ranges /\ wide.start < wide.end
  /\ \A t \in Places : Covers(wide, t) <=> Covers(list[k], t) \/ t = s
  /\ \A j \in 1 .. k - 1 : list[j].end <= wide.start
  /\ \A j \in k + 1 .. Len(list) : wide.end <= list[j].start

\* There is room for s before the k-th range
Between(list, s, k) ==
  /\ \A j \in 1 .. k - 1 : list[j].end <= s
  /\ \A j \in k .. Len(list) : s + 1 <= list[j].start

\* A range changed so that it also covers s, which no other range touches.
LEMMA WidenExact ==
  ASSUME NEW list \in Seq(Ranges), Ascending(list),
         NEW s \in Places, NEW k \in 1 .. Len(list), NEW wide,
         Widens(list, s, k, wide)
  PROVE  AddsSlot(list, s, [list EXCEPT ![k] = wide])
<1> DEFINE result == [list EXCEPT ![k] = wide]
<1> USE DEF Widens
<1>1. /\ result \in Seq(Ranges) /\ Len(result) = Len(list)
      /\ \A j \in 1 .. Len(list) : result[j] = IF j = k THEN wide ELSE list[j]
  BY ExceptSeq
<1>2. Len(list) \in Nat /\ result # <<>>
  BY <1>1, LenProperties, EmptySeq
<1> HIDE DEF result
<1>3. Ascending(result)
  <2>1. \A j \in 1 .. Len(list) : result[j].start < result[j].end
    BY <1>1 DEF Ascending
  <2>2. ASSUME NEW i \in 1 .. Len(list), NEW j \in 1 .. Len(list), i < j
        PROVE  result[i].end <= result[j].start
    <3>1. CASE i = k
      BY <1>1, <1>2, <2>2, <3>1
    <3>2. CASE j = k
      BY <1>1, <1>2, <2>2, <3>2
    <3>3. CASE i # k /\ j # k
      BY <1>1, <2>2, <3>3 DEF Ascending
    <3> QED
      BY <3>1, <3>2, <3>3
  <2> QED
    BY <1>1, <2>1, <2>2 DEF Ascending
<1>4. ASSUME NEW t \in Places
      PROVE  InList(result, t) <=> InList(list, t) \/ t = s
  <2>1. \A j \in 1 .. Len(list) :
          Covers(result[j], t) <=> Covers(list[j], t) \/ (j = k /\ t = s)
    BY <1>1
  <2> QED
    BY <1>1, <2>1 DEF InList
<1> QED
  BY <1>1, <1>2, <1>3, <1>4 DEF result, AddsSlot

\* A range of its own for s, between two others.
LEMMA InsertExact ==
  ASSUME NEW list \in Seq(Ranges), Ascending(list),
         NEW s \in Places, NEW k \in 1 .. Len(list) + 1, Between(list, s, k)
  PROVE  AddsSlot(list, s, InsertAt(list, k, FreeRange(s, s + 1)))
<1> DEFINE new == FreeRange(s, s + 1)
           result == InsertAt(list, k, new)
<1> USE DEF Between
<1>1. /\ Len(list) \in Nat
      /\ \A j \in 1 .. Len(list) : list[j] \in Ranges
  BY LenProperties, ElementOfSeq
<1>2. new \in Ranges /\ new.start = s /\ new.end = s + 1 /\ s \in Int
  BY OneSlotRange DEF FreeRange, Places
<1> HIDE DEF new
<1>3. result \in [1 .. Len(list) + 1 -> Ranges]
  BY <1>1, <1>2 DEF InsertAt
<1>4. /\ \A i \in 1 .. k - 1 : result[i] = list[i]
      /\ result[k] = new
      /\ \A i \in k + 1 .. Len(list) + 1 : result[i] = list[i - 1]
  BY <1>1 DEF InsertAt
<1> HIDE DEF result
<1>5. result \in Seq(Ranges) /\ Len(result) = Len(list) + 1 /\ result # <<>>
  BY <1>1, <1>3, SeqIntro, EmptySeq
<1>6. \A j \in 1 .. Len(list) :
        /\ list[j].start \in Int /\ list[j].end \in Int
        /\ list[j].start < list[j].end
  BY <1>1, RangeFields DEF Ascending
<1>7. Ascending(result)
  <2>1. ASSUME NEW i \in 1 .. Len(list) + 1
        PROVE  result[i].start < result[i].end
    <3>1. CASE i < k
      BY <1>1, <1>4, <1>6, <3>1
    <3>2. CASE i = k
      BY <1>2, <1>4, <3>2
    <3>3. CASE i > k
      BY <1>1, <1>4, <1>6, <3>3
    <3> QED
      BY <3>1, <3>2, <3>3
  <2>2. ASSUME NEW i \in 1 .. Len(list) + 1, NEW j \in 1 .. Len(list) + 1,
               i < j
        PROVE  result[i].end <= result[j].start
    <3>1. CASE j < k
      BY <1>1, <1>4, <2>2, <3>1 DEF Ascending
    <3>2. CASE j = k
      <4>1. result[j].start = s /\ i \in 1 .. k - 1
        BY <1>1, <1>2, <1>4, <2>2, <3>2
      <4>2. result[i] = list[i] /\ list[i].end <= s
        BY <1>4, <4>1
      <4> QED
        BY <4>1, <4>2
    <3>3. CASE j > k /\ i = k
      <4>1. result[j] = list[j - 1] /\ j - 1 \in k .. Len(list)
        BY <1>1, <1>4, <3>3
      <4> QED
        BY <1>2, <1>4, <3>3, <4>1
    <3>4. CASE j > k /\ i < k
      <4>1. result[i] = list[i] /\ result[j] = list[j - 1]
        BY <1>1, <1>4, <2>2, <3>4
      <4>2. list[i].end <= s /\ s + 1 <= list[j - 1].start
        BY <1>1, <2>2, <3>4
      <4> QED
        BY <1>1, <1>2, <1>6, <2>2, <3>4, <4>1, <4>2
    <3>5. CASE i > k
      <4>1. result[i] = list[i - 1] /\ result[j] = list[j - 1] /\ i - 1 < j - 1
            /\ i - 1 \in 1 .. Len(list) /\ j - 1 \in 1 .. Len(list)
        BY <1>1, <1>4, <2>2, <3>5
      <4> QED
        BY <4>1 DEF Ascending
    <3> QED
      BY <2>2, <3>1, <3>2, <3>3, <3>4, <3>5
  <2> QED
    BY <1>5, <2>1, <2>2 DEF Ascending
<1>8. ASSUME NEW t \in Places
      PROVE  InList(result, t) <=> InList(list, t) \/ t = s
  <2> t \in Int
    BY DEF Places
  <2>1. ASSUME InList(result, t) PROVE InList(list, t) \/ t = s
    <3>1. PICK i \in 1 .. Len(list) + 1 : Covers(result[i], t)
      BY <1>5, <2>1 DEF InList
    <3>2. CASE i = k
      BY <1>2, <1>4, <3>1, <3>2 DEF Covers
    <3>3. CASE i < k
      BY <1>1, <1>4, <3>1, <3>3 DEF InList
    <3>4. CASE i > k
      <4>1. i - 1 \in 1 .. Len(list) /\ result[i] = list[i - 1]
        BY <1>1, <1>4, <3>4
      <4> QED
        BY <3>1, <4>1 DEF InList
    <3> QED
      BY <3>2, <3>3, <3>4
  <2>2. ASSUME InList(list, t) PROVE InList(result, t)
    <3>1. PICK j \in 1 .. Len(list) : Covers(list[j], t)
      BY <2>2 DEF InList
    <3>2. \E i \in 1 .. Len(list) + 1 : result[i] = list[j]
      <4>1. CASE j < k
        BY <1>1, <1>4, <4>1
      <4>2. CASE j >= k
        <5>1. j + 1 \in k + 1 .. Len(list) + 1
          BY <1>1, <4>2
        <5>2. result[j + 1] = list[(j + 1) - 1] /\ (j + 1) - 1 = j
          BY <1>4, <5>1
        <5> QED
          BY <1>1, <5>2
      <4> QED
        BY <4>1, <4>2
    <3> QED
      BY <1>5, <3>1, <3>2 DEF InList
  <2>3. ASSUME t = s PROVE InList(result, t)
    <3>1. Covers(result[k], t)
      BY <1>2, <1>4, <2>3 DEF Covers
    <3>2. k \in 1 .. Len(result)
      BY <1>1, <1>5
    <3> QED
      BY <3>1, <3>2 DEF InList
  <2> QED
    BY <2>1, <2>2, <2>3
<1> QED
  BY <1>5, <1>7, <1>8 DEF result, new, AddsSlot


\* FreeHeapSlot stops at a range and widens it, or puts one before it.
LEMMA FreedAtExact ==
  ASSUME NEW list \in Seq(Ranges), Ascending(list),
         NEW s \in Places, ~ InList(list, s),
         NEW k \in 1 .. Len(list), Stops(list[k], s),
         \A j \in 1 .. k - 1 : ~ Stops(list[j], s)
  PROVE  AddsSlot(list, s, FreedAt(list, s, k))
<1> DEFINE r == list[k]
<1>1. Len(list) \in Nat /\ s \in Int
  BY LenProperties DEF Places
<1>2. \A j \in 1 .. Len(list) :
        /\ list[j] \in Ranges
        /\ list[j].start \in Places /\ list[j].end \in 1 .. NumDescriptors
        /\ list[j].start \in Int /\ list[j].end \in Int
        /\ list[j].start < list[j].end
  BY ElementOfSeq, RangeFields DEF Ascending
<1>3. \A j \in 1 .. Len(list) : ~ Covers(list[j], s)
  BY DEF InList
<1>4. \A j \in 1 .. k - 1 : list[j].end < s
  BY <1>1, <1>2, <1>3 DEF Stops, Covers
<1>5. \A j \in 1 .. k - 1 : list[j].end <= r.start
  BY <1>1 DEF Ascending
<1>6. \A j \in k + 1 .. Len(list) : r.end <= list[j].start
  BY <1>1 DEF Ascending
<1>7. r \in Ranges /\ r = FreeRange(r.start, r.end)
  BY <1>2 DEF Ranges, FreeRange
<1>8. CASE r.start = s + 1
  <2> DEFINE wide == FreeRange(s, r.end)
  <2>1. FreedAt(list, s, k) = [list EXCEPT ![k] = wide]
    <3>1. [r EXCEPT !.start = s] = wide
      BY <1>7 DEF Ranges, FreeRange
    <3>2. FreedAt(list, s, k) = [list EXCEPT ![k] = [r EXCEPT !.start = s]]
      BY <1>8 DEF FreedAt
    <3> QED
      BY <3>1, <3>2
  <2>2. wide \in Ranges /\ wide.start = s /\ wide.end = r.end
    BY <1>2 DEF Ranges, FreeRange
  <2> HIDE DEF wide
  <2>3. \A t \in Places : Covers(wide, t) <=> Covers(r, t) \/ t = s
    BY <1>1, <1>2, <1>8, <2>2 DEF Covers, Places
  <2>4. /\ wide.start < wide.end
        /\ \A j \in 1 .. k - 1 : list[j].end <= wide.start
        /\ \A j \in k + 1 .. Len(list) : wide.end <= list[j].start
    BY <1>1, <1>2, <1>4, <1>6, <1>8, <2>2
  <2> QED
    <3>1. Widens(list, s, k, wide)
      BY <2>2, <2>3, <2>4 DEF Widens
    <3>2. AddsSlot(list, s, [list EXCEPT ![k] = wide])
      BY <3>1, WidenExact, Zenon
    <3> QED
      BY <2>1, <3>2, Zenon
<1>9. CASE r.start # s + 1 /\ r.end = s
  <2> DEFINE wide == FreeRange(r.start, s + 1)
  <2>1. FreedAt(list, s, k) = [list EXCEPT ![k] = wide]
    <3>1. [r EXCEPT !.end = s + 1] = wide
      BY <1>7 DEF Ranges, FreeRange
    <3>2. FreedAt(list, s, k) = [list EXCEPT ![k] = [r EXCEPT !.end = s + 1]]
      BY <1>9 DEF FreedAt
    <3> QED
      BY <3>1, <3>2
  <2>2. wide \in Ranges /\ wide.start = r.start /\ wide.end = s + 1
    BY <1>2, SizesAssumption DEF Ranges, FreeRange, Places
  <2> HIDE DEF wide
  <2>3. \A t \in Places : Covers(wide, t) <=> Covers(r, t) \/ t = s
    BY <1>1, <1>2, <1>9, <2>2 DEF Covers, Places
  <2>4. \A j \in k + 1 .. Len(list) : list[j].start # s
    BY <1>1, <1>2, <1>3 DEF Covers
  <2>5. /\ wide.start < wide.end
        /\ \A j \in 1 .. k - 1 : list[j].end <= wide.start
        /\ \A j \in k + 1 .. Len(list) : wide.end <= list[j].start
    BY <1>1, <1>2, <1>5, <1>6, <1>9, <2>2, <2>4
  <2> QED
    <3>1. Widens(list, s, k, wide)
      BY <2>2, <2>3, <2>5 DEF Widens
    <3>2. AddsSlot(list, s, [list EXCEPT ![k] = wide])
      BY <3>1, WidenExact, Zenon
    <3> QED
      BY <2>1, <3>2, Zenon
<1>10. CASE r.start # s + 1 /\ r.end # s
  <2>1. FreedAt(list, s, k) = InsertAt(list, k, FreeRange(s, s + 1))
    BY <1>10 DEF FreedAt
  <2>2. s + 1 <= r.start
    BY <1>1, <1>2, <1>10 DEF Stops
  <2>3. \A j \in k .. Len(list) : s + 1 <= list[j].start
    <3> SUFFICES ASSUME NEW j \in k .. Len(list)
                 PROVE  s + 1 <= list[j].start
      OBVIOUS
    <3>1. CASE j = k
      BY <2>2, <3>1
    <3>2. CASE j # k
      BY <1>1, <1>2, <1>6, <2>2, <3>2
    <3> QED
      BY <3>1, <3>2
  <2>4. k \in 1 .. Len(list) + 1 /\ \A j \in 1 .. k - 1 : list[j].end <= s
    <3>1. k \in 1 .. Len(list) + 1
      BY <1>1
    <3>2. ASSUME NEW j \in 1 .. k - 1
          PROVE  list[j].end <= s
      <4>1. j \in 1 .. Len(list) /\ list[j].end < s
        BY <1>1, <1>4
      <4> QED
        BY <1>1, <1>2, <4>1
    <3> QED
      BY <3>1, <3>2
  <2> QED
    <3>1. Between(list, s, k)
      BY <2>3, <2>4 DEF Between
    <3> QED
      BY <2>1, <2>4, <3>1, InsertExact
<1> QED
  BY <1>8, <1>9, <1>10

\* It stops nowhere and puts a range at the end.
LEMMA FreedLastExact ==
  ASSUME NEW list \in Seq(Ranges), Ascending(list),
         NEW s \in Places, ~ InList(list, s),
         \A j \in 1 .. Len(list) : ~ Stops(list[j], s)
  PROVE  AddsSlot(list, s, Append(list, FreeRange(s, s + 1)))
<1> DEFINE k == Len(list) + 1
           new == FreeRange(s, s + 1)
<1>1. Len(list) \in Nat /\ s \in Int /\ new \in Ranges
  BY LenProperties, OneSlotRange DEF Places
<1>2. \A j \in 1 .. Len(list) : list[j].start \in Int /\ list[j].end \in Int
  BY ElementOfSeq, RangeFields
<1>3. \A j \in 1 .. k - 1 : list[j].end <= s
  BY <1>1, <1>2 DEF Stops, InList, Covers
<1>4. \A j \in k .. Len(list) : s + 1 <= list[j].start
  BY <1>1
<1>5. Append(list, new) = InsertAt(list, k, new)
  <2> HIDE DEF new
  <2> DEFINE e == InsertAt(list, k, new)
             a == Append(list, new)
  <2>1. \A j \in 1 .. Len(list) : list[j] \in Ranges
    BY ElementOfSeq
  <2>2. /\ e \in [1 .. k -> Ranges] /\ e[k] = new
        /\ \A j \in 1 .. Len(list) : e[j] = list[j]
    BY <1>1, <2>1 DEF InsertAt
  <2>3. e \in Seq(Ranges) /\ Len(e) = k
    <3> HIDE DEF e
    <3> QED
      BY <1>1, <2>2, SeqIntro
  <2>4. /\ a \in Seq(Ranges) /\ Len(a) = k /\ a[k] = new
        /\ \A j \in 1 .. Len(list) : a[j] = list[j]
    BY <1>1, AppendProperties
  <2> HIDE DEF e, a
  <2>5. \A j \in 1 .. Len(a) : a[j] = e[j]
    BY <1>1, <2>2, <2>4
  <2>6. a = e
    BY <2>3, <2>4, <2>5, SeqEqual
  <2> QED
    BY <2>6 DEF a, e
<1>6. k \in 1 .. Len(list) + 1
  BY <1>1
<1> QED
  <2>1. Between(list, s, k)
    BY <1>3, <1>4 DEF Between
  <2> QED
    BY <1>5, <1>6, <2>1, InsertExact
-----------------------------------------------------------------------------
(* The manager.  The invariant is stated for any lists, order and holders, so *)
(* that it can be applied in the middle of AllocateHeapSlot, after            *)
(* AllocateHeap and before the slot is taken.                                *)

Lists(hs, ho) ==
  /\ hs \in Seq(Seq(Ranges)) /\ Len(hs) <= MaxHeaps /\ ho \in [Slots -> Nat]
  /\ \A i \in 1 .. Len(hs) : Ascending(hs[i])
  /\ \A i \in 1 .. Len(hs), s \in Places :
       ho[<<i, s>>] = IF InList(hs[i], s) THEN 0 ELSE 1

Order(hs, fh) ==
  /\ fh \in Seq(1 .. Len(hs))
  /\ \A i \in 1 .. Len(hs) :
       hs[i] # <<>> <=> \E j \in 1 .. Len(fh) : fh[j] = i
  /\ \A j, k \in 1 .. Len(fh) : fh[j] = fh[k] => j = k

\* Slots of heaps that do not exist yet are held by nobody
Unused(n, ho) ==
  \A i \in n + 1 .. MaxHeaps, s \in Places : ho[<<i, s>>] = 0

IInv == Lists(heaps, holders) /\ Order(heaps, freeHeaps)
        /\ Unused(Len(heaps), holders)

LEMMA InvImplies == IInv => TypeOK /\ FreeListsExact /\ FreeHeapsExact
BY DEF IInv, Lists, Order, TypeOK, FreeListsExact, FreeHeapsExact, InList

LEMMA ListFacts ==
  ASSUME NEW hs, NEW ho, Lists(hs, ho), NEW i \in 1 .. Len(hs)
  PROVE  hs[i] \in Seq(Ranges) /\ Ascending(hs[i]) /\ i \in 1 .. MaxHeaps
<1>1. Len(hs) \in Nat /\ hs \in Seq(Seq(Ranges))
  BY LenProperties DEF Lists
<1> QED
  BY <1>1, ElementOfSeq, SizesAssumption DEF Lists

\* One list and the holders of one of its slots change together.
LEMMA ListsUpdate ==
  ASSUME NEW hs, NEW ho, Lists(hs, ho), NEW i \in 1 .. Len(hs),
         NEW p \in Places, NEW new \in Seq(Ranges), Ascending(new),
         NEW n \in {0, 1},
         InList(new, p) <=> n = 0,
         \A t \in Places : t # p => (InList(new, t) <=> InList(hs[i], t))
  PROVE  Lists([hs EXCEPT ![i] = new], [ho EXCEPT ![<<i, p>>] = n])
<1> DEFINE lists == [hs EXCEPT ![i] = new]
           owners == [ho EXCEPT ![<<i, p>>] = n]
<1>1. hs \in Seq(Seq(Ranges)) /\ Len(hs) \in Nat /\ i \in 1 .. MaxHeaps
      /\ ho \in [Slots -> Nat] /\ Len(hs) <= MaxHeaps
  BY ListFacts, LenProperties DEF Lists
<1>2. /\ lists \in Seq(Seq(Ranges)) /\ Len(lists) = Len(hs)
      /\ \A j \in 1 .. Len(hs) : lists[j] = IF j = i THEN new ELSE hs[j]
  BY <1>1, ExceptSeq
<1>3. /\ owners \in [Slots -> Nat]
      /\ \A j \in 1 .. Len(hs), t \in Places :
           owners[<<j, t>>] = IF j = i /\ t = p THEN n ELSE ho[<<j, t>>]
  BY <1>1 DEF Slots
<1> HIDE DEF lists, owners
<1>4. \A j \in 1 .. Len(lists) : Ascending(lists[j])
  BY <1>2 DEF Lists
<1>5. ASSUME NEW j \in 1 .. Len(lists), NEW t \in Places
      PROVE  owners[<<j, t>>] = IF InList(lists[j], t) THEN 0 ELSE 1
  <2>1. ho[<<j, t>>] = IF InList(hs[j], t) THEN 0 ELSE 1
    BY <1>2 DEF Lists
  <2>2. CASE j # i
    BY <1>2, <1>3, <2>1, <2>2
  <2>3. CASE j = i /\ t # p
    BY <1>2, <1>3, <2>1, <2>3
  <2>4. CASE j = i /\ t = p
    BY <1>2, <1>3, <2>4
  <2> QED
    BY <2>2, <2>3, <2>4
<1> QED
  BY <1>1, <1>2, <1>3, <1>4, <1>5 DEF Lists, lists, owners


\* The list of heaps with a free slot: an entry goes, or one is added.
LEMMA OrderTail ==
  ASSUME NEW hs \in Seq(Seq(Ranges)), NEW fh, Order(hs, fh), fh # <<>>,
         NEW new \in Seq(Ranges)
  PROVE  LET i  == Head(fh)
             us == [hs EXCEPT ![i] = new]
         IN /\ i \in 1 .. Len(hs)
            /\ new = <<>> => Order(us, Tail(fh))
            /\ new # <<>> => Order(us, fh)
<1> DEFINE i  == Head(fh)
           us == [hs EXCEPT ![i] = new]
<1>1. /\ fh \in Seq(1 .. Len(hs)) /\ i \in 1 .. Len(hs) /\ i = fh[1]
      /\ Len(fh) \in Nat \ {0} /\ Len(hs) \in Nat
      /\ \A j \in 1 .. Len(fh) : fh[j] \in 1 .. Len(hs)
  <2>1. fh \in Seq(1 .. Len(hs)) /\ Len(hs) \in Nat
    BY LenProperties DEF Order
  <2>2. Len(fh) \in Nat \ {0} /\ i = fh[1]
    BY <2>1, EmptySeq, LenProperties
  <2>3. i \in 1 .. Len(hs)
    BY <2>1, HeadTailProperties
  <2>4. \A j \in 1 .. Len(fh) : fh[j] \in 1 .. Len(hs)
    BY <2>1, ElementOfSeq
  <2> QED
    BY <2>1, <2>2, <2>3, <2>4
<1>2. /\ Tail(fh) \in Seq(1 .. Len(hs)) /\ Len(Tail(fh)) = Len(fh) - 1
      /\ \A j \in 1 .. Len(fh) - 1 : Tail(fh)[j] = fh[j + 1]
  BY <1>1, HeadTailProperties
<1> HIDE DEF i
<1>3. /\ Len(us) = Len(hs)
      /\ \A j \in 1 .. Len(hs) : us[j] = IF j = i THEN new ELSE hs[j]
  BY <1>1, ExceptSeq
<1> HIDE DEF us
<1>4. ASSUME new = <<>> PROVE Order(us, Tail(fh))
  <2>1. ASSUME NEW h \in 1 .. Len(us)
        PROVE  us[h] # <<>> <=> \E j \in 1 .. Len(Tail(fh)) : Tail(fh)[j] = h
    <3>1. CASE h = i
      <4>1. \A j \in 1 .. Len(fh) - 1 : fh[j + 1] # i
        <5> SUFFICES ASSUME NEW j \in 1 .. Len(fh) - 1 PROVE fh[j + 1] # i
          OBVIOUS
        <5> DEFINE m == Len(fh)
        <5>0. m \in Nat \ {0} /\ j \in 1 .. m - 1
          BY <1>1
        <5> HIDE DEF m
        <5>1. /\ 1 \in 1 .. m /\ j + 1 \in 1 .. m /\ j + 1 # 1
          BY <5>0
        <5>2. fh[j + 1] # fh[1]
          BY <5>1 DEF Order, m
        <5> QED
          BY <1>1, <5>2
      <4> QED
        BY <1>2, <1>3, <1>4, <3>1, <4>1
    <3>2. CASE h # i
      <4>1. us[h] # <<>> <=> \E j \in 1 .. Len(fh) : fh[j] = h
        BY <1>3, <3>2 DEF Order
      <4>2. ASSUME NEW j \in 1 .. Len(fh), fh[j] = h
            PROVE  j - 1 \in 1 .. Len(fh) - 1 /\ Tail(fh)[j - 1] = h
        BY <1>1, <1>2, <3>2, <4>2
      <4>3. ASSUME NEW j \in 1 .. Len(fh) - 1, Tail(fh)[j] = h
            PROVE  j + 1 \in 1 .. Len(fh) /\ fh[j + 1] = h
        BY <1>1, <1>2, <4>3
      <4> QED
        BY <1>2, <4>1, <4>2, <4>3
    <3> QED
      BY <3>1, <3>2
  <2>2. \A j, k \in 1 .. Len(Tail(fh)) : Tail(fh)[j] = Tail(fh)[k] => j = k
    <3> SUFFICES ASSUME NEW j \in 1 .. Len(fh) - 1, NEW k \in 1 .. Len(fh) - 1,
                        fh[j + 1] = fh[k + 1]
                 PROVE  j = k
      BY <1>2
    <3>1. j + 1 \in 1 .. Len(fh) /\ k + 1 \in 1 .. Len(fh)
      BY <1>1
    <3>2. j + 1 = k + 1
      BY <3>1 DEF Order
    <3> QED
      BY <1>1, <3>2
  <2> QED
    BY <1>2, <1>3, <2>1, <2>2 DEF Order
<1>5. ASSUME new # <<>> PROVE Order(us, fh)
  <2>1. \A h \in 1 .. Len(us) :
          us[h] # <<>> <=> \E j \in 1 .. Len(fh) : fh[j] = h
    <3>1. 1 \in 1 .. Len(fh) /\ hs[i] # <<>>
      BY <1>1 DEF Order
    <3>2. \A h \in 1 .. Len(us) : us[h] # <<>> <=> hs[h] # <<>>
      BY <1>3, <1>5, <3>1
    <3> QED
      BY <1>3, <3>2 DEF Order
  <2> QED
    BY <1>1, <1>3, <2>1 DEF Order
<1> QED
  BY <1>1, <1>4, <1>5 DEF i, us

LEMMA OrderAgain ==
  ASSUME NEW hs \in Seq(Seq(Ranges)), NEW fh, Order(hs, fh),
         NEW i \in 1 .. Len(hs), NEW new \in Seq(Ranges), new # <<>>
  PROVE  Order([hs EXCEPT ![i] = new],
               IF hs[i] = <<>> THEN Append(fh, i) ELSE fh)
<1> DEFINE us == [hs EXCEPT ![i] = new]
<1>1. /\ Len(us) = Len(hs)
      /\ \A j \in 1 .. Len(hs) : us[j] = IF j = i THEN new ELSE hs[j]
  BY ExceptSeq
<1>2. /\ fh \in Seq(1 .. Len(hs)) /\ Len(fh) \in Nat
      /\ \A j \in 1 .. Len(fh) : fh[j] \in 1 .. Len(hs)
  BY ElementOfSeq, LenProperties DEF Order
<1> HIDE DEF us
<1>3. CASE hs[i] # <<>>
  <2>1. \A h \in 1 .. Len(us) :
          us[h] # <<>> <=> \E j \in 1 .. Len(fh) : fh[j] = h
    BY <1>1, <1>3 DEF Order
  <2>2. Order(us, fh)
    BY <1>1, <1>2, <2>1 DEF Order
  <2> QED
    BY <1>3, <2>2 DEF us
<1>4. CASE hs[i] = <<>>
  <2> DEFINE a == Append(fh, i)
  <2>1. /\ a \in Seq(1 .. Len(hs)) /\ Len(a) = Len(fh) + 1
        /\ a[Len(fh) + 1] = i /\ \A j \in 1 .. Len(fh) : a[j] = fh[j]
    BY <1>2, AppendProperties
  <2> HIDE DEF a
  <2>2. \A j \in 1 .. Len(fh) : fh[j] # i
    BY <1>4 DEF Order
  <2>3. \A j \in 1 .. Len(a) : j \in 1 .. Len(fh) \/ j = Len(fh) + 1
    BY <1>2, <2>1
  <2>4. ASSUME NEW h \in 1 .. Len(us)
        PROVE  us[h] # <<>> <=> \E j \in 1 .. Len(a) : a[j] = h
    <3>1. CASE h = i
      <4>1. Len(fh) + 1 \in 1 .. Len(a)
        BY <1>2, <2>1
      <4>2. us[h] # <<>>
        BY <1>1, <3>1
      <4> QED
        BY <2>1, <3>1, <4>1, <4>2
    <3>2. CASE h # i
      <4>1. us[h] # <<>> <=> \E j \in 1 .. Len(fh) : fh[j] = h
        BY <1>1, <3>2 DEF Order
      <4>2. \A j \in 1 .. Len(fh) : j \in 1 .. Len(a)
        BY <1>2, <2>1
      <4> QED
        BY <2>1, <2>3, <3>2, <4>1, <4>2
    <3> QED
      BY <3>1, <3>2
  <2>5. ASSUME NEW j \in 1 .. Len(a), NEW k \in 1 .. Len(a), a[j] = a[k]
        PROVE  j = k
    BY <2>1, <2>2, <2>3, <2>5 DEF Order
  <2>6. Order(us, a)
    BY <1>1, <2>1, <2>4, <2>5 DEF Order
  <2> QED
    BY <1>4, <2>6 DEF us, a
<1> QED
  BY <1>3, <1>4

\* One slot is taken from the heap listed first; nobody held it.
LEMMA TakeKeeps ==
  ASSUME NEW hs, NEW fh, Lists(hs, holders), Order(hs, fh), fh # <<>>,
         Take(hs, fh)
  PROVE  /\ Lists(heaps', holders') /\ Order(heaps', freeHeaps')
         /\ Len(heaps') = Len(hs)
         /\ \E i \in 1 .. Len(hs), s \in Places :
              /\ i = Head(fh)
              /\ holders[<<i, s>>] = 0
              /\ holders' = [holders EXCEPT ![<<i, s>>] = 1]
<1> DEFINE i   == Head(fh)
           s   == hs[i][1].start
           new == TakeFirst(hs[i])
<1>1. hs \in Seq(Seq(Ranges)) /\ holders \in [Slots -> Nat]
  BY DEF Lists
<1>2. i \in 1 .. Len(hs) /\ hs[i] # <<>>
  <2>1. fh \in Seq(1 .. Len(hs)) /\ 1 \in 1 .. Len(fh) /\ i = fh[1]
    BY EmptySeq DEF Order
  <2>2. i \in 1 .. Len(hs)
    BY <2>1, HeadTailProperties
  <2> QED
    BY <2>1, <2>2 DEF Order
<1>3. hs[i] \in Seq(Ranges) /\ Ascending(hs[i]) /\ i \in 1 .. MaxHeaps
  BY <1>2, ListFacts
<1>4. /\ new \in Seq(Ranges) /\ Ascending(new) /\ s \in Places
      /\ InList(hs[i], s)
      /\ \A t \in Places : InList(new, t) <=> InList(hs[i], t) /\ t # s
  BY <1>2, <1>3, TakeFirstExact
<1>5. holders[<<i, s>>] = 0
  BY <1>2, <1>4 DEF Lists
<1>6. /\ heaps' = [hs EXCEPT ![i] = new]
      /\ holders' = [holders EXCEPT ![<<i, s>>] = 1]
      /\ freeHeaps' = IF new = <<>> THEN Tail(fh) ELSE fh
  <2>1. /\ heaps' = [hs EXCEPT ![i] = new]
        /\ holders' = [holders EXCEPT ![<<i, s>>] = @ + 1]
        /\ freeHeaps' = IF new = <<>> THEN Tail(fh) ELSE fh
    BY DEF Take
  <2> QED
    BY <1>5, <2>1
<1> HIDE DEF i, s, new
<1>7. Lists(heaps', holders')
  <2>1. InList(new, s) <=> 1 = 0
    BY <1>4
  <2>2. \A t \in Places : t # s => (InList(new, t) <=> InList(hs[i], t))
    BY <1>4
  <2> QED
    BY <1>2, <1>4, <1>6, <2>1, <2>2, ListsUpdate
<1>8. Order(heaps', freeHeaps')
  BY <1>1, <1>4, <1>6, OrderTail DEF i
<1>9. Len(heaps') = Len(hs)
  BY <1>1, <1>2, <1>4, <1>6, ExceptSeq
<1> QED
  BY <1>2, <1>4, <1>5, <1>6, <1>7, <1>8, <1>9 DEF i


\* AllocateHeap, when no heap has a free slot.
LEMMA NewHeapKeeps ==
  ASSUME IInv, freeHeaps = <<>>, Len(heaps) < MaxHeaps
  PROVE  LET hs == Append(heaps, WholeHeap)
         IN /\ Lists(hs, holders) /\ Order(hs, <<Len(heaps) + 1>>)
            /\ Len(hs) = Len(heaps) + 1
            /\ \A i \in 1 .. Len(heaps), s \in Places : holders[<<i, s>>] = 1
<1> DEFINE n  == Len(heaps)
           hs == Append(heaps, WholeHeap)
<1>1. /\ heaps \in Seq(Seq(Ranges)) /\ n \in Nat /\ holders \in [Slots -> Nat]
      /\ n + 1 \in 1 .. MaxHeaps
  BY LenProperties, SizesAssumption DEF IInv, Lists
<1>2. /\ WholeHeap \in Seq(Ranges) /\ WholeHeap # <<>> /\ Len(WholeHeap) = 1
      /\ WholeHeap[1] = FreeRange(0, NumDescriptors)
  <2>1. FreeRange(0, NumDescriptors) \in Ranges
    BY SizesAssumption DEF Ranges, Places, FreeRange
  <2> QED
    BY <2>1 DEF WholeHeap
<1>3. Ascending(WholeHeap)
  BY <1>2, SizesAssumption DEF Ascending, FreeRange
<1>4. \A s \in Places : InList(WholeHeap, s)
  BY <1>2, SizesAssumption DEF InList, Covers, FreeRange, Places
<1>5. /\ hs \in Seq(Seq(Ranges)) /\ Len(hs) = n + 1 /\ hs[n + 1] = WholeHeap
      /\ \A i \in 1 .. n : hs[i] = heaps[i]
  BY <1>1, <1>2, AppendProperties
<1> HIDE DEF hs
<1>6. \A i \in 1 .. Len(hs) : i \in 1 .. n \/ i = n + 1
  BY <1>1, <1>5
<1>7. \A i \in 1 .. n : heaps[i] = <<>>
  BY EmptySeq DEF IInv, Order
<1>8. \A i \in 1 .. n, s \in Places : holders[<<i, s>>] = 1
  <2> SUFFICES ASSUME NEW i \in 1 .. n, NEW s \in Places
               PROVE  holders[<<i, s>>] = 1
    OBVIOUS
  <2>1. ~ InList(heaps[i], s)
    BY <1>7 DEF InList
  <2> QED
    BY <2>1 DEF IInv, Lists
<1>9. \A s \in Places : holders[<<n + 1, s>>] = 0
  BY <1>1 DEF IInv, Unused
<1>10. Lists(hs, holders)
  <2>1. \A i \in 1 .. Len(hs) : Ascending(hs[i])
    BY <1>3, <1>5, <1>6 DEF IInv, Lists
  <2>2. ASSUME NEW i \in 1 .. Len(hs), NEW s \in Places
        PROVE  holders[<<i, s>>] = IF InList(hs[i], s) THEN 0 ELSE 1
    <3>1. CASE i \in 1 .. n
      BY <1>5, <3>1 DEF IInv, Lists
    <3>2. CASE i = n + 1
      BY <1>4, <1>5, <1>9, <3>2
    <3> QED
      BY <1>6, <3>1, <3>2
  <2> QED
    BY <1>1, <1>5, <2>1, <2>2 DEF Lists
<1>11. Order(hs, <<n + 1>>)
  <2>1. <<n + 1>> \in Seq(1 .. Len(hs)) /\ Len(<<n + 1>>) = 1
    BY <1>1, <1>5
  <2>2. ASSUME NEW i \in 1 .. Len(hs)
        PROVE  hs[i] # <<>> <=> \E j \in 1 .. Len(<<n + 1>>) : <<n + 1>>[j] = i
    <3>1. (\E j \in 1 .. Len(<<n + 1>>) : <<n + 1>>[j] = i) <=> i = n + 1
      OBVIOUS
    <3>2. CASE i \in 1 .. n
      BY <1>1, <1>5, <1>7, <3>1, <3>2
    <3>3. CASE i = n + 1
      BY <1>2, <1>5, <3>1, <3>3
    <3> QED
      BY <1>6, <3>2, <3>3
  <2> QED
    BY <2>1, <2>2 DEF Order
<1> QED
  BY <1>5, <1>8, <1>10, <1>11 DEF hs

\* What every operation does, seen from the holders.
PoolStep ==
  \/ /\ Len(heaps') = Len(heaps)
     /\ \E x \in (1 .. Len(heaps)) \X Places :
          holders[x] = 0 /\ holders' = [holders EXCEPT ![x] = 1]
  \/ /\ Len(heaps) < MaxHeaps /\ Len(heaps') = Len(heaps) + 1
     /\ \A x \in (1 .. Len(heaps)) \X Places : holders[x] = 1
     /\ \E s \in Places :
          holders' = [holders EXCEPT ![<<Len(heaps) + 1, s>>] = 1]
  \/ /\ Len(heaps') = Len(heaps)
     /\ \E x \in (1 .. Len(heaps)) \X Places :
          holders[x] = 1 /\ holders' = [holders EXCEPT ![x] = 0]

LEMMA UnusedStep ==
  ASSUME IInv, PoolStep
  PROVE  Unused(Len(heaps'), holders')
<1>1. Len(heaps) \in Nat /\ Len(heaps) <= MaxHeaps /\ holders \in [Slots -> Nat]
  BY LenProperties DEF IInv, Lists
<1>2. Len(heaps') \in {Len(heaps), Len(heaps) + 1}
  BY DEF PoolStep
<1> SUFFICES ASSUME NEW i \in Len(heaps') + 1 .. MaxHeaps, NEW s \in Places
             PROVE  holders'[<<i, s>>] = 0
  BY DEF Unused
<1>3. i \in Len(heaps) + 1 .. MaxHeaps /\ <<i, s>> \in Slots /\ i > Len(heaps')
  BY <1>1, <1>2 DEF Slots
<1>4. holders[<<i, s>>] = 0
  BY <1>3 DEF IInv, Unused
<1>5. \A x \in (1 .. Len(heaps')) \X Places : x # <<i, s>>
  BY <1>1, <1>2, <1>3
<1>6. \E x : \E n : /\ x \in (1 .. Len(heaps')) \X Places
                    /\ holders' = [holders EXCEPT ![x] = n]
  <2>1. CASE \E x \in (1 .. Len(heaps)) \X Places :
               /\ Len(heaps') = Len(heaps)
               /\ \/ holders' = [holders EXCEPT ![x] = 1]
                  \/ holders' = [holders EXCEPT ![x] = 0]
    BY <2>1
  <2>2. CASE /\ Len(heaps') = Len(heaps) + 1
             /\ \E t \in Places :
                  holders' = [holders EXCEPT ![<<Len(heaps) + 1, t>>] = 1]
    <3>1. PICK t \in Places :
            holders' = [holders EXCEPT ![<<Len(heaps) + 1, t>>] = 1]
      BY <2>2
    <3>2. <<Len(heaps) + 1, t>> \in (1 .. Len(heaps')) \X Places
      BY <1>1, <2>2
    <3> QED
      BY <3>1, <3>2
  <2> QED
    BY <2>1, <2>2 DEF PoolStep
<1> QED
  BY <1>1, <1>3, <1>4, <1>5, <1>6

LEMMA AllocateStep ==
  ASSUME IInv, AllocateHeapSlot
  PROVE  IInv' /\ PoolStep
<1>1. CASE freeHeaps # <<>> /\ Take(heaps, freeHeaps)
  <2>1. /\ Lists(heaps', holders') /\ Order(heaps', freeHeaps')
        /\ Len(heaps') = Len(heaps)
        /\ \E i \in 1 .. Len(heaps), s \in Places :
             /\ holders[<<i, s>>] = 0
             /\ holders' = [holders EXCEPT ![<<i, s>>] = 1]
    BY <1>1, TakeKeeps DEF IInv
  <2>2. PoolStep
    BY <2>1 DEF PoolStep
  <2> QED
    BY <2>1, <2>2, UnusedStep DEF IInv
<1>2. CASE /\ freeHeaps = <<>> /\ Len(heaps) < MaxHeaps
           /\ Take(Append(heaps, WholeHeap), <<Len(heaps) + 1>>)
  <2> DEFINE hs == Append(heaps, WholeHeap)
             fh == <<Len(heaps) + 1>>
  <2>1. /\ Lists(hs, holders) /\ Order(hs, fh) /\ Len(hs) = Len(heaps) + 1
        /\ \A i \in 1 .. Len(heaps), s \in Places : holders[<<i, s>>] = 1
    BY <1>2, NewHeapKeeps
  <2>2. Take(hs, fh) /\ fh # <<>> /\ Head(fh) = Len(heaps) + 1
    BY <1>2
  <2> HIDE DEF hs, fh
  <2>3. /\ Lists(heaps', holders') /\ Order(heaps', freeHeaps')
        /\ Len(heaps') = Len(heaps) + 1
        /\ \E i \in 1 .. Len(hs), s \in Places :
             /\ i = Head(fh)
             /\ holders[<<i, s>>] = 0
             /\ holders' = [holders EXCEPT ![<<i, s>>] = 1]
    BY <2>1, <2>2, TakeKeeps
  <2>4. PoolStep
    <3>1. \A x \in (1 .. Len(heaps)) \X Places : holders[x] = 1
      BY <2>1
    <3>2. \E s \in Places :
            holders' = [holders EXCEPT ![<<Len(heaps) + 1, s>>] = 1]
      BY <2>2, <2>3
    <3> QED
      BY <1>2, <2>3, <3>1, <3>2 DEF PoolStep
  <2> QED
    BY <2>3, <2>4, UnusedStep DEF IInv
<1> QED
  BY <1>1, <1>2 DEF AllocateHeapSlot

LEMMA FreeStep ==
  ASSUME IInv, NEW i \in 1 .. Len(heaps), NEW s \in Places, FreeHeapSlot(i, s)
  PROVE  IInv' /\ PoolStep
<1> DEFINE list == heaps[i]
<1>1. /\ list \in Seq(Ranges) /\ Ascending(list) /\ i \in 1 .. MaxHeaps
      /\ heaps \in Seq(Seq(Ranges)) /\ holders \in [Slots -> Nat]
  BY ListFacts DEF IInv, Lists
<1>2. holders[<<i, s>>] = 1 /\ ~ InList(list, s)
  <2>1. holders[<<i, s>>] > 0
    BY DEF FreeHeapSlot
  <2> QED
    BY <2>1 DEF IInv, Lists
<1>3. holders' = [holders EXCEPT ![<<i, s>>] = 0]
  BY <1>2 DEF FreeHeapSlot
<1>4. \E new : /\ AddsSlot(list, s, new)
               /\ heaps' = [heaps EXCEPT ![i] = new]
               /\ freeHeaps' = ListIfWasFull(i)
  <2>1. CASE \E k \in 1 .. Len(list) :
               /\ Stops(list[k], s)
               /\ \A j \in 1 .. k - 1 : ~ Stops(list[j], s)
               /\ heaps' = [heaps EXCEPT ![i] = FreedAt(list, s, k)]
               /\ freeHeaps' = freeHeaps
    <3>1. PICK k \in 1 .. Len(list) :
            /\ Stops(list[k], s)
            /\ \A j \in 1 .. k - 1 : ~ Stops(list[j], s)
            /\ heaps' = [heaps EXCEPT ![i] = FreedAt(list, s, k)]
            /\ freeHeaps' = freeHeaps
      BY <2>1
    <3>2. AddsSlot(list, s, FreedAt(list, s, k))
      BY <1>1, <1>2, <3>1, FreedAtExact
    <3>3. list # <<>>
      BY <3>1
    <3> QED
      BY <3>1, <3>2, <3>3 DEF ListIfWasFull
  <2>2. CASE /\ \A j \in 1 .. Len(list) : ~ Stops(list[j], s)
             /\ heaps' = [heaps EXCEPT ![i] = Append(@, FreeRange(s, s + 1))]
             /\ freeHeaps' = ListIfWasFull(i)
    <3>1. AddsSlot(list, s, Append(list, FreeRange(s, s + 1)))
      BY <1>1, <1>2, <2>2, FreedLastExact
    <3> QED
      BY <2>2, <3>1
  <2> QED
    BY <2>1, <2>2 DEF FreeHeapSlot
<1>5. PICK new : /\ AddsSlot(list, s, new)
                 /\ heaps' = [heaps EXCEPT ![i] = new]
                 /\ freeHeaps' = ListIfWasFull(i)
  BY <1>4
<1>6. /\ new \in Seq(Ranges) /\ Ascending(new) /\ new # <<>>
      /\ \A t \in Places : InList(new, t) <=> InList(list, t) \/ t = s
  BY <1>5 DEF AddsSlot
<1>7. Lists(heaps', holders')
  <2>1. InList(new, s) <=> 0 = 0
    BY <1>6
  <2>2. \A t \in Places : t # s => (InList(new, t) <=> InList(list, t))
    BY <1>6
  <2>3. Lists(heaps, holders)
    BY DEF IInv
  <2> QED
    BY <1>3, <1>5, <1>6, <2>1, <2>2, <2>3, ListsUpdate
<1>8. Order(heaps', freeHeaps')
  BY <1>1, <1>5, <1>6, OrderAgain DEF IInv, ListIfWasFull
<1>9. Len(heaps') = Len(heaps)
  BY <1>1, <1>5, <1>6, ExceptSeq
<1>10. PoolStep
  BY <1>2, <1>3, <1>9 DEF PoolStep
<1> QED
  BY <1>7, <1>8, <1>10, UnusedStep DEF IInv

LEMMA InitIInv == Init => IInv
<1> SUFFICES ASSUME Init PROVE IInv
  OBVIOUS
<1>1. Lists(heaps, holders)
  BY SizesAssumption DEF Init, Lists
<1>2. Order(heaps, freeHeaps)
  BY DEF Init, Order
<1>3. Unused(Len(heaps), holders)
  BY SizesAssumption DEF Init, Unused, Slots
<1> QED
  BY <1>1, <1>2, <1>3 DEF IInv

LEMMA InvStep == IInv /\ [Next]_vars => IInv' /\ (PoolStep \/ UNCHANGED vars)
<1> SUFFICES ASSUME IInv, [Next]_vars PROVE IInv' /\ (PoolStep \/ UNCHANGED vars)
  OBVIOUS
<1>1. CASE AllocateHeapSlot
  BY <1>1, AllocateStep
<1>2. CASE \E index \in 1 .. Len(heaps), s \in Places : FreeHeapSlot(index, s)
  BY <1>2, FreeStep
<1>3. CASE UNCHANGED vars
  BY <1>3 DEF vars, IInv
<1> QED
  BY <1>1, <1>2, <1>3 DEF Next

(* The lists of free ranges are exact, for any number of heaps and            *)
(* descriptors: no slot is lost by FreeHeapSlot or handed out twice by        *)
(* AllocateHeapSlot.                                                         *)
THEOREM SlotsExact == Spec => [](TypeOK /\ FreeListsExact)
<1>1. IInv /\ [Next]_vars => IInv'
  BY InvStep
<1>2. IInv => TypeOK /\ FreeListsExact
  BY InvImplies
<1> QED
  BY InitIInv, <1>1, <1>2, PTL DEF Spec

(* AllocateHeapSlot may rely on its list of free heaps: the heaps with a free *)
(* slot are in it, once each, and no full heap is.                            *)
THEOREM HeapsExact == Spec => []FreeHeapsExact
<1>1. IInv /\ [Next]_vars => IInv'
  BY InvStep
<1>2. IInv => FreeHeapsExact
  BY InvImplies
<1> QED
  BY InitIInv, <1>1, <1>2, PTL DEF Spec

LEMMA PoolInit == Init => Pool!Init
BY SizesAssumption DEF Init, Pool!Init, Pool!Slots, Slots, Places

LEMMA PoolNext == IInv /\ PoolStep => Pool!Next
<1> SUFFICES ASSUME IInv, PoolStep PROVE Pool!Next
  OBVIOUS
<1>1. Len(heaps) \in Nat
  BY LenProperties DEF IInv, Lists
<1>2. Pool!Slots(Len(heaps)) = (1 .. Len(heaps)) \X Places
  BY DEF Pool!Slots, Places
<1>3. \A s \in Places : <<Len(heaps) + 1, s>>
          \in Pool!Slots(Len(heaps) + 1) \ Pool!Slots(Len(heaps))
  BY <1>1 DEF Pool!Slots, Places
<1>4. CASE /\ Len(heaps') = Len(heaps)
           /\ \E x \in (1 .. Len(heaps)) \X Places :
                holders[x] = 0 /\ holders' = [holders EXCEPT ![x] = 1]
  BY <1>2, <1>4 DEF Pool!Next, Pool!Allocate
<1>5. CASE /\ Len(heaps) < MaxHeaps /\ Len(heaps') = Len(heaps) + 1
           /\ \A x \in (1 .. Len(heaps)) \X Places : holders[x] = 1
           /\ \E s \in Places :
                holders' = [holders EXCEPT ![<<Len(heaps) + 1, s>>] = 1]
  BY <1>2, <1>3, <1>5 DEF Pool!Next, Pool!Grow
<1>6. CASE /\ Len(heaps') = Len(heaps)
           /\ \E x \in (1 .. Len(heaps)) \X Places :
                holders[x] = 1 /\ holders' = [holders EXCEPT ![x] = 0]
  BY <1>2, <1>6 DEF Pool!Next, Pool!Free
<1> QED
  BY <1>4, <1>5, <1>6 DEF PoolStep

(* The manager implements the abstract pool: a slot goes to one holder at a   *)
(* time, and a heap is created only when every slot is held.                  *)
THEOREM ManagerIsPool == Spec => PoolSpec
<1>1. IInv /\ [Next]_vars => [Pool!Next]_(Pool!vars)
  <2> SUFFICES ASSUME IInv, [Next]_vars PROVE [Pool!Next]_(Pool!vars)
    OBVIOUS
  <2>1. CASE PoolStep
    BY <2>1, PoolNext
  <2>2. CASE UNCHANGED vars
    BY <2>2 DEF vars, Pool!vars
  <2> QED
    BY <2>1, <2>2, InvStep
<1>2. IInv /\ [Next]_vars => IInv'
  BY InvStep
<1> QED
  BY InitIInv, PoolInit, <1>1, <1>2, PTL DEF Spec, PoolSpec, Pool!Spec
=============================================================================
