--------------------------- MODULE HubSessionProofs ---------------------------
(***************************************************************************)
(* Of a session: what repairToolResultPairing makes of any rows is paired, *)
(* so that every prompt is; calls run only as far as they are allowed; and *)
(* as long as all its chats are at one service, a compaction loses no row, *)
(* no user's message comes between a round and its results, and a call     *)
(* that the model is told was interrupted gets no result.                  *)
(***************************************************************************)
EXTENDS HubSession, SequenceTheorems, WellFoundedInduction, TLAPS

(***************************************************************************)
(* The repair of the rows                                                  *)
(***************************************************************************)
\* A set of numbers has a least one.
LEMMA LeastOf ==
  ASSUME NEW S, S \subseteq Nat, S # {}
  PROVE  \E m \in S : \A n \in S : m <= n
  <1>1. PICK m \in S : \A n \in S : ~(<<n, m>> \in OpToRel(<, Nat))
    BY NatLessThanWellFounded, WFMin
  <1>2. \A n \in S : ~(n < m) BY <1>1 DEF OpToRel
  <1>3. \A n \in S : m <= n BY <1>2
  <1> QED BY <1>3

\* What the repair begins with.
Fresh == [out |-> <<>>, open |-> <<>>, held |-> <<>>]

\* f holds the states of the repair up to row n.
StatesUpTo(f, rows, n) ==
  f = [k \in 0..n |-> IF k = 0 THEN Fresh ELSE RepairStep(f[k - 1], rows[k])]

\* Such states there are, however long the rows.
LEMMA StatesExist ==
  ASSUME NEW rows, NEW len \in Nat
  PROVE  \E f : StatesUpTo(f, rows, len)
  <1> DEFINE Without == {n \in 0..len : ~\E f : StatesUpTo(f, rows, n)}
  <1>1. Without = {}
    <2> SUFFICES ASSUME Without # {} PROVE FALSE OBVIOUS
    <2>0. Without \subseteq Nat OBVIOUS
    <2>1. PICK n \in Without : \A k \in Without : n <= k
      <3> HIDE DEF Without
      <3> QED BY <2>0, LeastOf
    <2>2. n \in 0..len /\ ~\E f : StatesUpTo(f, rows, n) BY <2>1
    <2>3. CASE n = 0
      <3> DEFINE f == [k \in 0..0 |-> Fresh]
      <3>1. f = [k \in 0..0 |-> IF k = 0 THEN Fresh ELSE RepairStep(f[k - 1], rows[k])]
        OBVIOUS
      <3> QED BY <2>2, <2>3, <3>1 DEF StatesUpTo
    <2>4. CASE n # 0
      <3>1. n - 1 \in 0..len /\ ~(n <= n - 1) BY <2>2, <2>4
      <3>2. PICK f : StatesUpTo(f, rows, n - 1) BY <2>1, <3>1
      <3> DEFINE g == [k \in 0..n |-> IF k = n THEN RepairStep(f[n - 1], rows[n]) ELSE f[k]]
      <3>3. ASSUME NEW k \in 0..n
            PROVE  g[k] = IF k = 0 THEN Fresh ELSE RepairStep(g[k - 1], rows[k])
        <4>1. CASE k = 0
          <5>1. g[k] = f[0] /\ 0 \in 0..(n - 1) BY <2>2, <2>4, <4>1
          <5> QED BY <3>2, <4>1, <5>1 DEF StatesUpTo
        <4>2. CASE k # 0
          <5>1. k - 1 \in 0..n /\ k - 1 # n BY <2>2, <4>2
          <5>2. g[k - 1] = f[k - 1] BY <5>1
          <5>3. CASE k = n BY <4>2, <5>2, <5>3
          <5>4. CASE k # n
            <6>1. k \in 0..(n - 1) BY <2>2, <5>4
            <6>2. f[k] = RepairStep(f[k - 1], rows[k]) BY <3>2, <4>2, <6>1 DEF StatesUpTo
            <6> QED BY <4>2, <5>2, <5>4, <6>2
          <5> QED BY <5>3, <5>4
        <4> QED BY <4>1, <4>2
      <3>4. g = [k \in 0..n |-> IF k = 0 THEN Fresh ELSE RepairStep(g[k - 1], rows[k])]
        BY <3>3
      <3> HIDE DEF g
      <3> QED BY <2>2, <3>4 DEF StatesUpTo
    <2> QED BY <2>3, <2>4
  <1> QED BY <1>1

\* The repair begins fresh and goes row by row.
LEMMA RepairedRowByRow ==
  ASSUME NEW rows, Len(rows) \in Nat
  PROVE  /\ Repaired(rows)[0] = Fresh
         /\ \A n \in 1..Len(rows) : Repaired(rows)[n] = RepairStep(Repaired(rows)[n - 1], rows[n])
  <1> DEFINE R(f) == f = [k \in 0..Len(rows) |->
                           IF k = 0 THEN [out |-> <<>>, open |-> <<>>, held |-> <<>>]
                           ELSE RepairStep(f[k - 1], rows[k])]
  <1>1. \E f : R(f) BY StatesExist DEF StatesUpTo, Fresh
  <1>2. Repaired(rows) = CHOOSE f : R(f) BY DEF Repaired
  <1>3. R(Repaired(rows)) BY <1>1, <1>2
  <1>4. 0 \in 0..Len(rows) /\ \A n \in 1..Len(rows) : n \in 0..Len(rows) /\ n # 0 OBVIOUS
  <1> QED BY <1>3, <1>4 DEF Fresh

\* A row with its round, its results, and what it is a result of.
PairedAt(rows, i) ==
  LET n == Len(rows[i].calls)
      round == (i + 1)..(i + n)
  IN  /\ i + n <= Len(rows)
      /\ \A k \in round : IsResult(rows[k])
      /\ {rows[k].of : k \in round} = Range(rows[i].calls)
      /\ IsResult(rows[i]) =>
           \E j \in 1..(i - 1) : i - j <= Len(rows[j].calls)
                                /\ Contains(rows[j].calls, rows[i].of)

\* Rows are paired where each of them is.
LEMMA PairedByRow ==
  ASSUME NEW rows
  PROVE  Paired(rows) <=> \A i \in DOMAIN rows : PairedAt(rows, i)
  BY DEF Paired, PairedAt

\* Where rows stand among others they are paired as they were.
LEMMA PairedAmongOthers ==
  ASSUME NEW rows \in Seq(Rows), NEW all \in Seq(Rows), NEW s \in Nat,
         s + Len(rows) <= Len(all), \A k \in 1..Len(rows) : all[s + k] = rows[k],
         NEW i \in 1..Len(rows), PairedAt(rows, i)
  PROVE  PairedAt(all, s + i)
  <1> DEFINE n == Len(rows[i].calls)
             len == Len(rows)
             lenAll == Len(all)
  <1>0. rows[i] \in Rows /\ rows[i].calls \in Seq(Calls)
    <2>1. rows[i] \in Rows OBVIOUS
    <2> QED BY ONLY <2>1 DEF Rows
  <1>1. n \in Nat /\ len \in Nat /\ lenAll \in Nat BY <1>0
  <1>2. all[s + i] = rows[i] OBVIOUS
  <1>3. i + n <= len /\ \A k \in (i + 1)..(i + n) : IsResult(rows[k]) BY DEF PairedAt
  <1>4. {rows[k].of : k \in (i + 1)..(i + n)} = Range(rows[i].calls) BY DEF PairedAt
  <1>5. IsResult(rows[i]) => \E j \in 1..(i - 1) : i - j <= Len(rows[j].calls)
                                                /\ Contains(rows[j].calls, rows[i].of)
    BY DEF PairedAt
  <1>6. s + len <= lenAll /\ i \in 1..len /\ \A k \in 1..len : all[s + k] = rows[k] OBVIOUS
  <1>7. Len(all[s + i].calls) = n BY <1>2
  <1> HIDE DEF n, len
  <1>8. \A k \in (s + i + 1)..(s + i + n) :
          k - s \in (i + 1)..(i + n) /\ k - s \in 1..len /\ s + (k - s) = k
    BY <1>1, <1>3, <1>6
  <1>9. \A k \in (s + i + 1)..(s + i + n) : all[k] = rows[k - s]
    <2> TAKE k \in (s + i + 1)..(s + i + n)
    <2>1. k - s \in 1..len /\ s + (k - s) = k BY <1>8
    <2>2. all[s + (k - s)] = rows[k - s] BY <1>6, <2>1
    <2> QED BY <2>1, <2>2
  <1>10. \A k \in (i + 1)..(i + n) : s + k \in (s + i + 1)..(s + i + n) /\ all[s + k] = rows[k]
    <2> TAKE k \in (i + 1)..(i + n)
    <2>1. s + k \in (s + i + 1)..(s + i + n) /\ k \in 1..len BY <1>1, <1>3, <1>6
    <2> QED BY <1>6, <2>1
  <1>11. s + i + n <= lenAll BY <1>1, <1>3, <1>6
  <1>12. \A k \in (s + i + 1)..(s + i + n) : IsResult(all[k])
    <2> TAKE k \in (s + i + 1)..(s + i + n)
    <2> QED BY <1>3, <1>8, <1>9
  <1>13. {all[k].of : k \in (s + i + 1)..(s + i + n)} = {rows[k].of : k \in (i + 1)..(i + n)}
    <2>1. ASSUME NEW k \in (s + i + 1)..(s + i + n)
          PROVE  \E h \in (i + 1)..(i + n) : all[k].of = rows[h].of
      <3>1. k - s \in (i + 1)..(i + n) BY <1>8
      <3>2. all[k] = rows[k - s] BY <1>9
      <3> QED BY <3>1, <3>2
    <2>2. ASSUME NEW k \in (i + 1)..(i + n)
          PROVE  \E h \in (s + i + 1)..(s + i + n) : all[h].of = rows[k].of
      BY <1>10
    <2>3. {all[k].of : k \in (s + i + 1)..(s + i + n)}
            \subseteq {rows[k].of : k \in (i + 1)..(i + n)}
      BY ONLY <2>1
    <2>4. {rows[k].of : k \in (i + 1)..(i + n)}
            \subseteq {all[k].of : k \in (s + i + 1)..(s + i + n)}
      BY ONLY <2>2
    <2> QED BY ONLY <2>3, <2>4
  <1>14. ASSUME IsResult(all[s + i])
         PROVE  \E j \in 1..(s + i - 1) : s + i - j <= Len(all[j].calls)
                                          /\ Contains(all[j].calls, all[s + i].of)
    <2>1. PICK j \in 1..(i - 1) : i - j <= Len(rows[j].calls)
                                  /\ Contains(rows[j].calls, rows[i].of)
      BY <1>2, <1>5, <1>14
    <2>2. j \in 1..len /\ s + j \in 1..(s + i - 1) /\ s + i - (s + j) = i - j BY <1>1, <1>6
    <2>3. all[s + j] = rows[j] BY <1>6, <2>2
    <2> QED BY <1>2, <2>1, <2>2, <2>3
  <1>15. (s + i) + n = s + i + n /\ (s + i) + 1 = s + i + 1 /\ (s + i) - 1 = s + i - 1
    BY <1>1, <1>6
  <1> DEFINE p == s + i
  <1>16. PairedAt(all, p) <=>
           /\ p + n <= lenAll
           /\ \A k \in (p + 1)..(p + n) : IsResult(all[k])
           /\ {all[k].of : k \in (p + 1)..(p + n)} = Range(rows[i].calls)
           /\ IsResult(all[p]) =>
                \E j \in 1..(p - 1) : p - j <= Len(all[j].calls)
                                      /\ Contains(all[j].calls, all[p].of)
    BY <1>2, <1>7 DEF PairedAt
  <1> HIDE DEF lenAll
  <1> QED BY ONLY <1>4, <1>11, <1>12, <1>13, <1>14, <1>15, <1>16

\* Paired rows one after the other are paired.
LEMMA PairedJoin ==
  ASSUME NEW rows \in Seq(Rows), NEW next \in Seq(Rows), Paired(rows), Paired(next)
  PROVE  Paired(rows \o next) /\ rows \o next \in Seq(Rows)
  <1> DEFINE all == rows \o next
             n == Len(rows)
             m == Len(next)
  <1>1. all \in Seq(Rows) /\ n \in Nat /\ m \in Nat /\ Len(all) = n + m OBVIOUS
  <1>2. \A k \in 1..n : all[k] = rows[k] OBVIOUS
  <1>3. \A k \in 1..m : all[n + k] = next[k] OBVIOUS
  <1>4. DOMAIN rows = 1..n /\ DOMAIN next = 1..m OBVIOUS
  <1> HIDE DEF all
  <1>5. ASSUME NEW i \in 1..n PROVE PairedAt(all, i)
    <2>1. 0 + n <= Len(all) /\ \A k \in 1..n : all[0 + k] = rows[k] BY <1>1, <1>2
    <2>2. PairedAt(rows, i) BY <1>4, PairedByRow
    <2>3. PairedAt(all, 0 + i) BY <1>1, <2>1, <2>2, PairedAmongOthers
    <2> QED BY <2>3
  <1>6. ASSUME NEW i \in 1..m PROVE PairedAt(all, n + i)
    <2>1. PairedAt(next, i) BY <1>4, PairedByRow
    <2> QED BY <1>1, <1>3, <2>1, PairedAmongOthers
  <1>7. \A i \in DOMAIN all : PairedAt(all, i)
    <2> SUFFICES ASSUME NEW i \in 1..(n + m) PROVE PairedAt(all, i) BY <1>1
    <2>1. CASE i \in 1..n BY <1>5, <2>1
    <2>2. CASE i \notin 1..n
      <3>1. i - n \in 1..m /\ n + (i - n) = i BY <1>1, <2>2
      <3>2. PairedAt(all, n + (i - n)) BY <1>6, <3>1
      <3> QED BY <3>1, <3>2
    <2> QED BY <2>1, <2>2
  <1>8. all = rows \o next BY DEF all
  <1> QED BY <1>1, <1>7, <1>8, PairedByRow

\* A row that is neither a round nor a result.
Plain(m) == m.calls = <<>> /\ ~IsResult(m)

\* Such rows are paired.
LEMMA PlainIsPaired ==
  ASSUME NEW rows \in Seq(Rows), \A i \in 1..Len(rows) : Plain(rows[i])
  PROVE  Paired(rows)
  <1> SUFFICES ASSUME NEW i \in DOMAIN rows PROVE PairedAt(rows, i) BY PairedByRow
  <1>1. i \in 1..Len(rows) /\ Len(rows) \in Nat OBVIOUS
  <1>2. rows[i].calls = <<>> /\ ~IsResult(rows[i]) BY <1>1 DEF Plain
  <1>3. Len(rows[i].calls) = 0 /\ i + 0 = i /\ (i + 1)..(i + 0) = {} BY <1>1, <1>2
  <1>4. Range(rows[i].calls) = {} BY <1>2 DEF Range
  <1>5. i <= Len(rows) BY <1>1
  <1> QED BY <1>2, <1>3, <1>4, <1>5 DEF PairedAt

\* Rows that are paired but for the last round, whose calls in open have no result.
Waits(rows, open) ==
  \E b \in 1..Len(rows) :
    /\ Paired(SubSeq(rows, 1, b - 1))
    /\ ~IsResult(rows[b])
    /\ \A k \in (b + 1)..Len(rows) : IsResult(rows[k]) /\ rows[k].calls = <<>>
    /\ {rows[k].of : k \in (b + 1)..Len(rows)} \cup Range(open) = Range(rows[b].calls)
    /\ Len(rows) - b + Len(open) = Len(rows[b].calls)

\* Once it waits for none, all are paired.
LEMMA NoneAwaited ==
  ASSUME NEW rows \in Seq(Rows), Waits(rows, <<>>)
  PROVE  Paired(rows)
  <1>1. PICK b \in 1..Len(rows) :
          /\ Paired(SubSeq(rows, 1, b - 1))
          /\ ~IsResult(rows[b])
          /\ \A k \in (b + 1)..Len(rows) : IsResult(rows[k]) /\ rows[k].calls = <<>>
          /\ {rows[k].of : k \in (b + 1)..Len(rows)} \cup Range(<<>>) = Range(rows[b].calls)
          /\ Len(rows) - b + Len(<<>>) = Len(rows[b].calls)
    BY DEF Waits
  <1> DEFINE len == Len(rows)
             n == Len(rows[b].calls)
             before == SubSeq(rows, 1, b - 1)
  <1>2. rows[b] \in Rows /\ len \in Nat /\ b \in 1..len OBVIOUS
  <1>3. rows[b].calls \in Seq(Calls) BY <1>2 DEF Rows
  <1>4. n \in Nat /\ len - b = n
    <2>1. Len(<<>>) = 0 OBVIOUS
    <2>2. n \in Nat BY <1>3
    <2> HIDE DEF len, n
    <2>3. len - b + 0 = n BY <1>1, <2>1 DEF len, n
    <2> QED BY <1>2, <2>2, <2>3
  <1>5. Range(<<>>) = {} BY DEF Range
  <1>6. {rows[k].of : k \in (b + 1)..len} = Range(rows[b].calls) BY <1>1, <1>5
  <1>7. /\ before \in Seq(Rows) /\ Len(before) = b - 1
        /\ \A k \in 1..(b - 1) : before[k] = rows[k]
    <2>1. 1 \in 1..(len + 1) /\ b - 1 \in (1 - 1)..len BY <1>2
    <2>2. (b - 1) - 1 + 1 = b - 1 /\ \A k \in 1..(b - 1) : 1 + k - 1 = k BY <1>2
    <2> QED BY <1>2, <2>1, <2>2, SubSeqProperties
  <1>8. Paired(before) /\ \A k \in (b + 1)..len : IsResult(rows[k]) /\ rows[k].calls = <<>>
    BY <1>1
  <1> HIDE DEF before, n
  <1>9. ASSUME NEW i \in 1..(b - 1) PROVE PairedAt(rows, i)
    <2>1. PairedAt(before, i) BY <1>7, <1>8, PairedByRow
    <2>2. 0 + Len(before) <= Len(rows) BY <1>2, <1>7
    <2>3. \A k \in 1..Len(before) : rows[0 + k] = before[k] BY <1>7
    <2>4. PairedAt(rows, 0 + i) BY <1>7, <2>1, <2>2, <2>3, PairedAmongOthers
    <2> QED BY <2>4
  <1>10. PairedAt(rows, b)
    <2>1. b + n = len BY <1>2, <1>4
    <2> QED BY <1>1, <1>6, <1>8, <2>1 DEF PairedAt, n
  <1>11. ASSUME NEW i \in (b + 1)..len PROVE PairedAt(rows, i)
    <2>1. rows[i].calls = <<>> /\ IsResult(rows[i]) BY <1>8
    <2>2. Len(rows[i].calls) = 0 /\ i + 0 = i /\ (i + 1)..(i + 0) = {} BY <2>1
    <2>3. Range(rows[i].calls) = {} BY <2>1 DEF Range
    <2>4. b \in 1..(i - 1) /\ i - b <= n /\ i <= len BY <1>2, <1>4
    <2>5. Contains(rows[b].calls, rows[i].of)
      <3>1. rows[i].of \in Range(rows[b].calls) BY <1>6
      <3>2. DOMAIN rows[b].calls = 1..Len(rows[b].calls) BY <1>3
      <3> QED BY <3>1, <3>2 DEF Contains, Range
    <2>6. i - b <= Len(rows[b].calls) BY <2>4 DEF n
    <2>7. i + 0 <= Len(rows) BY <2>2, <2>4
    <2> QED BY <2>2, <2>3, <2>4, <2>5, <2>6, <2>7 DEF PairedAt
  <1>12. \A i \in 1..len : i \in 1..(b - 1) \/ i = b \/ i \in (b + 1)..len BY <1>2
  <1>13. DOMAIN rows = 1..len OBVIOUS
  <1> HIDE DEF len
  <1> QED BY <1>9, <1>10, <1>11, <1>12, <1>13, PairedByRow

\* A round begins.
LEMMA RoundOpens ==
  ASSUME NEW rows \in Seq(Rows), Paired(rows), NEW m \in Rows, ~IsResult(m)
  PROVE  Waits(Append(rows, m), m.calls)
  <1> DEFINE all == Append(rows, m)
             b == Len(rows) + 1
  <1>1. all \in Seq(Rows) /\ Len(all) = b /\ b \in 1..Len(all) /\ all[b] = m OBVIOUS
  <1>2. SubSeq(all, 1, b - 1) = rows
    <2>1. Len(rows) \in Nat /\ \A k \in 1..Len(rows) : all[k] = rows[k] OBVIOUS
    <2>2. 1 \in 1..(Len(all) + 1) /\ b - 1 \in (1 - 1)..Len(all) BY <1>1, <2>1
    <2>3. b - 1 = Len(rows) /\ (b - 1) - 1 + 1 = Len(rows) BY <2>1
    <2> DEFINE sub == SubSeq(all, 1, b - 1)
    <2>4. /\ sub \in Seq(Rows) /\ Len(sub) = (b - 1) - 1 + 1
          /\ \A k \in 1..((b - 1) - 1 + 1) : sub[k] = all[1 + k - 1]
      BY <1>1, <2>2, SubSeqProperties
    <2> HIDE DEF all, b, sub
    <2>5. \A k \in 1..Len(rows) : sub[k] = rows[k]
      <3> TAKE k \in 1..Len(rows)
      <3>1. sub[k] = all[1 + k - 1] BY <2>3, <2>4
      <3>2. 1 + k - 1 = k BY <2>1
      <3> QED BY <2>1, <3>1, <3>2
    <2>6. sub = rows BY <2>3, <2>4, <2>5, SeqEqual
    <2> QED BY <2>6 DEF sub
  <1>3. (b + 1)..Len(all) = {} BY <1>1
  <1>4. Len(all) - b + Len(m.calls) = Len(m.calls)
    <2>1. m.calls \in Seq(Calls) BY DEF Rows
    <2>2. Len(m.calls) \in Nat BY <2>1
    <2> HIDE DEF all
    <2> QED BY <1>1, <2>2
  <1> HIDE DEF all, b
  <1>5. all = Append(rows, m) BY DEF all
  <1>6. {all[k].of : k \in (b + 1)..Len(all)} = {} BY <1>3
  <1> QED BY <1>1, <1>2, <1>3, <1>4, <1>5, <1>6 DEF Waits

\* Results come for some of the calls that are waited for.
LEMMA ResultsCome ==
  ASSUME NEW rows \in Seq(Rows), NEW more \in Seq(Rows),
         NEW open \in Seq(Calls), NEW rest \in Seq(Calls), Waits(rows, open),
         \A k \in 1..Len(more) : IsResult(more[k]) /\ more[k].calls = <<>>,
         Range(open) = {more[k].of : k \in 1..Len(more)} \cup Range(rest),
         Len(open) = Len(more) + Len(rest)
  PROVE  Waits(rows \o more, rest) /\ rows \o more \in Seq(Rows)
  <1>1. PICK b \in 1..Len(rows) :
          /\ Paired(SubSeq(rows, 1, b - 1))
          /\ ~IsResult(rows[b])
          /\ \A k \in (b + 1)..Len(rows) : IsResult(rows[k]) /\ rows[k].calls = <<>>
          /\ {rows[k].of : k \in (b + 1)..Len(rows)} \cup Range(open) = Range(rows[b].calls)
          /\ Len(rows) - b + Len(open) = Len(rows[b].calls)
    BY DEF Waits
  <1> DEFINE all == rows \o more
             n == Len(rows)
             m == Len(more)
  <1>2. /\ all \in Seq(Rows) /\ n \in Nat /\ m \in Nat /\ Len(all) = n + m
        /\ \A k \in 1..n : all[k] = rows[k]
        /\ \A k \in 1..m : all[n + k] = more[k]
    OBVIOUS
  <1>3. b \in 1..n /\ b \in 1..(n + m) BY <1>2
  <1>4. Len(open) = m + Len(rest) /\ Len(rest) \in Nat OBVIOUS
  <1> DEFINE here == SubSeq(all, 1, b - 1)
             before == SubSeq(rows, 1, b - 1)
  <1>5. here = before
    <2>1. 1 \in 1..(n + 1) /\ 1 \in 1..(n + m + 1) /\ b - 1 \in (1 - 1)..n
          /\ b - 1 \in (1 - 1)..(n + m) /\ (b - 1) - 1 + 1 = b - 1
      BY <1>2, <1>3
    <2>2. /\ before \in Seq(Rows) /\ Len(before) = b - 1
          /\ \A k \in 1..(b - 1) : before[k] = rows[1 + k - 1]
      BY <1>2, <2>1, SubSeqProperties
    <2> HIDE DEF all, before
    <2>3. /\ here \in Seq(Rows) /\ Len(here) = b - 1
          /\ \A k \in 1..(b - 1) : here[k] = all[1 + k - 1]
      BY <1>2, <2>1, SubSeqProperties
    <2> HIDE DEF here
    <2>4. \A k \in 1..(b - 1) : 1 + k - 1 = k /\ k \in 1..n BY <1>2, <1>3
    <2>5. \A k \in 1..(b - 1) : here[k] = before[k] BY <1>2, <2>2, <2>3, <2>4
    <2> QED BY <2>2, <2>3, <2>5, SeqEqual
  <1> HIDE DEF all, n, m, here, before
  <1>6. all[b] = rows[b] BY <1>2, <1>3
  <1>7. ASSUME NEW k \in (b + 1)..(n + m)
        PROVE  \/ k \in (b + 1)..n /\ all[k] = rows[k]
               \/ k - n \in 1..m /\ all[k] = more[k - n]
    <2>1. CASE k <= n
      <3>1. k \in (b + 1)..n /\ k \in 1..n BY <1>2, <1>3, <2>1
      <3> QED BY <1>2, <3>1
    <2>2. CASE k > n
      <3>1. k - n \in 1..m /\ n + (k - n) = k BY <1>2, <1>3, <2>2
      <3>2. all[n + (k - n)] = more[k - n] BY <1>2, <3>1
      <3> QED BY <3>1, <3>2
    <2> QED BY <1>2, <1>3, <2>1, <2>2
  <1>8. \A k \in (b + 1)..n : k \in (b + 1)..(n + m) /\ k \in 1..n BY <1>2, <1>3
  <1>9. \A k \in 1..m : n + k \in (b + 1)..(n + m) BY <1>2, <1>3
  <1>10. /\ \A k \in (b + 1)..n : IsResult(rows[k]) /\ rows[k].calls = <<>>
         /\ \A k \in 1..m : IsResult(more[k]) /\ more[k].calls = <<>>
    BY <1>1 DEF n, m
  <1>11. \A k \in (b + 1)..(n + m) : IsResult(all[k]) /\ all[k].calls = <<>>
    BY ONLY <1>7, <1>10
  <1>12. {all[k].of : k \in (b + 1)..(n + m)} =
           {rows[k].of : k \in (b + 1)..n} \cup {more[k].of : k \in 1..m}
    <2>1. {all[k].of : k \in (b + 1)..(n + m)}
            \subseteq {rows[k].of : k \in (b + 1)..n} \cup {more[k].of : k \in 1..m}
      BY ONLY <1>7
    <2>2. {rows[k].of : k \in (b + 1)..n} \subseteq {all[k].of : k \in (b + 1)..(n + m)}
      BY <1>2, <1>8
    <2>3. {more[k].of : k \in 1..m} \subseteq {all[k].of : k \in (b + 1)..(n + m)}
      BY <1>2, <1>9
    <2> QED BY ONLY <2>1, <2>2, <2>3
  <1>13. {all[k].of : k \in (b + 1)..(n + m)} \cup Range(rest) = Range(rows[b].calls)
    <2>1. {rows[k].of : k \in (b + 1)..n} \cup Range(open) = Range(rows[b].calls)
      BY <1>1 DEF n
    <2>2. Range(open) = {more[k].of : k \in 1..m} \cup Range(rest) BY DEF m
    <2> QED BY ONLY <1>12, <2>1, <2>2
  <1>14. (n + m) - b + Len(rest) = Len(rows[b].calls)
    <2>1. n - b + Len(open) = Len(rows[b].calls) BY <1>1 DEF n
    <2>2. n - b + (m + Len(rest)) = Len(rows[b].calls) BY <1>4, <2>1
    <2> QED BY <1>2, <1>3, <1>4, <2>2
  <1>15. Paired(here) /\ ~IsResult(all[b]) BY <1>1, <1>5, <1>6 DEF before
  <1>16. Waits(all, rest)
    BY <1>2, <1>3, <1>6, <1>11, <1>13, <1>14, <1>15 DEF Waits, here
  <1> QED BY <1>2, <1>16 DEF all

\* One result comes.
LEMMA ResultComes ==
  ASSUME NEW rows \in Seq(Rows), NEW m \in Rows, IsResult(m), m.calls = <<>>,
         NEW open \in Seq(Calls), NEW rest \in Seq(Calls), Waits(rows, open),
         Range(open) = {m.of} \cup Range(rest), Len(open) = 1 + Len(rest)
  PROVE  Waits(Append(rows, m), rest)
  <1>1. <<m>> \in Seq(Rows) /\ Len(<<m>>) = 1 /\ 1..1 = {1} /\ <<m>>[1] = m OBVIOUS
  <1>2. \A k \in 1..Len(<<m>>) : IsResult(<<m>>[k]) /\ <<m>>[k].calls = <<>> BY <1>1
  <1>3. {<<m>>[k].of : k \in 1..Len(<<m>>)} = {m.of} BY <1>1
  <1>4. Append(rows, m) = rows \o <<m>> BY AppendIsConcat
  <1>5. Len(open) = Len(<<m>>) + Len(rest) BY <1>1
  <1>6. Waits(rows \o <<m>>, rest) BY <1>1, <1>2, <1>3, <1>5, ResultsCome
  <1> QED BY <1>4, <1>6

\* All that are missing are made up.
LEMMA MissingCome ==
  ASSUME NEW rows \in Seq(Rows), NEW open \in Seq(Calls), Waits(rows, open),
         NEW made, made = [i \in DOMAIN open |-> Missing(open[i])]
  PROVE  made \in Seq(Rows) /\ Paired(rows \o made) /\ rows \o made \in Seq(Rows)
  <1>0. \A call \in Calls : Missing(call) \in Rows /\ Missing(call).role = "missing"
                            /\ Missing(call).calls = <<>> /\ Missing(call).of = call
    BY DEF Missing, Row, Rows
  <1>1. DOMAIN open = 1..Len(open) /\ Len(open) \in Nat /\ \A i \in 1..Len(open) : open[i] \in Calls
    OBVIOUS
  <1>2. made \in Seq(Rows) /\ Len(made) = Len(open) BY <1>0, <1>1
  <1>3. \A k \in 1..Len(made) : /\ IsResult(made[k]) /\ made[k].calls = <<>>
                                /\ made[k].of = open[k]
    BY <1>0, <1>1, <1>2 DEF IsResult
  <1>4. Range(open) = {made[k].of : k \in 1..Len(made)} \cup Range(<<>>)
    <2>1. {made[k].of : k \in 1..Len(made)} = {open[k] : k \in 1..Len(open)} BY <1>2, <1>3
    <2>2. Range(open) = {open[k] : k \in 1..Len(open)} BY <1>1 DEF Range
    <2>3. Range(<<>>) = {} BY DEF Range
    <2> QED BY <2>1, <2>2, <2>3
  <1>5. <<>> \in Seq(Calls) /\ Len(open) = Len(made) + Len(<<>>) BY <1>1, <1>2
  <1>6. Waits(rows \o made, <<>>) /\ rows \o made \in Seq(Rows)
    BY <1>2, <1>3, <1>4, <1>5, ResultsCome
  <1> QED BY <1>2, <1>6, NoneAwaited

\* No call twice.
Distinct(calls) == \A i, j \in 1..Len(calls) : calls[i] = calls[j] => i = j

\* The rows that are ever written: none is made up, and only an answer makes calls.
Written ==
  {m \in Rows : m.role # "missing" /\ (m.calls # <<>> => m.role = "assistant")
                /\ Distinct(m.calls)}

\* What is left when a call is struck from a list.
LEMMA FirstRemoved ==
  ASSUME NEW open \in Seq(Calls), NEW call, Contains(open, call),
         NEW rest, rest = RemoveFirst(open, call)
  PROVE  /\ rest \in Seq(Calls) /\ Len(open) = 1 + Len(rest)
         /\ Range(open) = {call} \cup Range(rest)
         /\ Distinct(open) => Distinct(rest) /\ ~Contains(rest, call)
  <1> DEFINE n == Len(open)
             I == {i \in 1..n : open[i] = call}
  <1>1. n \in Nat /\ I \subseteq Nat /\ I # {} BY DEF Contains
  <1>2. PICK p \in I : \A q \in I : p <= q BY <1>1, LeastOf
  <1> DEFINE first == CHOOSE x \in I : \A y \in I : x =< y
  <1>3. first \in I BY <1>2
  <1>4. rest = SubSeq(open, 1, first - 1) \o SubSeq(open, first + 1, n)
    <2>1. SelectInSeq(open, LAMBDA v : v = call) = first BY <1>1 DEF SelectInSeq, Min
    <2>2. \E k \in 1..Len(open) : open[k] = call BY DEF Contains
    <2> HIDE DEF first
    <2> QED BY <2>1, <2>2 DEF RemoveFirst, RemoveAt
  <1>5. first \in 1..n /\ open[first] = call BY <1>3
  <1> HIDE DEF first, I
  <1> DEFINE a == SubSeq(open, 1, first - 1)
             b == SubSeq(open, first + 1, n)
  <1>6. a \in Seq(Calls) /\ Len(a) = first - 1 /\ \A k \in 1..(first - 1) : a[k] = open[k]
    <2>1. 1 \in 1..(n + 1) /\ first - 1 \in (1 - 1)..n /\ (first - 1) - 1 + 1 = first - 1
      BY <1>1, <1>5
    <2>2. \A k \in 1..(first - 1) : 1 + k - 1 = k BY <1>5
    <2> QED BY <2>1, <2>2, SubSeqProperties
  <1>7. /\ b \in Seq(Calls) /\ Len(b) = n - first
        /\ \A k \in 1..(n - first) : b[k] = open[first + k]
    <2>1. first + 1 \in 1..(n + 1) /\ n \in ((first + 1) - 1)..n /\ n - (first + 1) + 1 = n - first
      BY <1>1, <1>5
    <2>2. \A k \in 1..(n - first) : (first + 1) + k - 1 = first + k BY <1>1, <1>5
    <2>3. n = Len(open) OBVIOUS
    <2> HIDE DEF n
    <2>4. /\ b \in Seq(Calls) /\ Len(b) = n - (first + 1) + 1
          /\ \A k \in 1..(n - (first + 1) + 1) : b[k] = open[(first + 1) + k - 1]
      BY <2>1, <2>3, SubSeqProperties
    <2> HIDE DEF b
    <2> QED BY <2>1, <2>2, <2>4
  <1> HIDE DEF a, b
  <1>8. /\ rest \in Seq(Calls) /\ Len(rest) = n - 1
        /\ \A k \in 1..(first - 1) : rest[k] = open[k]
        /\ \A k \in 1..(n - first) : rest[(first - 1) + k] = open[first + k]
    <2>0. rest = a \o b BY <1>4 DEF a, b
    <2>1. /\ rest \in Seq(Calls) /\ Len(rest) = Len(a) + Len(b)
          /\ \A k \in 1..Len(a) : rest[k] = a[k]
          /\ \A k \in 1..Len(b) : rest[Len(a) + k] = b[k]
      <3>1. a \in Seq(Calls) /\ b \in Seq(Calls) BY <1>6, <1>7
      <3> QED BY ONLY <2>0, <3>1
    <2>4. (first - 1) + (n - first) = n - 1 BY <1>1, <1>5
    <2> HIDE DEF n
    <2> QED BY <1>6, <1>7, <2>1, <2>4
  <1>9. ASSUME NEW k \in 1..(n - 1)
        PROVE  IF k < first THEN rest[k] = open[k] ELSE rest[k] = open[k + 1]
    <2>1. CASE k < first
      <3>1. k \in 1..(first - 1) BY <1>5, <2>1
      <3> QED BY <1>8, <2>1, <3>1
    <2>2. CASE ~(k < first)
      <3>1. k - first + 1 \in 1..(n - first) /\ (first - 1) + (k - first + 1) = k
            /\ first + (k - first + 1) = k + 1
        BY <1>1, <1>5, <2>2
      <3>2. rest[(first - 1) + (k - first + 1)] = open[first + (k - first + 1)] BY <1>8, <3>1
      <3> QED BY <2>2, <3>1, <3>2
    <2> QED BY <2>1, <2>2
  <1>10. DOMAIN rest = 1..(n - 1) /\ DOMAIN open = 1..n /\ Len(open) = 1 + Len(rest)
    BY <1>1, <1>8
  <1>11. n = Len(open) OBVIOUS
  <1> HIDE DEF n
  <1>12. Range(open) = {call} \cup Range(rest)
    <2>1. ASSUME NEW k \in 1..n PROVE open[k] = call \/ \E h \in 1..(n - 1) : open[k] = rest[h]
      <3>1. CASE k < first
        <4>1. k \in 1..(n - 1) BY <1>1, <1>5, <3>1
        <4> QED BY <1>9, <3>1, <4>1
      <3>2. CASE k = first BY <1>5, <3>2
      <3>3. CASE k > first
        <4>1. k - 1 \in 1..(n - 1) /\ ~(k - 1 < first) /\ (k - 1) + 1 = k BY <1>1, <1>5, <3>3
        <4>2. rest[k - 1] = open[(k - 1) + 1] BY <1>9, <4>1
        <4> QED BY <4>1, <4>2
      <3> QED BY <1>5, <3>1, <3>2, <3>3
    <2>2. ASSUME NEW h \in 1..(n - 1) PROVE \E k \in 1..n : rest[h] = open[k]
      <3>1. h \in 1..n /\ h + 1 \in 1..n BY <1>1
      <3> QED BY <1>9, <3>1
    <2>3. Range(open) \subseteq {call} \cup Range(rest) BY <1>10, <2>1 DEF Range
    <2>4. Range(rest) \subseteq Range(open) BY <1>10, <2>2 DEF Range
    <2>5. call \in Range(open) BY <1>5, <1>10 DEF Range
    <2> QED BY <2>3, <2>4, <2>5
  <1>13. ASSUME Distinct(open) PROVE Distinct(rest) /\ ~Contains(rest, call)
    <2>0. \A i, j \in 1..n : open[i] = open[j] => i = j BY <1>11, <1>13 DEF Distinct
    <2> DEFINE at(k) == IF k < first THEN k ELSE k + 1
    <2>1. \A k \in 1..(n - 1) : at(k) \in 1..n /\ at(k) # first /\ rest[k] = open[at(k)]
      <3> TAKE k \in 1..(n - 1)
      <3>1. at(k) \in 1..n /\ at(k) # first BY <1>1, <1>5
      <3> QED BY <1>9, <3>1
    <2>2. \A k, h \in 1..(n - 1) : at(k) = at(h) => k = h BY <1>1, <1>5
    <2> HIDE DEF at
    <2>3. \A k, h \in 1..(n - 1) : rest[k] = rest[h] => k = h BY <2>0, <2>1, <2>2
    <2>4. \A k \in 1..(n - 1) : rest[k] # call BY <1>5, <2>0, <2>1
    <2>5. Len(rest) = n - 1 BY <1>8
    <2> QED BY <2>3, <2>4, <2>5 DEF Distinct, Contains
  <1> QED BY <1>8, <1>10, <1>12, <1>13

\* Where the repair stands: the rows that it has put out are paired, but for the
\* calls that are open; what waits for those is plain.
RepairStands(s) ==
  /\ s \in [out : Seq(Rows), open : Seq(Calls), held : Seq(Rows)]
  /\ \A i \in 1..Len(s.held) : Plain(s.held[i])
  /\ IF s.open = <<>> THEN s.held = <<>> /\ Paired(s.out) ELSE Waits(s.out, s.open)

\* Flushed, all are paired.
LEMMA FlushPairs ==
  ASSUME NEW s, RepairStands(s)
  PROVE  Flush(s).out \in Seq(Rows) /\ Paired(Flush(s).out)
  <1> DEFINE made == [i \in DOMAIN s.open |-> Missing(s.open[i])]
  <1>1. s.out \in Seq(Rows) /\ s.open \in Seq(Calls) /\ s.held \in Seq(Rows)
    BY DEF RepairStands
  <1>2. made \in Seq(Rows) /\ Paired(s.out \o made) /\ s.out \o made \in Seq(Rows)
    <2>1. CASE s.open = <<>>
      <3>1. DOMAIN s.open = {} BY <2>1
      <3>2. made = <<>> BY <3>1
      <3> HIDE DEF made
      <3>3. s.out \o made = s.out BY <1>1, <3>2
      <3> QED BY <1>1, <2>1, <3>2, <3>3 DEF RepairStands
    <2>2. CASE s.open # <<>>
      <3>1. Waits(s.out, s.open) BY <2>2 DEF RepairStands
      <3> QED BY <1>1, <3>1, MissingCome
    <2> QED BY <2>1, <2>2
  <1>3. Paired(s.held) BY <1>1, PlainIsPaired DEF RepairStands
  <1>4. Flush(s).out = s.out \o made \o s.held BY DEF Flush
  <1> HIDE DEF made
  <1> QED BY <1>1, <1>2, <1>3, <1>4, PairedJoin

\* A row that is written is one of four.
LEMMA FourRows ==
  ASSUME NEW m \in Written
  PROVE  /\ m \in Rows /\ m.calls \in Seq(Calls) /\ Distinct(m.calls)
         /\ \/ ~Told(m) /\ m.calls = <<>> /\ m.role # "tool"
            \/ Told(m) /\ m.calls # <<>> /\ m.role = "assistant" /\ ~IsResult(m)
            \/ Told(m) /\ m.calls = <<>> /\ m.role = "tool" /\ IsResult(m)
            \/ Told(m) /\ m.role # "tool" /\ Plain(m)
  <1>1. m \in Rows BY DEF Written
  <1>2. m.calls \in Seq(Calls) BY <1>1 DEF Rows
  <1> QED BY <1>1, <1>2 DEF Written, Told, IsResult, Plain

\* The next row finds it so, and leaves it so.
LEMMA RepairStepPairs ==
  ASSUME NEW s, RepairStands(s), NEW m \in Written
  PROVE  RepairStands(RepairStep(s, m))
  <1>1. s.out \in Seq(Rows) /\ s.open \in Seq(Calls) /\ s.held \in Seq(Rows)
    BY DEF RepairStands
  <1>2. m \in Rows /\ m.calls \in Seq(Calls) BY FourRows
  <1>3. CASE ~Told(m)
    <2>1. RepairStep(s, m) = s BY <1>3, FourRows DEF RepairStep
    <2> QED BY <2>1
  <1>4. CASE Told(m) /\ m.calls # <<>> /\ m.role = "assistant" /\ ~IsResult(m)
    <2> DEFINE out == Flush(s).out
    <2>1. RepairStep(s, m) = [out |-> Append(out, m), open |-> m.calls, held |-> <<>>]
      BY <1>4 DEF RepairStep
    <2>2. out \in Seq(Rows) /\ Paired(out) BY FlushPairs
    <2> HIDE DEF out
    <2>3. Append(out, m) \in Seq(Rows) /\ Waits(Append(out, m), m.calls)
      BY <1>2, <1>4, <2>2, RoundOpens
    <2> QED BY <1>2, <1>4, <2>1, <2>3 DEF RepairStands
  <1>5. CASE Told(m) /\ m.calls = <<>> /\ m.role = "tool" /\ IsResult(m)
    <2>1. CASE ~Contains(s.open, m.of)
      <3>1. RepairStep(s, m) = s BY <1>5, <2>1 DEF RepairStep
      <3> QED BY <3>1
    <2>2. CASE Contains(s.open, m.of)
      <3> DEFINE rest == RemoveFirst(s.open, m.of)
                 out == Append(s.out, m)
      <3>1. RepairStep(s, m) =
              IF rest = <<>> THEN [out |-> out \o s.held, open |-> <<>>, held |-> <<>>]
              ELSE [out |-> out, open |-> rest, held |-> s.held]
        BY <1>5, <2>2 DEF RepairStep
      <3>2. /\ rest \in Seq(Calls) /\ Len(s.open) = 1 + Len(rest)
            /\ Range(s.open) = {m.of} \cup Range(rest)
        BY <1>1, <2>2, FirstRemoved
      <3>3. s.open # <<>> BY <2>2 DEF Contains
      <3>4. Waits(s.out, s.open) BY <3>3 DEF RepairStands
      <3> HIDE DEF rest
      <3>5. out \in Seq(Rows) /\ Waits(out, rest)
        BY <1>1, <1>2, <1>5, <3>2, <3>4, ResultComes
      <3> HIDE DEF out
      <3>6. CASE rest = <<>>
        <4>1. Paired(out) BY <3>5, <3>6, NoneAwaited
        <4>2. Paired(s.held) BY <1>1, PlainIsPaired DEF RepairStands
        <4>3. Paired(out \o s.held) /\ out \o s.held \in Seq(Rows)
          BY <1>1, <3>5, <4>1, <4>2, PairedJoin
        <4> QED BY <3>1, <3>6, <4>3 DEF RepairStands
      <3>7. CASE rest # <<>>
        BY <1>1, <3>1, <3>2, <3>5, <3>7 DEF RepairStands
      <3> QED BY <3>6, <3>7
    <2> QED BY <2>1, <2>2
  <1>6. CASE Told(m) /\ m.role # "tool" /\ Plain(m)
    <2>1. CASE s.open # <<>>
      <3> DEFINE held == Append(s.held, m)
      <3>1. RepairStep(s, m) = [s EXCEPT !.held = held]
        BY <1>6, <2>1 DEF RepairStep, Plain
      <3>2. held \in Seq(Rows) /\ \A i \in 1..Len(held) : Plain(held[i])
        <4>1. /\ held \in Seq(Rows) /\ Len(held) = Len(s.held) + 1 /\ Len(s.held) \in Nat
              /\ held[Len(s.held) + 1] = m /\ \A i \in 1..Len(s.held) : held[i] = s.held[i]
          BY <1>1, <1>2
        <4>2. \A i \in 1..Len(s.held) : Plain(s.held[i]) BY DEF RepairStands
        <4> HIDE DEF held
        <4>3. ASSUME NEW i \in 1..Len(held) PROVE Plain(held[i])
          <5>1. i \in 1..Len(s.held) \/ i = Len(s.held) + 1 BY <4>1
          <5> QED BY <1>6, <4>1, <4>2, <5>1
        <4> QED BY <4>1, <4>3
      <3> HIDE DEF held
      <3>3. [s EXCEPT !.held = held] = [out |-> s.out, open |-> s.open, held |-> held]
        <4>1. s \in [out : Seq(Rows), open : Seq(Calls), held : Seq(Rows)] BY DEF RepairStands
        <4> QED BY ONLY <4>1
      <3>4. Waits(s.out, s.open) BY <2>1 DEF RepairStands
      <3> QED BY <1>1, <2>1, <3>1, <3>2, <3>3, <3>4 DEF RepairStands
    <2>2. CASE s.open = <<>>
      <3> DEFINE out == Append(s.out, m)
      <3>1. RepairStep(s, m) = [s EXCEPT !.out = out] BY <1>6, <2>2 DEF RepairStep, Plain
      <3>2. [s EXCEPT !.out = out] = [out |-> out, open |-> s.open, held |-> s.held]
        <4> HIDE DEF out
        <4>1. s \in [out : Seq(Rows), open : Seq(Calls), held : Seq(Rows)] BY DEF RepairStands
        <4> QED BY ONLY <4>1
      <3>3. s.held = <<>> /\ Paired(s.out) BY <2>2 DEF RepairStands
      <3>4. <<m>> \in Seq(Rows) /\ Paired(<<m>>)
        <4>1. <<m>> \in Seq(Rows) /\ \A i \in 1..Len(<<m>>) : <<m>>[i] = m BY <1>2
        <4> QED BY <1>6, <4>1, PlainIsPaired
      <3>5. out \in Seq(Rows) /\ Paired(out)
        <4>1. Append(s.out, m) = s.out \o <<m>> BY <1>1, <1>2, AppendIsConcat
        <4> QED BY <1>1, <3>3, <3>4, <4>1, PairedJoin
      <3> QED BY <1>1, <2>2, <3>1, <3>2, <3>3, <3>5 DEF RepairStands
    <2> QED BY <2>1, <2>2
  <1> QED BY <1>3, <1>4, <1>5, <1>6, FourRows

\* Whatever holds of a fresh repair, and outlives each row, holds at the end.
LEMMA RepairStandsAtEnd ==
  ASSUME NEW rows \in Seq(Written)
  PROVE  \A n \in 0..Len(rows) : RepairStands(Repaired(rows)[n])
  <1> DEFINE Fallen == {n \in 0..Len(rows) : ~RepairStands(Repaired(rows)[n])}
  <1>0. Len(rows) \in Nat OBVIOUS
  <1>1. Fallen = {}
    <2> SUFFICES ASSUME Fallen # {} PROVE FALSE OBVIOUS
    <2>0. Fallen \subseteq Nat OBVIOUS
    <2>1. PICK n \in Fallen : \A k \in Fallen : n <= k
      <3> HIDE DEF Fallen
      <3> QED BY <2>0, LeastOf
    <2>2. n \in 0..Len(rows) /\ ~RepairStands(Repaired(rows)[n]) BY <2>1
    <2>3. n # 0
      <3>1. RepairStands(Fresh)
        <4>1. <<>> \in Seq(Rows) /\ <<>> \in Seq(Calls) /\ Len(<<>>) = 0 /\ 1..0 = {} OBVIOUS
        <4>2. Paired(<<>>) BY <4>1, PlainIsPaired
        <4> QED BY <4>1, <4>2 DEF Fresh, RepairStands
      <3> QED BY <1>0, <2>2, <3>1, RepairedRowByRow
    <2>4. n \in 1..Len(rows) /\ n - 1 \in 0..Len(rows) /\ ~(n <= n - 1) BY <1>0, <2>2, <2>3
    <2>5. RepairStands(Repaired(rows)[n - 1]) BY <2>1, <2>4
    <2>6. rows[n] \in Written BY <2>4
    <2>7. Repaired(rows)[n] = RepairStep(Repaired(rows)[n - 1], rows[n])
      BY <1>0, <2>4, RepairedRowByRow
    <2> QED BY <2>2, <2>5, <2>6, <2>7, RepairStepPairs
  <1> QED BY <1>1

\* However rows were written, their repair is paired.
THEOREM RepairIsPaired ==
  ASSUME NEW rows \in Seq(Written)
  PROVE  Repair(rows) \in Seq(Rows) /\ Paired(Repair(rows))
  <1>1. Len(rows) \in 0..Len(rows) OBVIOUS
  <1>2. RepairStands(Repaired(rows)[Len(rows)]) BY <1>1, RepairStandsAtEnd
  <1> QED BY <1>2, FlushPairs DEF Repair

\* A result follows its round, and no other round comes between.
InOrder(rows) ==
  \A i, j \in 1..Len(rows) :
    (rows[j].role = "tool" /\ Contains(rows[i].calls, rows[j].of)) =>
      i < j /\ \A k \in (i + 1)..j : rows[k].calls = <<>>

\* The row of a result is its call's.
LEMMA ResultOfItsCall ==
  ASSUME NEW m \in Written, m.role = "tool"
  PROVE  m = Result(m.of)
  <1>1. m.calls = <<>> /\ m \in Rows BY DEF Written
  <1>2. m = [role |-> m.role, of |-> m.of, calls |-> m.calls] BY <1>1 DEF Rows
  <1> QED BY <1>1, <1>2 DEF Result, Row

\* A call in rows that have no result of it dangles.
LEMMA WhatDangles ==
  ASSUME NEW rows \in Seq(Written), NEW call,
         NEW i \in 1..Len(rows), Contains(rows[i].calls, call),
         \A j \in 1..Len(rows) : rows[j].role = "tool" => rows[j].of # call
  PROVE  call \in Dangling(rows)
  <1>1. rows[i] \in Written OBVIOUS
  <1>2. rows[i].calls \in Seq(Calls) BY <1>1, FourRows
  <1>3. call \in Range(rows[i].calls)
    <2>1. PICK p \in 1..Len(rows[i].calls) : rows[i].calls[p] = call BY DEF Contains
    <2>2. DOMAIN rows[i].calls = 1..Len(rows[i].calls) BY <1>2
    <2> QED BY <2>1, <2>2 DEF Range
  <1>4. ~Contains(rows, Result(call)) BY DEF Contains, Result, Row
  <1>5. DOMAIN rows = 1..Len(rows) OBVIOUS
  <1> QED BY <1>3, <1>4, <1>5 DEF Dangling, CallsOf

\* What is open after the first n rows: calls of the last round so far, without a
\* result so far; what has been made up is for calls that dangle.
OpenStands(rows, s, n) ==
  /\ \A m \in Range(s.out) \cup Range(s.held) :
       m.role = "missing" => m.of \in Dangling(rows)
  /\ Distinct(s.open)
  /\ \A call : Contains(s.open, call) =>
       \E i \in 1..n : /\ Contains(rows[i].calls, call)
                       /\ \A k \in (i + 1)..n : rows[k].calls = <<>>
                       /\ \A j \in 1..n : rows[j].role = "tool" => rows[j].of # call

\* What is open dangles, if no result of it comes after.
LEMMA FlushMakesUp ==
  ASSUME NEW rows \in Seq(Written), NEW s, RepairStands(s),
         NEW n \in 0..Len(rows), OpenStands(rows, s, n),
         \A i \in 1..n : \A j \in (n + 1)..Len(rows) :
           (rows[j].role = "tool" /\ Contains(rows[i].calls, rows[j].of)) =>
             \E k \in (i + 1)..n : rows[k].calls # <<>>
  PROVE  \A m \in Range(Flush(s).out) : m.role = "missing" => m.of \in Dangling(rows)
  <1> DEFINE made == [i \in DOMAIN s.open |-> Missing(s.open[i])]
  <1>1. s.out \in Seq(Rows) /\ s.open \in Seq(Calls) /\ s.held \in Seq(Rows)
    BY DEF RepairStands
  <1>2. \A call : Contains(s.open, call) => call \in Dangling(rows)
    <2> SUFFICES ASSUME NEW call, Contains(s.open, call) PROVE call \in Dangling(rows) OBVIOUS
    <2>1. PICK i \in 1..n : /\ Contains(rows[i].calls, call)
                            /\ \A k \in (i + 1)..n : rows[k].calls = <<>>
                            /\ \A j \in 1..n : rows[j].role = "tool" => rows[j].of # call
      BY DEF OpenStands
    <2>2. \A j \in (n + 1)..Len(rows) : rows[j].role = "tool" => rows[j].of # call
      BY <2>1
    <2>3. \A j \in 1..Len(rows) : j \in 1..n \/ j \in (n + 1)..Len(rows) OBVIOUS
    <2>4. \A j \in 1..Len(rows) : rows[j].role = "tool" => rows[j].of # call
      BY <2>1, <2>2, <2>3
    <2>5. i \in 1..Len(rows) OBVIOUS
    <2> QED BY <2>1, <2>4, <2>5, WhatDangles
  <1>3. \A call \in Calls : Missing(call) \in Rows /\ Missing(call).of = call
    BY DEF Missing, Row, Rows
  <1>4. DOMAIN s.open = 1..Len(s.open) /\ Len(s.open) \in Nat
        /\ \A i \in 1..Len(s.open) : s.open[i] \in Calls
    BY <1>1
  <1>5. made \in Seq(Rows) /\ \A m \in Range(made) : m.of \in Dangling(rows)
    <2>1. made \in Seq(Rows) /\ DOMAIN made = 1..Len(s.open) BY <1>3, <1>4
    <2>2. \A i \in 1..Len(s.open) : made[i].of = s.open[i] BY <1>3, <1>4
    <2>3. \A i \in 1..Len(s.open) : Contains(s.open, s.open[i]) BY DEF Contains
    <2> HIDE DEF made
    <2>4. \A i \in 1..Len(s.open) : made[i].of \in Dangling(rows) BY <1>2, <2>2, <2>3
    <2> QED BY <2>1, <2>4 DEF Range
  <1>6. Flush(s).out = s.out \o made \o s.held BY DEF Flush
  <1> HIDE DEF made
  <1>7. s.out \o made \in Seq(Rows) /\ Range(s.out \o made) = Range(s.out) \cup Range(made)
    BY <1>1, <1>5, RangeConcatenation
  <1> DEFINE most == s.out \o made
  <1>8. Range(Flush(s).out) = Range(s.out) \cup Range(made) \cup Range(s.held)
    <2>1. Flush(s).out = most \o s.held BY <1>6
    <2> HIDE DEF most
    <2>2. most \in Seq(Rows) /\ s.held \in Seq(Rows) BY <1>1, <1>7 DEF most
    <2>3. Range(most \o s.held) = Range(most) \cup Range(s.held)
      BY ONLY <2>2, RangeConcatenation
    <2> QED BY <1>7, <2>1, <2>3 DEF most
  <1> QED BY <1>5, <1>8 DEF OpenStands

\* An empty list has nobody in it.
LEMMA EmptyHasNone ==
  /\ Range(<<>>) = {} /\ Distinct(<<>>) /\ \A e : ~Contains(<<>>, e)
  BY DEF Range, Distinct, Contains

\* What is appended is added.
LEMMA AppendAdds ==
  ASSUME NEW rows \in Seq(Rows), NEW m \in Rows
  PROVE  Append(rows, m) \in Seq(Rows) /\ Range(Append(rows, m)) = Range(rows) \cup {m}
  <1>1. Append(rows, m) = rows \o <<m>> BY AppendIsConcat
  <1>2. <<m>> \in Seq(Rows) /\ Range(<<m>>) = {m} BY DEF Range
  <1>3. rows \in Seq(Rows) OBVIOUS
  <1>4. Range(rows \o <<m>>) = Range(rows) \cup Range(<<m>>)
    BY ONLY <1>2, <1>3, RangeConcatenation
  <1> QED BY <1>1, <1>2, <1>4

\* A row that makes no calls leaves the rounds as they are.
LEMMA OpenStays ==
  ASSUME NEW rows \in Seq(Written), NEW n \in 1..Len(rows), rows[n].calls = <<>>,
         NEW call, rows[n].role = "tool" => rows[n].of # call,
         \E i \in 1..(n - 1) : /\ Contains(rows[i].calls, call)
                               /\ \A k \in (i + 1)..(n - 1) : rows[k].calls = <<>>
                               /\ \A j \in 1..(n - 1) : rows[j].role = "tool" => rows[j].of # call
  PROVE  \E i \in 1..n : /\ Contains(rows[i].calls, call)
                         /\ \A k \in (i + 1)..n : rows[k].calls = <<>>
                         /\ \A j \in 1..n : rows[j].role = "tool" => rows[j].of # call
  <1>1. PICK i \in 1..(n - 1) :
          /\ Contains(rows[i].calls, call)
          /\ \A k \in (i + 1)..(n - 1) : rows[k].calls = <<>>
          /\ \A j \in 1..(n - 1) : rows[j].role = "tool" => rows[j].of # call
    OBVIOUS
  <1>2. i \in 1..n /\ \A k \in (i + 1)..n : k \in (i + 1)..(n - 1) \/ k = n BY <1>1
  <1>3. \A j \in 1..n : j \in 1..(n - 1) \/ j = n OBVIOUS
  <1> QED BY <1>1, <1>2, <1>3

\* So it is after each row of a history in order.
LEMMA RepairStepOpens ==
  ASSUME NEW rows \in Seq(Written), InOrder(rows), NEW n \in 1..Len(rows), NEW s,
         RepairStands(s), OpenStands(rows, s, n - 1)
  PROVE  OpenStands(rows, RepairStep(s, rows[n]), n)
  <1> DEFINE m == rows[n]
  <1>0. m \in Written /\ n - 1 \in 0..Len(rows) /\ n \in 1..n OBVIOUS
  <1>1. s.out \in Seq(Rows) /\ s.open \in Seq(Calls) /\ s.held \in Seq(Rows)
    BY DEF RepairStands
  <1>2. m \in Rows /\ m.calls \in Seq(Calls) /\ m.role # "missing" /\ Distinct(m.calls)
    BY <1>0, FourRows DEF Written
  <1>3. ASSUME m.calls = <<>>, NEW call, Contains(s.open, call), m.role = "tool" => m.of # call
        PROVE  \E i \in 1..n : /\ Contains(rows[i].calls, call)
                               /\ \A k \in (i + 1)..n : rows[k].calls = <<>>
                               /\ \A j \in 1..n : rows[j].role = "tool" => rows[j].of # call
    <2>1. \E i \in 1..(n - 1) :
            /\ Contains(rows[i].calls, call)
            /\ \A k \in (i + 1)..(n - 1) : rows[k].calls = <<>>
            /\ \A j \in 1..(n - 1) : rows[j].role = "tool" => rows[j].of # call
      BY <1>3 DEF OpenStands
    <2> QED BY <1>3, <2>1, OpenStays
  <1>4. Distinct(s.open) /\ \A r \in Range(s.out) \cup Range(s.held) :
          r.role = "missing" => r.of \in Dangling(rows)
    BY DEF OpenStands
  <1>5. CASE ~Told(m)
    <2>1. RepairStep(s, m) = s /\ m.calls = <<>> /\ m.role # "tool"
      BY <1>0, <1>5, FourRows DEF RepairStep
    <2> QED BY <1>3, <1>4, <2>1 DEF OpenStands
  <1>6. CASE Told(m) /\ m.calls # <<>> /\ m.role = "assistant"
    <2> DEFINE out == Flush(s).out
    <2>1. RepairStep(s, m) = [out |-> Append(out, m), open |-> m.calls, held |-> <<>>]
      BY <1>6 DEF RepairStep
    <2>2. \A r \in Range(out) : r.role = "missing" => r.of \in Dangling(rows)
      <3>1. ASSUME NEW i \in 1..(n - 1), NEW j \in ((n - 1) + 1)..Len(rows),
                   rows[j].role = "tool", Contains(rows[i].calls, rows[j].of)
            PROVE  FALSE
        <4>1. i \in 1..Len(rows) /\ j \in 1..Len(rows) /\ n \in (i + 1)..j OBVIOUS
        <4>2. rows[n].calls = <<>> BY <3>1, <4>1 DEF InOrder
        <4> QED BY <1>6, <4>2
      <3>2. \A i \in 1..(n - 1) : \A j \in ((n - 1) + 1)..Len(rows) :
              (rows[j].role = "tool" /\ Contains(rows[i].calls, rows[j].of)) =>
                \E k \in (i + 1)..(n - 1) : rows[k].calls # <<>>
        BY <3>1
      <3> QED BY <1>0, <3>2, FlushMakesUp
    <2>3. out \in Seq(Rows) BY FlushPairs
    <2> HIDE DEF out
    <2>4. \A r \in Range(Append(out, m)) : r.role = "missing" => r.of \in Dangling(rows)
      BY <1>2, <2>2, <2>3, AppendAdds
    <2>5. ASSUME NEW call, Contains(m.calls, call)
          PROVE  \E i \in 1..n : /\ Contains(rows[i].calls, call)
                                 /\ \A k \in (i + 1)..n : rows[k].calls = <<>>
                                 /\ \A j \in 1..n : rows[j].role = "tool" => rows[j].of # call
      <3>1. ASSUME NEW j \in 1..n, rows[j].role = "tool", rows[j].of = call PROVE FALSE
        <4>1. j \in 1..Len(rows) /\ n \in 1..Len(rows) /\ ~(n < j) OBVIOUS
        <4> QED BY <2>5, <3>1, <4>1 DEF InOrder
      <3>2. (n + 1)..n = {} OBVIOUS
      <3> QED BY <1>0, <2>5, <3>1, <3>2
    <2> QED BY <1>2, <2>1, <2>4, <2>5, EmptyHasNone DEF OpenStands
  <1>7. CASE Told(m) /\ m.calls = <<>> /\ m.role = "tool"
    <2>1. CASE ~Contains(s.open, m.of)
      <3>1. RepairStep(s, m) = s BY <1>7, <2>1 DEF RepairStep
      <3>2. \A call : Contains(s.open, call) => m.of # call BY <2>1
      <3> QED BY <1>3, <1>4, <1>7, <3>1, <3>2 DEF OpenStands
    <2>2. CASE Contains(s.open, m.of)
      <3> DEFINE rest == RemoveFirst(s.open, m.of)
                 out == Append(s.out, m)
      <3>1. RepairStep(s, m) =
              IF rest = <<>> THEN [out |-> out \o s.held, open |-> <<>>, held |-> <<>>]
              ELSE [out |-> out, open |-> rest, held |-> s.held]
        BY <1>7, <2>2 DEF RepairStep
      <3>2. /\ rest \in Seq(Calls) /\ Range(s.open) = {m.of} \cup Range(rest)
            /\ Distinct(rest) /\ ~Contains(rest, m.of)
        BY <1>1, <1>4, <2>2, FirstRemoved
      <3> HIDE DEF rest
      <3>3. \A call : Contains(rest, call) => Contains(s.open, call) /\ m.of # call
        <4>1. Range(rest) \subseteq Range(s.open) BY <3>2
        <4>2. \A call : Contains(rest, call) => call \in Range(rest)
          BY <3>2 DEF Contains, Range
        <4>3. \A call : call \in Range(s.open) => Contains(s.open, call)
          BY <1>1 DEF Contains, Range
        <4> QED BY <3>2, <4>1, <4>2, <4>3
      <3>4. out \in Seq(Rows) /\ Range(out) = Range(s.out) \cup {m} BY <1>1, <1>2, AppendAdds
      <3> HIDE DEF out
      <3>5. Range(out \o s.held) = Range(out) \cup Range(s.held)
        BY <1>1, <3>4, RangeConcatenation
      <3>6. \A r \in Range(out) \cup Range(s.held) :
              r.role = "missing" => r.of \in Dangling(rows)
        BY <1>2, <1>4, <3>4
      <3>7. CASE rest = <<>>
        BY <3>1, <3>5, <3>6, <3>7, EmptyHasNone DEF OpenStands
      <3>8. CASE rest # <<>>
        <4>1. RepairStep(s, m) = [out |-> out, open |-> rest, held |-> s.held] BY <3>1, <3>8
        <4> QED BY <1>3, <1>7, <3>2, <3>3, <3>6, <4>1 DEF OpenStands
      <3> QED BY <3>7, <3>8
    <2> QED BY <2>1, <2>2
  <1>8. CASE Told(m) /\ m.role # "tool" /\ Plain(m)
    <2>1. m.calls = <<>> BY <1>8 DEF Plain
    <2>2. s \in [out : Seq(Rows), open : Seq(Calls), held : Seq(Rows)] BY DEF RepairStands
    <2>3. CASE s.open # <<>>
      <3> DEFINE held == Append(s.held, m)
      <3>1. RepairStep(s, m) = [s EXCEPT !.held = held] BY <1>8, <2>1, <2>3 DEF RepairStep
      <3>2. Range(held) = Range(s.held) \cup {m} BY <1>1, <1>2, AppendAdds
      <3> HIDE DEF held
      <3>3. [s EXCEPT !.held = held] = [out |-> s.out, open |-> s.open, held |-> held]
        BY ONLY <2>2
      <3> QED BY <1>2, <1>3, <1>4, <1>8, <2>1, <3>1, <3>2, <3>3 DEF OpenStands
    <2>4. CASE s.open = <<>>
      <3> DEFINE out == Append(s.out, m)
      <3>1. RepairStep(s, m) = [s EXCEPT !.out = out] BY <1>8, <2>1, <2>4 DEF RepairStep
      <3>2. Range(out) = Range(s.out) \cup {m} BY <1>1, <1>2, AppendAdds
      <3> HIDE DEF out
      <3>3. [s EXCEPT !.out = out] = [out |-> out, open |-> s.open, held |-> s.held]
        BY ONLY <2>2
      <3> QED BY <1>2, <1>3, <1>4, <1>8, <2>1, <3>1, <3>2, <3>3 DEF OpenStands
    <2> QED BY <2>3, <2>4
  <1> QED BY <1>0, <1>5, <1>6, <1>7, <1>8, FourRows

\* A call is made up for only if it dangles.
THEOREM MadeUpDangles ==
  ASSUME NEW rows \in Seq(Written), InOrder(rows), NEW m \in Range(Repair(rows)),
         m.role = "missing"
  PROVE  m.of \in Dangling(rows)
  <1> DEFINE Fallen == {n \in 0..Len(rows) : ~OpenStands(rows, Repaired(rows)[n], n)}
             len == Len(rows)
  <1>0. len \in Nat OBVIOUS
  <1>1. Fallen = {}
    <2> SUFFICES ASSUME Fallen # {} PROVE FALSE OBVIOUS
    <2>0. Fallen \subseteq Nat OBVIOUS
    <2>1. PICK n \in Fallen : \A k \in Fallen : n <= k
      <3> HIDE DEF Fallen
      <3> QED BY <2>0, LeastOf
    <2>2. n \in 0..Len(rows) /\ ~OpenStands(rows, Repaired(rows)[n], n) BY <2>1
    <2>3. n # 0
      <3>1. OpenStands(rows, Fresh, 0) BY EmptyHasNone DEF Fresh, OpenStands
      <3> QED BY <1>0, <2>2, <3>1, RepairedRowByRow
    <2>4. n \in 1..Len(rows) /\ n - 1 \in 0..Len(rows) /\ ~(n <= n - 1) BY <1>0, <2>2, <2>3
    <2>5. OpenStands(rows, Repaired(rows)[n - 1], n - 1) BY <2>1, <2>4
    <2>6. RepairStands(Repaired(rows)[n - 1]) BY <2>4, RepairStandsAtEnd
    <2>7. Repaired(rows)[n] = RepairStep(Repaired(rows)[n - 1], rows[n])
      BY <1>0, <2>4, RepairedRowByRow
    <2> QED BY <2>2, <2>4, <2>5, <2>6, <2>7, RepairStepOpens
  <1>2. len \in 0..Len(rows) /\ (len + 1)..Len(rows) = {} BY <1>0
  <1>3. OpenStands(rows, Repaired(rows)[len], len) BY <1>1, <1>2
  <1>4. RepairStands(Repaired(rows)[len]) BY <1>2, RepairStandsAtEnd
  <1>5. \A r \in Range(Flush(Repaired(rows)[len]).out) :
          r.role = "missing" => r.of \in Dangling(rows)
    <2>1. \A i \in 1..len : \A j \in (len + 1)..Len(rows) :
            (rows[j].role = "tool" /\ Contains(rows[i].calls, rows[j].of)) =>
              \E k \in (i + 1)..len : rows[k].calls # <<>>
      BY <1>2
    <2> HIDE DEF len
    <2> QED BY <1>2, <1>3, <1>4, <2>1, FlushMakesUp
  <1> QED BY <1>5 DEF Repair

(***************************************************************************)
(* Domains                                                                 *)
(***************************************************************************)
\* Where a chat can be, and its locals.
Places == {"idle", "queued", "compacting", "rereading", "ready", "asking", "recovering",
           "tools", "confirming", "consulting", "running", "recording", "rounded", "closing",
           "leaving", "ended", "skipped", "lost"}

Locals ==
  [pc : Places, snap : Seq(Written), more : Seq(Written), turn : Nat, left : Seq(Calls),
   round : 1..2, used : Nat, last : Tools \cup {Nobody}, repeats : Nat, stop : BOOLEAN,
   sent : BOOLEAN, hired : BOOLEAN, ok : BOOLEAN, prefixed : BOOLEAN]

\* A call of the round is at hand.
InRound == {"tools", "confirming", "consulting", "running", "recording"}

\* The confirmations of a call are counted.
InCall == InRound \ {"tools"}

\* Between its turn at the service and its leaving.
Active == Places \ {"idle", "queued", "ended", "skipped", "lost"}

SessionDomains ==
  /\ history \in Seq(Written) /\ asked \in Nat
  /\ queue \in [Services -> Seq(Chats)]
  /\ chat \in [Chats -> Locals]

GateDomains ==
  /\ pending \subseteq Asks /\ allowed \subseteq Asks
  /\ remembered \in Seq(Tools) /\ granted \in [Chats -> Seq(Tools)]

\* A chat at a call has one left, and a call begins with its first confirmation.
RoundKept ==
  \A c \in Chats : /\ chat[c].pc \in InRound => chat[c].left # <<>>
                   /\ chat[c].pc \notin InCall => chat[c].round = 1

\* Whoever is at work has its turn.
OnesTurn == \A c \in Chats : chat[c].pc \in Active => Served(c)

\* No more is asked than the tool's confirmations.
AskedEnough ==
  \A c \in Chats : chat[c].pc \in {"confirming", "consulting"} =>
    chat[c].round <= Confirmations(Call(c).tool)

\* What is compacted is more than what is kept.
LongEnough == \A c \in Chats : chat[c].pc = "compacting" => Len(chat[c].snap) > Threshold

\* What is known of every reachable state, whatever the services.
SessionInv == SessionDomains /\ RoundKept /\ OnesTurn /\ AskedEnough /\ LongEnough

\* The rows that a chat writes are rows.
LEMMA RowsAreRows ==
  /\ \A c \in Chats : User(c) \in Written /\ Text(c) \in Written
  /\ \A c \in Chats : \A calls \in Seq(Calls) : Distinct(calls) => Asking(c, calls) \in Written
  /\ \A call \in Calls : Result(call) \in Written
  /\ Text(Nobody) \in Written /\ Summary \in Written /\ RecoveryNote \in Written
  <1>1. <<>> \in Seq(Calls) /\ Distinct(<<>>) BY EmptyHasNone
  <1> QED BY <1>1 DEF User, Text, Asking, Result, Summary, RecoveryNote, Row, Rows, Written

\* What a chat begins with, and what is left of one that is over.
LEMMA FreshLocals ==
  /\ NoChat \in Locals /\ NoChat.round = 1 /\ NoChat.pc = "idle"
  /\ \A pc \in Places : /\ Over(pc) \in Locals /\ Over(pc).pc = pc /\ Over(pc).round = 1
  <1>1. NoChat \in Locals /\ NoChat.round = 1 /\ NoChat.pc = "idle"
    BY DEF NoChat, Locals, Places
  <1>2. ASSUME NEW pc \in Places
        PROVE  Over(pc) \in Locals /\ Over(pc).pc = pc /\ Over(pc).round = 1
    BY <1>1 DEF Over, Locals
  <1> QED BY <1>1, <1>2

\* A chat moves alone.
LEMMA MovesAlone ==
  ASSUME SessionDomains, NEW c \in Chats, NEW l \in Locals, Becomes(c, l)
  PROVE  /\ chat' \in [Chats -> Locals] /\ chat'[c] = l
         /\ \A d \in Chats \ {c} : chat'[d] = chat[d]
  BY DEF SessionDomains, Becomes

\* The steps that touch neither the queue nor the gate.
QuietStep(c) ==
  \/ Begin(c) \/ CompactWrite(c) \/ CompactFail(c) \/ Reread(c) \/ Open(c)
  \/ LLMText(c) \/ LLMFail(c) \/ LLMGarbage(c) \/ Recovered(c) \/ PrefixStands(c)
  \/ LLMClaim(c) \/ LLMCalls(c) \/ CallRefused(c) \/ CallBegins(c) \/ CallEnds(c)
  \/ Record(c) \/ RoundEnds(c) \/ LastWords(c) \/ Throw(c)

\* How such a step moves a chat to l.
QuietMove(c, l) ==
  /\ Becomes(c, l) /\ l \in Locals
  /\ l.pc \in Active /\ (chat[c].pc \in Active \/ Served(c))
  /\ l.pc = "compacting" => Begin(c)
  /\ l.pc = "confirming" => CallBegins(c)
  /\ l.pc # "consulting"
  /\ l.pc = "running" => CallBegins(c)
  /\ l.pc \in InRound => l.left # <<>>
  /\ l.pc \notin InCall => l.round = 1
  /\ l.pc \in {"confirming", "running"} => l.left = chat[c].left /\ l.round = chat[c].round
  /\ l.pc \in {"compacting", "rereading"} => l.left = chat[c].left

\* What it does to the history.
QuietRows(c) ==
  \/ history' = history
  \/ \E m \in Written : history' = Append(history, m)
  \/ CompactWrite(c)

\* At a call there is one.
LEMMA CallIsCall ==
  ASSUME SessionInv, NEW c \in Chats, chat[c].pc \in InRound
  PROVE  /\ Call(c) \in Calls /\ Tail(chat[c].left) \in Seq(Calls)
         /\ Counted(c) \in Locals /\ Counted(c).left = chat[c].left
         /\ Counted(c).round = chat[c].round
  <1>1. chat[c].left # <<>> /\ chat[c] \in Locals
    BY DEF SessionInv, SessionDomains, RoundKept
  <1>2. chat[c].left \in Seq(Calls) BY <1>1 DEF Locals
  <1>3. Call(c) \in Calls /\ Tail(chat[c].left) \in Seq(Calls) BY <1>1, <1>2 DEF Call
  <1> DEFINE repeats == IF chat[c].last = Call(c).tool THEN chat[c].repeats + 1 ELSE 1
             used == IF Listed(c) THEN chat[c].used + 1 ELSE chat[c].used
  <1>4. repeats \in Nat /\ used \in Nat BY <1>1 DEF Locals
  <1>5. Counted(c) = [chat[c] EXCEPT !.last = Call(c).tool, !.repeats = repeats, !.used = used]
    BY DEF Counted
  <1>6. Call(c).tool \in Tools BY <1>3 DEF Calls
  <1> HIDE DEF repeats, used
  <1> QED BY <1>1, <1>3, <1>4, <1>5, <1>6 DEF Locals

\* The moves before the first turn.
LEMMA OpeningMoves ==
  ASSUME SessionInv, NEW c \in Chats,
         Begin(c) \/ CompactWrite(c) \/ CompactFail(c) \/ Reread(c) \/ Open(c)
  PROVE  (\E l \in Locals : QuietMove(c, l)) /\ QuietRows(c)
  <1> USE DEF At
  <1>0. /\ history \in Seq(Written) /\ chat[c] \in Locals
        /\ chat[c].pc \notin InCall => chat[c].round = 1
    BY DEF SessionInv, SessionDomains, RoundKept
  <1>1. CASE Begin(c)
    <2> DEFINE pc == IF Len(history) > Threshold /\ ~cooling THEN "compacting" ELSE "ready"
               l == [chat[c] EXCEPT !.snap = history, !.pc = pc]
    <2>1. Becomes(c, l) /\ chat[c].pc = "queued" /\ Served(c) /\ history' = history
      BY <1>1 DEF Begin, sessionVars
    <2>2. pc \in {"compacting", "ready"} OBVIOUS
    <2> HIDE DEF pc
    <2>3. l \in Locals /\ l.pc = pc /\ l.round = 1 /\ l.left = chat[c].left
      BY <1>0, <2>1, <2>2 DEF Locals, Places, InCall, InRound
    <2> HIDE DEF l
    <2> QED
      BY <1>1, <2>1, <2>2, <2>3 DEF QuietMove, QuietRows, Active, Places, InRound, InCall
  <1>2. CASE CompactWrite(c) \/ CompactFail(c)
    <2> DEFINE l(pc) == [chat[c] EXCEPT !.pc = pc]
    <2>1. PICK pc \in {"rereading", "ready"} : Becomes(c, l(pc))
      BY <1>2 DEF CompactWrite, CompactFail
    <2>2. chat[c].pc \in {"compacting", "rereading"} /\ (CompactWrite(c) \/ history' = history)
      BY <1>2 DEF CompactWrite, CompactFail, sessionVars
    <2>3. l(pc) \in Locals /\ l(pc).pc = pc /\ l(pc).round = 1 /\ l(pc).left = chat[c].left
      BY <1>0, <2>1, <2>2 DEF Locals, Places, InCall, InRound
    <2> HIDE DEF l
    <2> QED
      BY <1>2, <2>1, <2>2, <2>3 DEF QuietMove, QuietRows, Active, Places, InRound, InCall
  <1>3. CASE Reread(c)
    <2> DEFINE l == [chat[c] EXCEPT !.snap = history, !.pc = "ready"]
    <2>1. Becomes(c, l) /\ chat[c].pc = "rereading" /\ history' = history
      BY <1>3 DEF Reread, sessionVars
    <2>2. l \in Locals /\ l.pc = "ready" /\ l.round = 1
      BY <1>0, <2>1 DEF Locals, Places, InCall, InRound
    <2> HIDE DEF l
    <2> QED BY <2>1, <2>2 DEF QuietMove, QuietRows, Active, Places, InRound, InCall
  <1>4. CASE Open(c)
    <2> DEFINE l == [chat[c] EXCEPT !.more = <<User(c)>>, !.pc = "asking"]
    <2>1. Becomes(c, l) /\ chat[c].pc = "ready" /\ history' = Append(history, User(c))
      BY <1>4 DEF Open, AddMessage
    <2>2. User(c) \in Written /\ <<User(c)>> \in Seq(Written) BY RowsAreRows
    <2>3. l \in Locals /\ l.pc = "asking" /\ l.round = 1
      BY <1>0, <2>1, <2>2 DEF Locals, Places, InCall, InRound
    <2> HIDE DEF l
    <2> QED BY <2>1, <2>2, <2>3 DEF QuietMove, QuietRows, Active, Places, InRound, InCall
  <1> QED BY <1>1, <1>2, <1>3, <1>4

\* The moves that end a chat, well or not.
LEMMA ClosingMoves ==
  ASSUME SessionInv, NEW c \in Chats,
         \/ LLMText(c) \/ LLMFail(c) \/ Recovered(c) \/ PrefixStands(c) \/ LastWords(c)
         \/ Throw(c)
  PROVE  (\E l \in Locals : QuietMove(c, l)) /\ QuietRows(c)
  <1>1. Becomes(c, Over("leaving"))
    BY DEF LLMText, LLMFail, Recovered, PrefixStands, LastWords, Throw, Close
  <1>2. history' = history \/ history' = Append(history, Text(c))
    BY DEF LLMText, LLMFail, Recovered, PrefixStands, LastWords, Throw, Close, AddMessage,
           sessionVars
  <1>3. chat[c].pc \in Active \/ Served(c)
    BY DEF LLMText, LLMFail, Recovered, PrefixStands, LastWords, Throw, At, Active, Places
  <1>4. Over("leaving") \in Locals /\ Over("leaving").pc = "leaving" /\ Over("leaving").round = 1
    BY FreshLocals DEF Places
  <1>5. QuietRows(c) BY <1>2, RowsAreRows DEF QuietRows
  <1> QED BY <1>1, <1>3, <1>4, <1>5 DEF QuietMove, Active, Places, InRound, InCall

\* The answers of the model after which a chat goes on.
LEMMA AnswerMoves ==
  ASSUME SessionInv, NEW c \in Chats, LLMGarbage(c) \/ LLMClaim(c) \/ LLMCalls(c)
  PROVE  (\E l \in Locals : QuietMove(c, l)) /\ QuietRows(c)
  <1>0. /\ chat[c] \in Locals /\ chat[c].pc = "asking" /\ chat[c].round = 1 /\ asked \in Nat
    BY DEF SessionInv, SessionDomains, RoundKept, InCall, InRound, LLMGarbage, LLMClaim,
           LLMCalls, At
  <1>1. chat[c].more \in Seq(Written) /\ chat[c].turn \in Nat BY <1>0 DEF Locals
  <1> DEFINE told == chat[c].more \o <<Text(c), User(c)>>
  <1>2. told \in Seq(Written)
    <2>1. <<Text(c), User(c)>> \in Seq(Written) BY RowsAreRows
    <2> QED BY <1>1, <2>1
  <1>3. CASE LLMGarbage(c)
    <2> DEFINE l(b) == [chat[c] EXCEPT !.more = told, !.prefixed = b, !.pc = "recovering"]
    <2>1. PICK b \in BOOLEAN : Becomes(c, l(b)) BY <1>3 DEF LLMGarbage
    <2>2. history' = history \/ history' = Append(history, Text(c))
      BY <1>3 DEF LLMGarbage, AddMessage
    <2> HIDE DEF told
    <2>3. l(b) \in Locals /\ l(b).pc = "recovering" /\ l(b).round = 1
      BY <1>0, <1>2 DEF Locals, Places
    <2> HIDE DEF l
    <2> QED
      BY <1>0, <2>1, <2>2, <2>3, RowsAreRows
      DEF QuietMove, QuietRows, Active, Places, InRound, InCall
  <1>4. CASE LLMClaim(c)
    <2> DEFINE turn == chat[c].turn + 1
               l == [chat[c] EXCEPT !.more = told, !.turn = turn]
    <2>1. Becomes(c, l) /\ history' = history BY <1>4 DEF LLMClaim, sessionVars
    <2>2. turn \in Nat BY <1>1
    <2> HIDE DEF told, turn
    <2>3. l \in Locals /\ l.pc = "asking" /\ l.round = 1 BY <1>0, <1>2, <2>2 DEF Locals
    <2> HIDE DEF l
    <2> QED BY <1>0, <2>1, <2>3 DEF QuietMove, QuietRows, Active, Places, InRound, InCall
  <1>5. CASE LLMCalls(c)
    <2>1. PICK n \in 1..MaxRound : \E tools \in [1..n -> Tools] :
            LET calls == [i \in 1..n |-> [n |-> asked + i, tool |-> tools[i]]]
            IN  /\ AddMessage(Asking(c, calls))
                /\ Becomes(c, [chat[c] EXCEPT !.more = Append(@, Asking(c, calls)),
                                 !.left = calls, !.hired = FALSE, !.pc = "tools",
                                 !.sent = @ \/ \E i \in 1..n : tools[i] \in Dispatching])
      BY <1>5 DEF LLMCalls
    <2>2. PICK tools \in [1..n -> Tools] :
            LET calls == [i \in 1..n |-> [n |-> asked + i, tool |-> tools[i]]]
            IN  /\ AddMessage(Asking(c, calls))
                /\ Becomes(c, [chat[c] EXCEPT !.more = Append(@, Asking(c, calls)),
                                 !.left = calls, !.hired = FALSE, !.pc = "tools",
                                 !.sent = @ \/ \E i \in 1..n : tools[i] \in Dispatching])
      BY <2>1
    <2> DEFINE calls == [i \in 1..n |-> [n |-> asked + i, tool |-> tools[i]]]
               more == Append(chat[c].more, Asking(c, calls))
               sent == chat[c].sent \/ \E i \in 1..n : tools[i] \in Dispatching
               l == [chat[c] EXCEPT !.more = more, !.left = calls, !.hired = FALSE,
                                    !.pc = "tools", !.sent = sent]
    <2>3. history' = Append(history, Asking(c, calls)) /\ Becomes(c, l)
      BY <2>2 DEF AddMessage
    <2>4. calls \in Seq(Calls) /\ calls # <<>> /\ Distinct(calls)
      <3>1. n \in Nat \ {0} BY SessionAssumption
      <3>2. \A i \in 1..n : [n |-> asked + i, tool |-> tools[i]] \in Calls
        BY <1>0, <3>1 DEF Calls
      <3>3. calls \in Seq(Calls) /\ calls # <<>> /\ Len(calls) = n BY <3>1, <3>2
      <3>4. \A i \in 1..n : calls[i].n = asked + i OBVIOUS
      <3>5. \A i, j \in 1..n : asked + i = asked + j => i = j BY <1>0, <3>1
      <3> HIDE DEF calls
      <3>6. \A i, j \in 1..n : calls[i] = calls[j] => i = j
        <4> TAKE i, j \in 1..n
        <4> HAVE calls[i] = calls[j]
        <4>1. asked + i = asked + j BY <3>4
        <4> QED BY <3>5, <4>1
      <3> QED BY <3>3, <3>6 DEF Distinct
    <2> HIDE DEF calls
    <2>5. Asking(c, calls) \in Written BY <2>4, RowsAreRows
    <2>6. more \in Seq(Written) BY <1>1, <2>5
    <2>7. sent \in BOOLEAN OBVIOUS
    <2> HIDE DEF more, sent
    <2>8. l \in Locals /\ l.pc = "tools" /\ l.round = 1 /\ l.left = calls
      BY <1>0, <2>4, <2>6, <2>7 DEF Locals, Places
    <2> HIDE DEF l
    <2> QED
      BY <1>0, <2>3, <2>4, <2>5, <2>8 DEF QuietMove, QuietRows, Active, Places, InRound, InCall
  <1> QED BY <1>3, <1>4, <1>5

\* The moves at a call, but for the questions to the user.
LEMMA CallMoves ==
  ASSUME SessionInv, NEW c \in Chats,
         CallRefused(c) \/ CallBegins(c) \/ CallEnds(c) \/ Record(c) \/ RoundEnds(c)
  PROVE  (\E l \in Locals : QuietMove(c, l)) /\ QuietRows(c)
  <1>0. chat[c] \in Locals BY DEF SessionInv, SessionDomains
  <1>1. CASE CallRefused(c)
    <2> DEFINE b == Counted(c).stop \/ (Listed(c) /\ Spent(c))
               l == [Counted(c) EXCEPT !.stop = b, !.pc = "recording"]
    <2>1. Becomes(c, l) /\ chat[c].pc = "tools" /\ history' = history
      BY <1>1 DEF CallRefused, At, sessionVars
    <2>2. Counted(c) \in Locals /\ Counted(c).left = chat[c].left
      BY <2>1, CallIsCall DEF InRound
    <2>3. chat[c].left # <<>> BY <2>1 DEF SessionInv, RoundKept, InRound
    <2>4. b \in BOOLEAN OBVIOUS
    <2> HIDE DEF b
    <2>5. l \in Locals /\ l.pc = "recording" /\ l.left = chat[c].left
      BY <2>2, <2>4 DEF Locals, Places
    <2> HIDE DEF l
    <2> QED
      BY <2>1, <2>3, <2>5 DEF QuietMove, QuietRows, Active, Places, InRound, InCall
  <1>2. CASE CallBegins(c)
    <2> DEFINE pc == IF RunsUnasked(c, Call(c).tool) THEN "running" ELSE "confirming"
               l == [Counted(c) EXCEPT !.pc = pc]
    <2>1. Becomes(c, l) /\ chat[c].pc = "tools" /\ history' = history
      BY <1>2 DEF CallBegins, At, sessionVars
    <2>2. /\ Counted(c) \in Locals /\ Counted(c).left = chat[c].left
          /\ Counted(c).round = chat[c].round
      BY <2>1, CallIsCall DEF InRound
    <2>3. chat[c].left # <<>> BY <2>1 DEF SessionInv, RoundKept, InRound
    <2>4. pc \in {"running", "confirming"} OBVIOUS
    <2> HIDE DEF pc
    <2>5. l \in Locals /\ l.pc = pc /\ l.left = chat[c].left /\ l.round = chat[c].round
      BY <2>2, <2>4 DEF Locals, Places
    <2> HIDE DEF l
    <2> QED
      BY <1>2, <2>1, <2>3, <2>4, <2>5 DEF QuietMove, QuietRows, Active, Places, InRound, InCall
  <1>3. CASE CallEnds(c)
    <2> DEFINE l(ok) == [chat[c] EXCEPT !.ok = ok, !.pc = "recording"]
    <2>1. PICK ok \in BOOLEAN : Becomes(c, l(ok)) BY <1>3 DEF CallEnds
    <2>2. chat[c].pc = "running" /\ history' = history BY <1>3 DEF CallEnds, At, sessionVars
    <2>3. chat[c].left # <<>> BY <2>2 DEF SessionInv, RoundKept, InRound
    <2>4. l(ok) \in Locals /\ l(ok).pc = "recording" /\ l(ok).left = chat[c].left
      BY <1>0 DEF Locals, Places
    <2> HIDE DEF l
    <2> QED
      BY <2>1, <2>2, <2>3, <2>4 DEF QuietMove, QuietRows, Active, Places, InRound, InCall
  <1>4. CASE Record(c)
    <2> DEFINE rest == Tail(chat[c].left)
               more == Append(chat[c].more, Result(Call(c)))
               hired == chat[c].hired \/ (chat[c].ok /\ Call(c).tool \in Dispatching)
               pc == IF rest # <<>> THEN "tools" ELSE "rounded"
               l == [chat[c] EXCEPT !.more = more, !.left = rest, !.hired = hired,
                                    !.ok = FALSE, !.round = 1, !.pc = pc]
    <2>1. Becomes(c, l) /\ chat[c].pc = "recording"
          /\ history' = Append(history, Result(Call(c)))
      BY <1>4 DEF Record, At, AddMessage
    <2>2. Call(c) \in Calls /\ rest \in Seq(Calls) BY <2>1, CallIsCall DEF InRound
    <2> HIDE DEF rest
    <2>3. Result(Call(c)) \in Written BY <2>2, RowsAreRows
    <2>4. more \in Seq(Written)
      <3>1. chat[c].more \in Seq(Written) BY <1>0 DEF Locals
      <3> QED BY <2>3, <3>1
    <2>5. hired \in BOOLEAN /\ pc \in {"tools", "rounded"} OBVIOUS
    <2>6. pc = "tools" => rest # <<>> OBVIOUS
    <2> HIDE DEF more, hired, pc
    <2>7. pc \in Places BY <2>5 DEF Places
    <2>8. 1 \in 1..2 /\ FALSE \in BOOLEAN OBVIOUS
    <2>9. l \in Locals /\ l.pc = pc /\ l.left = rest /\ l.round = 1
      BY ONLY <1>0, <2>2, <2>4, <2>5, <2>7, <2>8 DEF Locals
    <2> HIDE DEF l
    <2> QED
      BY <2>1, <2>3, <2>5, <2>6, <2>9 DEF QuietMove, QuietRows, Active, Places, InRound, InCall
  <1>5. CASE RoundEnds(c)
    <2> DEFINE nudged == [chat[c] EXCEPT !.more = Append(@, User(c)), !.pc = "closing"]
               pc == IF chat[c].turn + 1 = MaxTurns THEN "closing" ELSE "asking"
               turn == chat[c].turn + 1
               next == [chat[c] EXCEPT !.turn = turn, !.pc = pc]
    <2>1. /\ Becomes(c, Over("leaving")) \/ Becomes(c, nudged) \/ Becomes(c, next)
          /\ chat[c].pc = "rounded" /\ history' = history
      BY <1>5 DEF RoundEnds, At, sessionVars
    <2>2. chat[c].round = 1 BY <2>1 DEF SessionInv, RoundKept, InCall, InRound
    <2>3. nudged \in Locals /\ nudged.pc = "closing" /\ nudged.round = 1
      <3>1. chat[c].more \in Seq(Written) /\ User(c) \in Written BY <1>0, RowsAreRows DEF Locals
      <3>2. Append(chat[c].more, User(c)) \in Seq(Written) BY <3>1
      <3> QED BY <1>0, <2>2, <3>2 DEF Locals, Places
    <2>4. pc \in {"closing", "asking"} OBVIOUS
    <2>5. turn \in Nat BY <1>0 DEF Locals
    <2> HIDE DEF pc, turn
    <2>6. next \in Locals /\ next.pc = pc /\ next.round = 1
      BY <1>0, <2>2, <2>4, <2>5 DEF Locals, Places
    <2>7. /\ Over("leaving") \in Locals /\ Over("leaving").pc = "leaving"
          /\ Over("leaving").round = 1
      BY FreshLocals DEF Places
    <2> HIDE DEF nudged, next
    <2>8. \E l \in {Over("leaving"), nudged, next} : Becomes(c, l) BY <2>1
    <2> QED
      BY <2>1, <2>3, <2>4, <2>6, <2>7, <2>8
      DEF QuietMove, QuietRows, Active, Places, InRound, InCall
  <1> QED BY <1>1, <1>2, <1>3, <1>4, <1>5

\* What stays as it is in such a step.
LEMMA QuietLeaves ==
  ASSUME SessionInv, NEW c \in Chats, QuietStep(c)
  PROVE  asked' \in Nat /\ UNCHANGED <<queue, up, gateVars>>
  <1>1. asked \in Nat BY DEF SessionInv, SessionDomains
  <1>2. asked' = asked \/ LLMCalls(c)
    BY DEF QuietStep, Begin, CompactWrite, CompactFail, Reread, Open, LLMText, LLMFail,
           LLMGarbage, Recovered, PrefixStands, LLMClaim, CallRefused, CallBegins, CallEnds,
           Record, RoundEnds, LastWords, Throw, Close
  <1>3. ASSUME LLMCalls(c) PROVE asked' \in Nat
    <2>1. PICK n \in 1..MaxRound : asked' = asked + n BY <1>3 DEF LLMCalls
    <2> QED BY <1>1, <2>1, SessionAssumption
  <1>4. UNCHANGED <<queue, up, gateVars>>
    BY DEF QuietStep, Begin, CompactWrite, CompactFail, Reread, Open, LLMText, LLMFail,
           LLMGarbage, Recovered, PrefixStands, LLMClaim, LLMCalls, CallRefused, CallBegins,
           CallEnds, Record, RoundEnds, LastWords, Throw, Close
  <1> QED BY <1>1, <1>2, <1>3, <1>4

\* All of them.
LEMMA QuietMoves ==
  ASSUME SessionInv, NEW c \in Chats, QuietStep(c)
  PROVE  (\E l \in Locals : QuietMove(c, l)) /\ QuietRows(c)
  <1>1. CASE Begin(c) \/ CompactWrite(c) \/ CompactFail(c) \/ Reread(c) \/ Open(c)
    BY <1>1, OpeningMoves
  <1>2. CASE \/ LLMText(c) \/ LLMFail(c) \/ Recovered(c) \/ PrefixStands(c) \/ LastWords(c)
             \/ Throw(c)
    BY <1>2, ClosingMoves
  <1>3. CASE LLMGarbage(c) \/ LLMClaim(c) \/ LLMCalls(c) BY <1>3, AnswerMoves
  <1>4. CASE CallRefused(c) \/ CallBegins(c) \/ CallEnds(c) \/ Record(c) \/ RoundEnds(c)
    BY <1>4, CallMoves
  <1> QED BY <1>1, <1>2, <1>3, <1>4 DEF QuietStep

\* A summary and the rows kept are rows.
LEMMA CompactedRows ==
  ASSUME SessionInv, NEW c \in Chats, chat[c].pc = "compacting"
  PROVE  /\ Recent(chat[c].snap) \in Seq(Written)
         /\ <<Summary>> \o Recent(chat[c].snap) \in Seq(Written)
  <1>1. chat[c].snap \in Seq(Written) BY DEF SessionInv, SessionDomains, Locals
  <1>2. Len(chat[c].snap) > Threshold BY DEF SessionInv, LongEnough
  <1>3. Keep \in Nat \ {0} /\ Threshold \in Nat /\ Threshold >= Keep BY SessionAssumption
  <1>4. Len(chat[c].snap) \in Nat /\ Len(chat[c].snap) - Keep + 1 \in 1..Len(chat[c].snap)
    BY <1>1, <1>2, <1>3
  <1>5. Recent(chat[c].snap) \in Seq(Written) BY <1>1, <1>4, SubSeqProperties DEF Recent
  <1>6. <<Summary>> \in Seq(Written) BY RowsAreRows
  <1> QED BY <1>5, <1>6

\* The domains, the round and the turn outlive a quiet step.
LEMMA QuietKeeps ==
  ASSUME SessionInv, NEW c \in Chats, QuietStep(c)
  PROVE  SessionInv'
  <1>1. PICK l \in Locals : QuietMove(c, l) BY QuietMoves
  <1>2. /\ chat' \in [Chats -> Locals] /\ chat'[c] = l
        /\ \A d \in Chats \ {c} : chat'[d] = chat[d]
    BY <1>1, MovesAlone DEF QuietMove, SessionInv
  <1>3. asked' \in Nat /\ queue' = queue BY QuietLeaves
  <1>4. history' \in Seq(Written)
    <2>1. history \in Seq(Written) BY DEF SessionInv, SessionDomains
    <2>2. CASE CompactWrite(c)
      <3>1. chat[c].pc = "compacting" BY <2>2 DEF CompactWrite, At
      <3>2. history' = history \/ history' = <<Summary>> \o Recent(chat[c].snap)
        BY <2>2 DEF CompactWrite, sessionVars
      <3> QED BY <2>1, <3>1, <3>2, CompactedRows
    <2>3. CASE history' = history \/ \E m \in Written : history' = Append(history, m)
      BY <2>1, <2>3
    <2> QED BY <2>2, <2>3, QuietMoves DEF QuietRows
  <1>5. SessionDomains' BY <1>2, <1>3, <1>4 DEF SessionInv, SessionDomains
  <1>6. RoundKept' BY <1>1, <1>2 DEF SessionInv, RoundKept, QuietMove
  <1>7. OnesTurn'
    <2>1. Served(c) BY <1>1 DEF QuietMove, SessionInv, OnesTurn
    <2> QED BY <1>2, <1>3, <2>1 DEF SessionInv, OnesTurn, Served
  <1>8. LongEnough'
    <2>1. ASSUME l.pc = "compacting" PROVE Len(l.snap) > Threshold
      <3>1. Begin(c) BY <1>1, <2>1 DEF QuietMove
      <3> DEFINE pc == IF Len(history) > Threshold /\ ~cooling THEN "compacting" ELSE "ready"
      <3>2. chat' = [chat EXCEPT ![c] = [chat[c] EXCEPT !.snap = history, !.pc = pc]]
        BY <3>1 DEF Begin, Becomes
      <3> HIDE DEF pc
      <3>3. chat'[c].pc = pc /\ chat'[c].snap = history
        BY <3>2 DEF SessionInv, SessionDomains, Locals
      <3> QED BY <1>2, <2>1, <3>3 DEF pc
    <2> QED BY <1>2, <2>1 DEF SessionInv, LongEnough
  <1>9. AskedEnough'
    <2>1. ASSUME l.pc = "confirming" PROVE l.round <= Confirmations(Head(l.left).tool)
      <3>1. chat[c].pc = "tools" /\ l.round = chat[c].round
        BY <1>1, <2>1 DEF QuietMove, CallBegins, At
      <3>2. l.round = 1 BY <3>1 DEF SessionInv, RoundKept, InCall
      <3> QED BY <3>2 DEF Confirmations
    <2>2. l.pc # "consulting" BY <1>1 DEF QuietMove
    <2> QED BY <1>2, <2>1, <2>2 DEF SessionInv, AskedEnough, Call
  <1> QED BY <1>5, <1>6, <1>7, <1>8, <1>9 DEF SessionInv

\* A chat that asks its user keeps its turn and its call.
LEMMA AskingMove ==
  ASSUME SessionInv, NEW c \in Chats, chat[c].pc \in {"confirming", "consulting"},
         NEW pc \in {"confirming", "consulting", "running", "recording"}, NEW round \in 1..2,
         round <= Confirmations(Call(c).tool),
         Becomes(c, [chat[c] EXCEPT !.round = round, !.pc = pc]),
         UNCHANGED <<history, asked, queue>>
  PROVE  /\ SessionInv'
         /\ chat'[c].pc = pc /\ chat'[c].round = round /\ chat'[c].left = chat[c].left
         /\ \A d \in Chats \ {c} : chat'[d] = chat[d]
  <1> DEFINE l == [chat[c] EXCEPT !.round = round, !.pc = pc]
  <1>1. l \in Locals /\ l.pc = pc /\ l.round = round /\ l.left = chat[c].left
    BY DEF SessionInv, SessionDomains, Locals, Places
  <1>2. Becomes(c, l) OBVIOUS
  <1> HIDE DEF l
  <1>3. /\ chat' \in [Chats -> Locals] /\ chat'[c] = l
        /\ \A d \in Chats \ {c} : chat'[d] = chat[d]
    BY <1>1, <1>2, MovesAlone DEF SessionInv
  <1>4. chat[c].left # <<>> /\ Served(c)
    BY DEF SessionInv, RoundKept, OnesTurn, InRound, Active, Places
  <1>5. SessionDomains' BY <1>3 DEF SessionInv, SessionDomains
  <1>6. RoundKept' BY <1>1, <1>3, <1>4 DEF SessionInv, RoundKept, InRound, InCall
  <1>7. OnesTurn' BY <1>3, <1>4 DEF SessionInv, OnesTurn, Served
  <1>8. LongEnough' BY <1>1, <1>3 DEF SessionInv, LongEnough
  <1>9. AskedEnough' BY <1>1, <1>3 DEF SessionInv, AskedEnough, Call
  <1> QED BY <1>1, <1>3, <1>5, <1>6, <1>7, <1>8, <1>9 DEF SessionInv

\* The next question, or none.
LEMMA AskUserKeeps ==
  ASSUME SessionInv, NEW c \in Chats, AskUser(c)
  PROVE  /\ SessionInv'
         /\ chat'[c].pc = "consulting" /\ chat'[c].round = chat[c].round
         /\ chat'[c].left = chat[c].left
         /\ \A d \in Chats \ {c} : chat'[d] = chat[d]
  <1>1. /\ chat[c].pc = "confirming" /\ UNCHANGED <<history, asked, queue>>
        /\ Becomes(c, [chat[c] EXCEPT !.pc = "consulting"])
    BY DEF AskUser, At, sessionVars
  <1>2. chat[c].round \in 1..2 /\ chat[c].round <= Confirmations(Call(c).tool)
    BY <1>1 DEF SessionInv, SessionDomains, Locals, AskedEnough
  <1>3. [chat[c] EXCEPT !.pc = "consulting"]
          = [chat[c] EXCEPT !.round = chat[c].round, !.pc = "consulting"]
    BY DEF SessionInv, SessionDomains, Locals
  <1> QED BY <1>1, <1>2, <1>3, AskingMove

\* The user says no.
LEMMA NotAllowedKeeps ==
  ASSUME SessionInv, NEW c \in Chats, NotAllowed(c)
  PROVE  /\ SessionInv'
         /\ chat'[c].pc = "recording" /\ chat'[c].left = chat[c].left
         /\ \A d \in Chats \ {c} : chat'[d] = chat[d]
  <1>1. /\ chat[c].pc = "consulting" /\ UNCHANGED <<history, asked, queue>>
        /\ Becomes(c, [chat[c] EXCEPT !.pc = "recording"])
    BY DEF NotAllowed, At, sessionVars
  <1>2. chat[c].round \in 1..2 /\ chat[c].round <= Confirmations(Call(c).tool)
    BY <1>1 DEF SessionInv, SessionDomains, Locals, AskedEnough
  <1>3. [chat[c] EXCEPT !.pc = "recording"]
          = [chat[c] EXCEPT !.round = chat[c].round, !.pc = "recording"]
    BY DEF SessionInv, SessionDomains, Locals
  <1> QED BY <1>1, <1>2, <1>3, AskingMove

\* The user says yes: the last yes runs the call, another one asks again.
LEMMA UserAllowsKeeps ==
  ASSUME SessionInv, NEW c \in Chats, UserAllows(c)
  PROVE  /\ SessionInv'
         /\ chat'[c].left = chat[c].left
         /\ \A d \in Chats \ {c} : chat'[d] = chat[d]
         /\ IF chat[c].round = Confirmations(Call(c).tool)
            THEN chat'[c].pc = "running"
            ELSE /\ chat[c].round = 1 /\ Level[Call(c).tool] = 3
                 /\ chat'[c].pc = "confirming" /\ chat'[c].round = 2
  <1>1. chat[c].pc = "consulting" /\ UNCHANGED <<history, asked, queue>>
    BY DEF UserAllows, At, sessionVars
  <1>2. chat[c].round \in 1..2 /\ chat[c].round <= Confirmations(Call(c).tool)
    BY <1>1 DEF SessionInv, SessionDomains, Locals, AskedEnough
  <1>3. CASE chat[c].round = Confirmations(Call(c).tool)
    <2>1. Becomes(c, [chat[c] EXCEPT !.pc = "running"]) BY <1>3 DEF UserAllows
    <2>2. [chat[c] EXCEPT !.pc = "running"]
            = [chat[c] EXCEPT !.round = chat[c].round, !.pc = "running"]
      BY DEF SessionInv, SessionDomains, Locals
    <2> QED BY <1>1, <1>2, <1>3, <2>1, <2>2, AskingMove
  <1>4. CASE chat[c].round # Confirmations(Call(c).tool)
    <2>1. chat[c].round = 1 /\ Confirmations(Call(c).tool) = 2 /\ Level[Call(c).tool] = 3
      BY <1>2, <1>4 DEF Confirmations
    <2>2. Becomes(c, [chat[c] EXCEPT !.round = @ + 1, !.pc = "confirming"])
      BY <1>4 DEF UserAllows
    <2>3. Becomes(c, [chat[c] EXCEPT !.round = 2, !.pc = "confirming"])
      BY <2>1, <2>2 DEF Becomes
    <2>4. 2 \in 1..2 /\ 2 <= Confirmations(Call(c).tool) BY <2>1
    <2>5. /\ SessionInv'
          /\ chat'[c].pc = "confirming" /\ chat'[c].round = 2 /\ chat'[c].left = chat[c].left
          /\ \A d \in Chats \ {c} : chat'[d] = chat[d]
      BY <1>1, <2>3, <2>4, AskingMove
    <2> QED BY <1>4, <2>1, <2>5
  <1> QED BY <1>3, <1>4

\* A chat comes to its service.
LEMMA ComingKeeps ==
  ASSUME SessionInv, NEW c \in Chats, Post(c) \/ SkipWrapUp(c)
  PROVE  /\ SessionInv'
         /\ chat'[c].pc \notin InRound /\ \A d \in Chats \ {c} : chat'[d] = chat[d]
  <1>0. Server[c] \in Services /\ queue \in [Services -> Seq(Chats)]
    BY SessionAssumption DEF SessionInv, SessionDomains
  <1>1. PICK pc \in {"queued", "skipped"} :
          /\ Becomes(c, Over(pc)) /\ UNCHANGED <<history, asked>>
          /\ \/ queue' = queue
             \/ queue' = [queue EXCEPT ![Server[c]] = Append(@, c)]
    BY DEF Post, SkipWrapUp, sessionVars, Over
  <1>2. Over(pc) \in Locals /\ Over(pc).pc = pc /\ Over(pc).round = 1
    BY FreshLocals DEF Places
  <1>3. /\ chat' \in [Chats -> Locals] /\ chat'[c] = Over(pc)
        /\ \A d \in Chats \ {c} : chat'[d] = chat[d]
    BY <1>1, <1>2, MovesAlone DEF SessionInv
  <1>4. /\ queue' \in [Services -> Seq(Chats)]
        /\ \A d \in Chats : Served(d) => Served(d)'
    <2>1. CASE queue' = queue BY <1>0, <2>1 DEF Served
    <2>2. CASE queue' = [queue EXCEPT ![Server[c]] = Append(@, c)]
      <3>1. queue[Server[c]] \in Seq(Chats) BY <1>0
      <3>2. Append(queue[Server[c]], c) \in Seq(Chats) BY <3>1
      <3>3. queue[Server[c]] # <<>> =>
              /\ Append(queue[Server[c]], c) # <<>>
              /\ Head(Append(queue[Server[c]], c)) = Head(queue[Server[c]])
        BY <3>1
      <3>4. \A s \in Services :
              queue'[s] = IF s = Server[c] THEN Append(queue[Server[c]], c) ELSE queue[s]
        BY <1>0, <2>2
      <3>5. \A d \in Chats : Server[d] \in Services BY SessionAssumption
      <3>6. \A d \in Chats : Served(d) => Served(d)' BY <3>3, <3>4, <3>5 DEF Served
      <3> QED BY <1>0, <2>2, <3>2, <3>6
    <2> QED BY <1>1, <2>1, <2>2
  <1>5. SessionDomains' BY <1>1, <1>3, <1>4 DEF SessionInv, SessionDomains
  <1>6. RoundKept' BY <1>1, <1>2, <1>3 DEF SessionInv, RoundKept, InRound, InCall
  <1>7. OnesTurn' BY <1>1, <1>2, <1>3, <1>4 DEF SessionInv, OnesTurn, Active
  <1>8. LongEnough' BY <1>1, <1>2, <1>3 DEF SessionInv, LongEnough
  <1>9. AskedEnough' BY <1>1, <1>2, <1>3 DEF SessionInv, AskedEnough, Call
  <1> QED BY <1>1, <1>2, <1>3, <1>5, <1>6, <1>7, <1>8, <1>9 DEF SessionInv, InRound

\* Two that have their turn at one service are one.
LEMMA OneAtATime ==
  ASSUME SessionInv, NEW c \in Chats, NEW d \in Chats,
         chat[c].pc \in Active, chat[d].pc \in Active, Server[c] = Server[d]
  PROVE  c = d
  BY DEF SessionInv, OnesTurn, Served

\* It leaves, and the next one has its turn.
LEMMA LeavingKeeps ==
  ASSUME SessionInv, NEW c \in Chats, Leave(c)
  PROVE  /\ SessionInv'
         /\ chat'[c].pc \notin InRound /\ \A d \in Chats \ {c} : chat'[d] = chat[d]
  <1>0. Server[c] \in Services /\ queue \in [Services -> Seq(Chats)]
    BY SessionAssumption DEF SessionInv, SessionDomains
  <1>1. /\ chat[c].pc = "leaving" /\ Becomes(c, Over("ended")) /\ UNCHANGED <<history, asked>>
        /\ queue' = [queue EXCEPT ![Server[c]] = Tail(@)]
    BY DEF Leave, At, sessionVars
  <1>2. Over("ended") \in Locals /\ Over("ended").pc = "ended" /\ Over("ended").round = 1
    BY FreshLocals DEF Places
  <1>3. /\ chat' \in [Chats -> Locals] /\ chat'[c] = Over("ended")
        /\ \A d \in Chats \ {c} : chat'[d] = chat[d]
    BY <1>1, <1>2, MovesAlone DEF SessionInv
  <1>4. chat[c].pc \in Active BY <1>1 DEF Active, Places
  <1>5. queue' \in [Services -> Seq(Chats)]
    <2>1. queue[Server[c]] # <<>> /\ queue[Server[c]] \in Seq(Chats)
      BY <1>0, <1>4 DEF SessionInv, OnesTurn, Served
    <2>2. Tail(queue[Server[c]]) \in Seq(Chats) BY <2>1
    <2> QED BY <1>0, <1>1, <2>2
  <1>6. OnesTurn'
    <2> SUFFICES ASSUME NEW d \in Chats, chat'[d].pc \in Active PROVE Served(d)'
      BY DEF OnesTurn
    <2>1. d # c BY <1>2, <1>3 DEF Active
    <2>2. chat[d].pc \in Active BY <1>3, <2>1
    <2>3. Server[d] # Server[c] BY <1>4, <2>1, <2>2, OneAtATime
    <2>4. Server[d] \in Services BY SessionAssumption
    <2>5. queue'[Server[d]] = queue[Server[d]] BY <1>0, <1>1, <2>3, <2>4
    <2> QED BY <2>2, <2>5 DEF SessionInv, OnesTurn, Served
  <1>7. SessionDomains' BY <1>1, <1>3, <1>5 DEF SessionInv, SessionDomains
  <1>8. RoundKept' BY <1>2, <1>3 DEF SessionInv, RoundKept, InRound, InCall
  <1>9. LongEnough' BY <1>2, <1>3 DEF SessionInv, LongEnough
  <1>10. AskedEnough' BY <1>2, <1>3 DEF SessionInv, AskedEnough, Call
  <1> QED BY <1>2, <1>3, <1>6, <1>7, <1>8, <1>9, <1>10 DEF SessionInv, InRound

\* What happens to the session from outside.
OutsideStep == Cool \/ OtherRow \/ Crash \/ Boot \/ Forget

\* It moves no chat, or ends all that had begun.
LEMMA OutsideKeeps ==
  ASSUME SessionInv, OutsideStep
  PROVE  SessionInv' /\ (chat' = chat \/ \A c \in Chats : chat'[c].pc \notin Active)
  <1>1. CASE Crash
    <2>1. /\ UNCHANGED <<history, asked>> /\ queue' = [s \in Services |-> <<>>]
          /\ chat' = [c \in Chats |-> IF chat[c].pc \in {"idle", "ended", "skipped"} THEN chat[c]
                                      ELSE Over("lost")]
      BY <1>1 DEF Crash, sessionVars
    <2>2. Over("lost") \in Locals /\ Over("lost").pc = "lost" /\ Over("lost").round = 1
      BY FreshLocals DEF Places
    <2>3. \A c \in Chats : /\ chat'[c] \in Locals
                           /\ chat'[c].pc \in {"idle", "ended", "skipped", "lost"}
                           /\ chat'[c].round = 1
      BY <2>1, <2>2 DEF SessionInv, SessionDomains, RoundKept, InRound, InCall
    <2>4. chat' \in [Chats -> Locals] BY <2>1, <2>3
    <2>5. queue' \in [Services -> Seq(Chats)] BY <2>1
    <2>6. SessionDomains' BY <2>1, <2>4, <2>5 DEF SessionInv, SessionDomains
    <2>7. RoundKept' BY <2>3 DEF RoundKept, InRound, InCall
    <2>8. OnesTurn' /\ LongEnough' /\ AskedEnough'
      BY <2>3 DEF OnesTurn, LongEnough, AskedEnough, Active
    <2> QED BY <2>3, <2>6, <2>7, <2>8 DEF SessionInv, Active
  <1>2. CASE Cool \/ OtherRow \/ Boot \/ Forget
    <2>1. UNCHANGED <<asked, queue, chat>>
      BY <1>2 DEF Cool, OtherRow, Boot, Forget
    <2>2. history' = history \/ \E m \in Written : history' = Append(history, m)
      BY <1>2, RowsAreRows DEF Cool, OtherRow, Boot, Forget, AddMessage, sessionVars
    <2>3. history' \in Seq(Written) BY <2>2 DEF SessionInv, SessionDomains
    <2>4. SessionDomains' BY <2>1, <2>3 DEF SessionInv, SessionDomains
    <2> QED
      BY <2>1, <2>4
      DEF SessionInv, RoundKept, OnesTurn, LongEnough, AskedEnough, Served, Call
  <1> QED BY <1>1, <1>2 DEF OutsideStep

\* Every step is one of these.
LEMMA StepsOfASession ==
  ASSUME Next
  PROVE  \/ OutsideStep
         \/ \E c \in Chats : \/ QuietStep(c) \/ AskUser(c) \/ NotAllowed(c) \/ UserAllows(c)
                             \/ Post(c) \/ SkipWrapUp(c) \/ Leave(c)
  BY DEF Next, ChatStep, TurnStep, OutsideStep, QuietStep

\* Every step keeps domains, rounds and turns.
LEMMA SessionStep == SessionInv /\ [Next]_vars => SessionInv'
  <1> SUFFICES ASSUME SessionInv, [Next]_vars PROVE SessionInv' OBVIOUS
  <1>1. CASE UNCHANGED vars
    BY <1>1 DEF vars, sessionVars, SessionInv, SessionDomains, RoundKept, OnesTurn, LongEnough,
                AskedEnough, Served, Call
  <1>2. CASE OutsideStep BY <1>2, OutsideKeeps
  <1>3. ASSUME NEW c \in Chats, QuietStep(c) PROVE SessionInv' BY <1>3, QuietKeeps
  <1>4. ASSUME NEW c \in Chats, AskUser(c) \/ NotAllowed(c) \/ UserAllows(c) PROVE SessionInv'
    BY <1>4, AskUserKeeps, NotAllowedKeeps, UserAllowsKeeps
  <1>5. ASSUME NEW c \in Chats, Post(c) \/ SkipWrapUp(c) \/ Leave(c) PROVE SessionInv'
    BY <1>5, ComingKeeps, LeavingKeeps
  <1> QED BY <1>1, <1>2, <1>3, <1>4, <1>5, StepsOfASession

\* Nobody has come yet.
LEMMA SessionInitially == Init => SessionInv
  <1> SUFFICES ASSUME Init PROVE SessionInv OBVIOUS
  <1>1. NoChat \in Locals /\ NoChat.pc = "idle" /\ NoChat.round = 1 BY FreshLocals
  <1>2. \A c \in Chats : chat[c] = NoChat BY DEF Init
  <1>3. SessionDomains
    <2>1. chat \in [Chats -> Locals] BY <1>1 DEF Init
    <2>2. queue \in [Services -> Seq(Chats)] BY DEF Init
    <2> QED BY <2>1, <2>2 DEF Init, SessionDomains
  <1>4. RoundKept /\ OnesTurn /\ LongEnough /\ AskedEnough
    BY <1>1, <1>2 DEF RoundKept, OnesTurn, LongEnough, AskedEnough, InRound, InCall, Active
  <1> QED BY <1>3, <1>4 DEF SessionInv

(***************************************************************************)
(* What a compaction replaces                                              *)
(***************************************************************************)
\* The history begins with the rows that the compaction under way has read.
SnapStands ==
  \A c \in Chats : chat[c].pc = "compacting" =>
    /\ Len(history) >= Len(chat[c].snap)
    /\ \A i \in 1..Len(chat[c].snap) : history[i] = chat[c].snap[i]

\* A row that is appended moves no other.
LEMMA AppendedStands ==
  ASSUME SessionInv, history' = history \/ \E m \in Written : history' = Append(history, m)
  PROVE  /\ Len(history') >= Len(history)
         /\ \A i \in 1..Len(history) : history'[i] = history[i] /\ Contains(history', history[i])
  <1>1. history \in Seq(Written) BY DEF SessionInv, SessionDomains
  <1>2. Len(history') >= Len(history) /\ \A i \in 1..Len(history) :
          i \in 1..Len(history') /\ history'[i] = history[i]
    BY <1>1
  <1> QED BY <1>2 DEF Contains

\* The rows under a compaction stay until it writes.
LEMMA SnapStep ==
  ASSUME \A c, d \in Chats : Server[c] = Server[d],
         SessionInv, SnapStands, [Next]_vars
  PROVE  SnapStands'
  <1> SUFFICES ASSUME NEW c \in Chats, chat'[c].pc = "compacting"
               PROVE  /\ Len(history') >= Len(chat'[c].snap)
                      /\ \A i \in 1..Len(chat'[c].snap) : history'[i] = chat'[c].snap[i]
    BY DEF SnapStands
  <1>0. history \in Seq(Written) /\ Len(history) \in Nat BY DEF SessionInv, SessionDomains
  <1>1. ASSUME chat'[c] = chat[c],
               history' = history \/ \E m \in Written : history' = Append(history, m)
        PROVE  /\ Len(history') >= Len(chat'[c].snap)
               /\ \A i \in 1..Len(chat'[c].snap) : history'[i] = chat'[c].snap[i]
    <2>1. /\ Len(history) >= Len(chat[c].snap)
          /\ \A i \in 1..Len(chat[c].snap) : history[i] = chat[c].snap[i]
      BY <1>1 DEF SnapStands
    <2>2. Len(chat[c].snap) \in Nat
      <3>1. chat[c].snap \in Seq(Written) BY DEF SessionInv, SessionDomains, Locals
      <3> QED BY <3>1
    <2>3. Len(history') \in Nat
      <3>1. history' \in Seq(Written) BY <1>0, <1>1
      <3> QED BY <3>1
    <2>4. /\ Len(history') >= Len(history)
          /\ \A i \in 1..Len(history) : history'[i] = history[i]
      BY <1>1, AppendedStands
    <2> QED BY <1>0, <1>1, <2>1, <2>2, <2>3, <2>4
  <1>2. CASE UNCHANGED vars BY <1>1, <1>2 DEF vars, sessionVars
  <1>3. CASE OutsideStep
    <2>1. chat' = chat BY <1>3, OutsideKeeps DEF Active, Places
    <2>2. ~Crash
      <3> SUFFICES ASSUME Crash PROVE FALSE OBVIOUS
      <3>1. chat'[c] = IF chat[c].pc \in {"idle", "ended", "skipped"} THEN chat[c] ELSE Over("lost")
        BY DEF Crash
      <3>2. Over("lost").pc = "lost" BY FreshLocals DEF Places
      <3> QED BY <2>1, <3>1, <3>2
    <2>3. history' = history \/ \E m \in Written : history' = Append(history, m)
      BY <1>3, <2>2, RowsAreRows
      DEF OutsideStep, Cool, OtherRow, Boot, Forget, AddMessage, sessionVars
    <2> QED BY <1>1, <2>1, <2>3
  <1>4. ASSUME NEW d \in Chats, QuietStep(d)
        PROVE  /\ Len(history') >= Len(chat'[c].snap)
               /\ \A i \in 1..Len(chat'[c].snap) : history'[i] = chat'[c].snap[i]
    <2>1. PICK l \in Locals : QuietMove(d, l) BY <1>4, QuietMoves
    <2>2. chat'[d] = l /\ \A e \in Chats \ {d} : chat'[e] = chat[e]
      BY <2>1, MovesAlone DEF QuietMove, SessionInv
    <2>3. CASE c = d
      <3>1. Begin(c) BY <2>1, <2>2, <2>3 DEF QuietMove
      <3> DEFINE pc == IF Len(history) > Threshold /\ ~cooling THEN "compacting" ELSE "ready"
      <3>2. /\ history' = history
            /\ chat' = [chat EXCEPT ![c] = [chat[c] EXCEPT !.snap = history, !.pc = pc]]
        BY <3>1 DEF Begin, Becomes, sessionVars
      <3> HIDE DEF pc
      <3>3. chat'[c].snap = history BY <3>2 DEF SessionInv, SessionDomains, Locals
      <3> QED BY <1>0, <3>2, <3>3
    <2>4. CASE c # d
      <3>1. chat'[c] = chat[c] BY <2>2, <2>4
      <3>2. chat[c].pc \in Active /\ Served(c) BY <3>1 DEF Active, Places, SessionInv, OnesTurn
      <3>3. ~Served(d) BY <2>4, <3>2 DEF Served
      <3>4. FALSE BY <2>1, <3>3 DEF QuietMove, SessionInv, OnesTurn
      <3> QED BY <3>4
    <2> QED BY <2>3, <2>4
  <1>5. ASSUME NEW d \in Chats, \/ AskUser(d) \/ NotAllowed(d) \/ UserAllows(d)
                                \/ Post(d) \/ SkipWrapUp(d) \/ Leave(d)
        PROVE  /\ Len(history') >= Len(chat'[c].snap)
               /\ \A i \in 1..Len(chat'[c].snap) : history'[i] = chat'[c].snap[i]
    <2>1. history' = history
      BY <1>5 DEF AskUser, NotAllowed, UserAllows, Post, SkipWrapUp, Leave, sessionVars
    <2>2. CASE c # d
      <3>1. chat'[c] = chat[c]
        BY <1>5, <2>2, AskUserKeeps, NotAllowedKeeps, UserAllowsKeeps, ComingKeeps, LeavingKeeps
      <3> QED BY <1>1, <2>1, <3>1
    <2>3. CASE c = d
      <3>1. chat'[d].pc # "compacting"
        <4>1. CASE AskUser(d) \/ NotAllowed(d) BY <4>1, AskUserKeeps, NotAllowedKeeps
        <4>2. CASE UserAllows(d) BY <4>2, UserAllowsKeeps
        <4>3. CASE Post(d) \/ SkipWrapUp(d) \/ Leave(d)
          <5>1. PICK pc \in {"queued", "skipped", "ended"} : Becomes(d, Over(pc))
            BY <4>3 DEF Post, SkipWrapUp, Leave, Over
          <5>2. Over(pc) \in Locals /\ Over(pc).pc = pc BY FreshLocals DEF Places
          <5> QED BY <5>1, <5>2, MovesAlone DEF SessionInv
        <4> QED BY <1>5, <4>1, <4>2, <4>3
      <3> QED BY <2>3, <3>1
    <2> QED BY <2>2, <2>3
  <1> QED BY <1>2, <1>3, <1>4, <1>5, StepsOfASession

\* A compaction drops only what went into its summary.
LEMMA CompactionLosesNothing ==
  ASSUME SessionInv, SnapStands, NEW c \in Chats, CompactWrite(c), NEW i \in DOMAIN history
  PROVE  \/ Contains(history', history[i])
         \/ chat[c].pc = "compacting" /\ Contains(Old(chat[c].snap), history[i])
  <1> DEFINE snap == chat[c].snap
             n == Len(snap)
  <1>1. chat[c].pc = "compacting" BY DEF CompactWrite, At
  <1>2. history \in Seq(Written) /\ snap \in Seq(Written) /\ n > Threshold
    BY <1>1 DEF SessionInv, SessionDomains, Locals, LongEnough
  <1>3. n \in Nat /\ Keep \in Nat \ {0} /\ Keep < n BY <1>2, SessionAssumption
  <1>4. CASE history' = history
    <2>1. i \in 1..Len(history) BY <1>2
    <2> QED BY <1>4, <2>1 DEF Contains
  <1>5. CASE Len(history) = n /\ history' = <<Summary>> \o Recent(snap)
    <2>1. i \in 1..n /\ history[i] = snap[i]
      <3>1. i \in 1..n BY <1>2, <1>5
      <3> QED BY <1>1, <3>1 DEF SnapStands
    <2>2. CASE i <= n - Keep
      <3>1. i \in 1..Len(Old(snap)) /\ Old(snap)[i] = snap[i]
        <4>1. 1 \in 1..(n + 1) /\ n - Keep \in 0..n BY <1>3
        <4>2. Old(snap) \in Seq(Written) /\ Len(Old(snap)) = n - Keep
              /\ \A j \in 1..(n - Keep) : Old(snap)[j] = snap[j]
          BY <1>2, <1>3, <4>1, SubSeqProperties DEF Old
        <4> QED BY <1>3, <2>1, <2>2, <4>2
      <3> QED BY <1>1, <2>1, <3>1 DEF Contains
    <2>3. CASE i > n - Keep
      <3> DEFINE first == n - Keep + 1
                 j == i - first + 1
      <3>1. first \in 1..n /\ j \in 1..Keep /\ first + j - 1 = i
        <4> HIDE DEF n
        <4> QED BY <1>3, <2>1, <2>3
      <3>2. /\ Recent(snap) \in Seq(Written) /\ Len(Recent(snap)) = Keep
            /\ Recent(snap)[j] = snap[i]
        <4>1. Recent(snap) = SubSeq(snap, first, n) BY DEF Recent
        <4>2. n - first + 1 = Keep BY <1>3
        <4>3. n = Len(snap) /\ snap \in Seq(Written) /\ n \in Nat BY <1>2, <1>3
        <4> HIDE DEF snap, n, first, j
        <4>4. first \in 1..(Len(snap) + 1) /\ n \in (first - 1)..Len(snap)
          BY <1>3, <3>1, <4>3
        <4>5. /\ SubSeq(snap, first, n) \in Seq(Written)
              /\ Len(SubSeq(snap, first, n)) = n - first + 1
              /\ \A k \in 1..(n - first + 1) : SubSeq(snap, first, n)[k] = snap[first + k - 1]
          BY <4>3, <4>4, SubSeqProperties
        <4> QED BY <3>1, <4>1, <4>2, <4>5
      <3>3. <<Summary>> \in Seq(Written) /\ Len(<<Summary>>) = 1 BY RowsAreRows
      <3> HIDE DEF j
      <3>4. 1 + j \in 1..Len(history') /\ history'[1 + j] = Recent(snap)[j]
        <4> HIDE DEF first, snap, n
        <4> QED BY <1>3, <1>5, <3>1, <3>2, <3>3
      <3> QED BY <2>1, <3>2, <3>4 DEF Contains
    <2> QED BY <1>3, <2>1, <2>2, <2>3
  <1> QED BY <1>4, <1>5 DEF CompactWrite, sessionVars

\* As long as one service has all chats of the session, a row leaves the history only
\* into the summary that was made of it: expectedMessageCount is then enough.
THEOREM CompactionKeepsRows ==
  ASSUME \A c, d \in Chats : Server[c] = Server[d]
  PROVE  Spec => NothingLost
  <1>1. Init => SnapStands
    <2> SUFFICES ASSUME Init, NEW c \in Chats PROVE chat[c].pc # "compacting" BY DEF SnapStands
    <2> QED BY FreshLocals DEF Init
  <1>2. SessionInv /\ SnapStands /\ [Next]_vars => SnapStands' BY SnapStep
  <1>3. SessionInv /\ SnapStands /\ [Next]_vars =>
          [\A i \in DOMAIN history :
             \/ Contains(history', history[i])
             \/ \E c \in Chats : /\ chat[c].pc = "compacting"
                                  /\ Contains(Old(chat[c].snap), history[i])]_vars
    <2> SUFFICES ASSUME SessionInv, SnapStands, [Next]_vars, NEW i \in DOMAIN history
                 PROVE  \/ Contains(history', history[i])
                        \/ \E c \in Chats : /\ chat[c].pc = "compacting"
                                            /\ Contains(Old(chat[c].snap), history[i])
      OBVIOUS
    <2>0. i \in 1..Len(history) BY DEF SessionInv, SessionDomains
    <2>1. CASE history' = history \/ \E m \in Written : history' = Append(history, m)
      BY <2>0, <2>1, AppendedStands
    <2>2. CASE UNCHANGED vars BY <2>1, <2>2 DEF vars, sessionVars
    <2>3. CASE OutsideStep
      <3>1. history' = history \/ \E m \in Written : history' = Append(history, m)
        BY <2>3, RowsAreRows
        DEF OutsideStep, Cool, OtherRow, Crash, Boot, Forget, AddMessage, sessionVars
      <3> QED BY <2>1, <3>1
    <2>4. ASSUME NEW c \in Chats, QuietStep(c)
          PROVE  \/ Contains(history', history[i])
                 \/ \E d \in Chats : /\ chat[d].pc = "compacting"
                                     /\ Contains(Old(chat[d].snap), history[i])
      <3>1. CASE CompactWrite(c) BY <3>1, CompactionLosesNothing
      <3>2. CASE ~CompactWrite(c) BY <2>1, <2>4, <3>2, QuietMoves DEF QuietRows
      <3> QED BY <3>1, <3>2
    <2>5. ASSUME NEW c \in Chats, \/ AskUser(c) \/ NotAllowed(c) \/ UserAllows(c)
                                  \/ Post(c) \/ SkipWrapUp(c) \/ Leave(c)
          PROVE  Contains(history', history[i])
      <3>1. history' = history
        BY <2>5 DEF AskUser, NotAllowed, UserAllows, Post, SkipWrapUp, Leave, sessionVars
      <3> QED BY <2>0, <3>1, AppendedStands
    <2> QED BY <2>2, <2>3, <2>4, <2>5, StepsOfASession
  <1> QED BY <1>1, <1>2, <1>3, SessionInitially, SessionStep, PTL DEF Spec, NothingLost

(***************************************************************************)
(* What the user has allowed                                               *)
(***************************************************************************)
\* The user has allowed this tool, with these arguments, in this life of the server.
WasAllowed(tool) == \E a \in allowed : a.call.tool = tool

\* What is remembered was allowed.
MemoryIsAllowed ==
  /\ \A tool \in Tools : Contains(remembered, tool) => WasAllowed(tool)
  /\ \A c \in Chats : \A tool \in Tools : Contains(granted[c], tool) => WasAllowed(tool)

\* Only a chat with its user there asks, for a tool that is not harmless; its second
\* question is about a tool of level 3, and follows a yes to the first.
AsksInOrder ==
  \A c \in Chats : chat[c].pc \in {"confirming", "consulting"} =>
    /\ ~Harmless(Call(c).tool) /\ ~Headless(c)
    /\ chat[c].round = 2 => /\ Level[Call(c).tool] = 3
                            /\ [by |-> c, call |-> Call(c), round |-> 1] \in allowed

GateParts == MemoryIsAllowed /\ AsksInOrder /\ ApprovedBeforeRun
GateInv == GateDomains /\ GateParts

\* A call that may run.
MayRun(c) ==
  \/ Harmless(Call(c).tool)
  \/ Level[Call(c).tool] = 2 /\ ~Headless(c) /\ WasAllowed(Call(c).tool)
  \/ \A round \in 1..2 : [by |-> c, call |-> Call(c), round |-> round] \in allowed

\* A memory gains the tool and no other.
LEMMA RememberAdds ==
  ASSUME NEW known \in Seq(Tools), NEW tool \in Tools
  PROVE  /\ Remember(known, tool) \in Seq(Tools)
         /\ \A t \in Tools : Contains(Remember(known, tool), t) => Contains(known, t) \/ t = tool
  <1> DEFINE kept == IF Len(known) >= FingerprintCap THEN Tail(known) ELSE known
  <1>1. kept \in Seq(Tools) /\ \A t \in Tools : Contains(kept, t) => Contains(known, t)
    <2>1. CASE Len(known) >= FingerprintCap
      <3>1. known # <<>> BY <2>1, GateAssumption
      <3>2. /\ Tail(known) \in Seq(Tools) /\ Len(Tail(known)) = Len(known) - 1
            /\ Len(known) \in Nat \ {0}
            /\ \A i \in 1..Len(Tail(known)) : Tail(known)[i] = known[i + 1]
        BY <3>1
      <3>3. \A i \in 1..Len(Tail(known)) : i + 1 \in 1..Len(known) BY <3>2
      <3> QED BY <2>1, <3>2, <3>3 DEF Contains
    <2>2. CASE ~(Len(known) >= FingerprintCap) BY <2>2
    <2> QED BY <2>1, <2>2
  <1> HIDE DEF kept
  <1>2. Append(kept, tool) \in Seq(Tools) /\ \A t \in Tools :
          Contains(Append(kept, tool), t) => Contains(kept, t) \/ t = tool
    <2>1. /\ Append(kept, tool) \in Seq(Tools) /\ Len(Append(kept, tool)) = Len(kept) + 1
          /\ Append(kept, tool)[Len(kept) + 1] = tool /\ Len(kept) \in Nat
          /\ \A i \in 1..Len(kept) : Append(kept, tool)[i] = kept[i]
      BY <1>1
    <2> QED BY <2>1 DEF Contains
  <1>3. Remember(known, tool) = kept \/ Remember(known, tool) = Append(kept, tool)
    BY DEF Remember, kept
  <1> QED BY <1>1, <1>2, <1>3

\* A chat that stays at its call, or is at none, is as allowed as it was.
LEMMA GateStays ==
  ASSUME SessionInv, GateInv, allowed \subseteq allowed', NEW c \in Chats,
         chat'[c] = chat[c]
           \/ chat'[c].pc \notin {"confirming", "consulting", "running"}
  PROVE  /\ chat'[c].pc \in {"confirming", "consulting"} =>
              /\ ~Harmless(Call(c)'.tool) /\ ~Headless(c)
              /\ chat'[c].round = 2 =>
                   /\ Level[Call(c)'.tool] = 3
                   /\ [by |-> c, call |-> Call(c)', round |-> 1] \in allowed'
         /\ chat'[c].pc = "running" => MayRun(c)'
  BY DEF GateInv, GateParts, AsksInOrder, ApprovedBeforeRun, MayRun, WasAllowed, Call

\* All of the gate's promises, chat by chat.
LEMMA GatePartsByChat ==
  ASSUME GateDomains', MemoryIsAllowed',
         \A c \in Chats :
           /\ chat'[c].pc \in {"confirming", "consulting"} =>
                /\ ~Harmless(Call(c)'.tool) /\ ~Headless(c)
                /\ chat'[c].round = 2 =>
                     /\ Level[Call(c)'.tool] = 3
                     /\ [by |-> c, call |-> Call(c)', round |-> 1] \in allowed'
           /\ chat'[c].pc = "running" => MayRun(c)'
  PROVE  GateInv'
  BY DEF GateInv, GateParts, AsksInOrder, ApprovedBeforeRun, MayRun, WasAllowed, Call

\* A quiet step lets a call run only if it is harmless or remembered.
LEMMA QuietGate ==
  ASSUME SessionInv, GateInv, NEW c \in Chats, QuietStep(c)
  PROVE  GateInv'
  <1>1. PICK l \in Locals : QuietMove(c, l) BY QuietMoves
  <1>2. chat'[c] = l /\ \A d \in Chats \ {c} : chat'[d] = chat[d]
    BY <1>1, MovesAlone DEF QuietMove, SessionInv
  <1>3. UNCHANGED <<pending, remembered, granted, allowed>> BY QuietLeaves DEF gateVars
  <1>4. GateDomains' /\ MemoryIsAllowed'
    BY <1>3 DEF GateInv, GateParts, GateDomains, MemoryIsAllowed, WasAllowed
  <1>5. CASE l.pc \notin {"confirming", "running"}
    <2>1. l.pc # "consulting" BY <1>1 DEF QuietMove
    <2> QED BY <1>2, <1>3, <1>4, <1>5, <2>1, GateStays, GatePartsByChat
  <1>6. CASE l.pc \in {"confirming", "running"}
    <2>1. CallBegins(c) /\ l.left = chat[c].left /\ l.round = chat[c].round
      BY <1>1, <1>6 DEF QuietMove
    <2>2. /\ chat[c].pc = "tools" /\ (Headless(c) => Harmless(Call(c).tool))
          /\ Becomes(c, [Counted(c) EXCEPT !.pc =
                          IF RunsUnasked(c, Call(c).tool) THEN "running" ELSE "confirming"])
      BY <2>1 DEF CallBegins, At
    <2>3. Counted(c) \in Locals /\ Call(c) \in Calls BY <2>2, CallIsCall DEF InRound
    <2>4. l.pc = IF RunsUnasked(c, Call(c).tool) THEN "running" ELSE "confirming"
      BY <1>2, <2>2, <2>3 DEF Becomes, SessionInv, SessionDomains, Locals
    <2>5. Call(c)' = Call(c) BY <1>2, <2>1 DEF Call
    <2>6. chat'[c].round = 1 BY <1>2, <2>1, <2>2 DEF SessionInv, RoundKept, InCall
    <2>7. RunsUnasked(c, Call(c).tool) => MayRun(c)'
      <3> SUFFICES ASSUME RunsUnasked(c, Call(c).tool), ~Harmless(Call(c).tool) PROVE MayRun(c)'
        BY <2>5 DEF MayRun
      <3>1. /\ Level[Call(c).tool] = 2 /\ ~Headless(c)
            /\ Contains(granted[c], Call(c).tool) \/ Contains(remembered, Call(c).tool)
        BY <2>2 DEF RunsUnasked
      <3>2. Call(c).tool \in Tools BY <2>3 DEF Calls
      <3>3. WasAllowed(Call(c).tool) BY <3>1, <3>2 DEF GateInv, GateParts, MemoryIsAllowed
      <3> QED BY <1>3, <2>5, <3>1, <3>3 DEF MayRun, WasAllowed
    <2>8. ~RunsUnasked(c, Call(c).tool) => ~Harmless(Call(c).tool) /\ ~Headless(c)
      BY <2>2 DEF RunsUnasked
    <2>9. \A d \in Chats \ {c} :
            /\ chat'[d].pc \in {"confirming", "consulting"} =>
                 /\ ~Harmless(Call(d)'.tool) /\ ~Headless(d)
                 /\ chat'[d].round = 2 =>
                      /\ Level[Call(d)'.tool] = 3
                      /\ [by |-> d, call |-> Call(d)', round |-> 1] \in allowed'
            /\ chat'[d].pc = "running" => MayRun(d)'
      BY <1>2, <1>3, GateStays
    <2>10. /\ chat'[c].pc \in {"confirming", "consulting"} =>
                ~Harmless(Call(c)'.tool) /\ ~Headless(c) /\ chat'[c].round # 2
           /\ chat'[c].pc = "running" => MayRun(c)'
      BY <1>2, <2>4, <2>5, <2>6, <2>7, <2>8
    <2> QED BY <1>4, <2>9, <2>10, GatePartsByChat
  <1> QED BY <1>5, <1>6

\* An ask is one of the chat's call.
LEMMA AskIsAsk ==
  ASSUME SessionInv, NEW c \in Chats, chat[c].pc \in {"confirming", "consulting"}
  PROVE  /\ AskOf(c) \in Asks /\ Call(c).tool \in Tools
         /\ AskOf(c).by = c /\ AskOf(c).call = Call(c) /\ AskOf(c).round = chat[c].round
  <1>1. Call(c) \in Calls BY CallIsCall DEF InRound
  <1>2. chat[c].round \in 1..2 BY DEF SessionInv, SessionDomains, Locals
  <1> QED BY <1>1, <1>2 DEF AskOf, Asks, Calls

\* The questions and the answers.
LEMMA AskingGate ==
  ASSUME SessionInv, GateInv, NEW c \in Chats, AskUser(c) \/ NotAllowed(c) \/ UserAllows(c)
  PROVE  GateInv'
  <1>0. chat[c].pc \in {"confirming", "consulting"}
    BY DEF AskUser, NotAllowed, UserAllows, At
  <1>1. /\ AskOf(c) \in Asks /\ Call(c).tool \in Tools
        /\ AskOf(c).by = c /\ AskOf(c).call = Call(c) /\ AskOf(c).round = chat[c].round
    BY <1>0, AskIsAsk
  <1>2. CASE AskUser(c) \/ NotAllowed(c)
    <2>1. UNCHANGED <<remembered, granted, allowed>> /\ pending' \subseteq pending \cup {AskOf(c)}
      BY <1>2 DEF AskUser, NotAllowed, Ask, Refuse
    <2>2. GateDomains' /\ MemoryIsAllowed'
      BY <1>1, <2>1 DEF GateInv, GateParts, GateDomains, MemoryIsAllowed, WasAllowed
    <2>3. \A d \in Chats \ {c} : chat'[d] = chat[d]
      BY <1>2, AskUserKeeps, NotAllowedKeeps
    <2>4. CASE NotAllowed(c)
      <3>1. chat'[c].pc = "recording" BY <2>4, NotAllowedKeeps
      <3> QED BY <2>1, <2>2, <2>3, <3>1, GateStays, GatePartsByChat
    <2>5. CASE AskUser(c)
      <3>1. chat'[c].pc = "consulting" /\ chat'[c].round = chat[c].round /\ Call(c)' = Call(c)
        BY <2>5, AskUserKeeps DEF Call
      <3>2. /\ ~Harmless(Call(c)'.tool) /\ ~Headless(c)
            /\ chat'[c].round = 2 =>
                 /\ Level[Call(c)'.tool] = 3
                 /\ [by |-> c, call |-> Call(c)', round |-> 1] \in allowed'
        BY <1>0, <2>1, <3>1 DEF GateInv, GateParts, AsksInOrder
      <3>3. \A d \in Chats \ {c} :
              /\ chat'[d].pc \in {"confirming", "consulting"} =>
                   /\ ~Harmless(Call(d)'.tool) /\ ~Headless(d)
                   /\ chat'[d].round = 2 =>
                        /\ Level[Call(d)'.tool] = 3
                        /\ [by |-> d, call |-> Call(d)', round |-> 1] \in allowed'
              /\ chat'[d].pc = "running" => MayRun(d)'
        BY <2>1, <2>3, GateStays
      <3>4. chat'[c].pc # "running" BY <3>1
      <3> QED BY <2>2, <3>2, <3>3, <3>4, GatePartsByChat
    <2> QED BY <1>2, <2>4, <2>5
  <1>3. CASE UserAllows(c)
    <2> DEFINE a == AskOf(c)
               tool == a.call.tool
    <2>1. /\ pending' = pending \ {a} /\ allowed' = allowed \cup {a}
          /\ \/ UNCHANGED <<remembered, granted>>
             \/ /\ remembered' = Remember(remembered, tool)
                /\ granted' = [granted EXCEPT ![a.by] = Remember(@, tool)]
      BY <1>3 DEF UserAllows, Allow
    <2>2. tool \in Tools /\ tool = Call(c).tool /\ a \in allowed' /\ a.by \in Chats
      BY <1>1, <2>1
    <2>3. \A t \in Tools : WasAllowed(t) \/ t = tool => WasAllowed(t)'
      BY <2>1, <2>2 DEF WasAllowed
    <2>4. GateDomains' /\ MemoryIsAllowed'
      <3>1. remembered \in Seq(Tools) /\ granted \in [Chats -> Seq(Tools)]
        BY DEF GateInv, GateDomains
      <3>2. pending' \subseteq Asks /\ allowed' \subseteq Asks
        BY <1>1, <2>1 DEF GateInv, GateDomains
      <3>3. CASE UNCHANGED <<remembered, granted>>
        BY <2>3, <3>1, <3>2, <3>3 DEF GateInv, GateParts, GateDomains, MemoryIsAllowed
      <3>4. CASE /\ remembered' = Remember(remembered, tool)
                 /\ granted' = [granted EXCEPT ![a.by] = Remember(@, tool)]
        <4> HIDE DEF tool, a
        <4>1. /\ remembered' \in Seq(Tools)
              /\ \A t \in Tools : Contains(remembered', t) => Contains(remembered, t) \/ t = tool
          BY <2>2, <3>1, <3>4, RememberAdds
        <4>2. granted[a.by] \in Seq(Tools) BY <2>2, <3>1
        <4>3. /\ Remember(granted[a.by], tool) \in Seq(Tools)
              /\ \A t \in Tools : Contains(Remember(granted[a.by], tool), t) =>
                                    Contains(granted[a.by], t) \/ t = tool
          BY <2>2, <4>2, RememberAdds
        <4>4. /\ granted' \in [Chats -> Seq(Tools)]
              /\ \A d \in Chats : granted'[d] = IF d = a.by THEN Remember(granted[a.by], tool)
                                                ELSE granted[d]
          BY <2>2, <3>1, <3>4, <4>3
        <4> QED
          BY <2>3, <3>2, <4>1, <4>3, <4>4
          DEF GateInv, GateParts, GateDomains, MemoryIsAllowed
      <3> QED BY <2>1, <3>3, <3>4
    <2>5. /\ chat'[c].left = chat[c].left
          /\ \A d \in Chats \ {c} : chat'[d] = chat[d]
          /\ IF chat[c].round = Confirmations(Call(c).tool)
             THEN chat'[c].pc = "running"
             ELSE /\ chat[c].round = 1 /\ Level[Call(c).tool] = 3
                  /\ chat'[c].pc = "confirming" /\ chat'[c].round = 2
      BY <1>3, UserAllowsKeeps
    <2>6. Call(c)' = Call(c) BY <2>5 DEF Call
    <2>7. [by |-> c, call |-> Call(c), round |-> chat[c].round] \in allowed'
      BY <2>2 DEF AskOf
    <2>8. ~Harmless(Call(c).tool) /\ ~Headless(c) /\ Level[Call(c).tool] \in {2, 3}
      <3>1. ~Harmless(Call(c).tool) /\ ~Headless(c)
        BY <1>0 DEF GateInv, GateParts, AsksInOrder
      <3>2. Level[Call(c).tool] \in 0..3 BY <1>1, GateAssumption
      <3> QED BY <3>1, <3>2 DEF Harmless
    <2>9. chat[c].round = Confirmations(Call(c).tool) => MayRun(c)'
      <3> SUFFICES ASSUME chat[c].round = Confirmations(Call(c).tool) PROVE MayRun(c)' OBVIOUS
      <3>1. CASE Level[Call(c).tool] = 2
        <4>1. \E b \in allowed' : b.call.tool = Call(c).tool BY <2>2
        <4> QED BY <2>6, <2>8, <3>1, <4>1 DEF MayRun, WasAllowed
      <3>2. CASE Level[Call(c).tool] = 3
        <4>1. chat[c].round = 2 BY <3>2 DEF Confirmations
        <4>2. [by |-> c, call |-> Call(c), round |-> 1] \in allowed
          BY <1>0, <4>1 DEF GateInv, GateParts, AsksInOrder
        <4>3. \A round \in 1..2 : [by |-> c, call |-> Call(c), round |-> round] \in allowed'
          BY <2>1, <2>7, <4>1, <4>2
        <4> QED BY <2>6, <4>3 DEF MayRun
      <3> QED BY <2>8, <3>1, <3>2
    <2>10. allowed \subseteq allowed' BY <2>1
    <2>11. \A d \in Chats \ {c} :
             /\ chat'[d].pc \in {"confirming", "consulting"} =>
                  /\ ~Harmless(Call(d)'.tool) /\ ~Headless(d)
                  /\ chat'[d].round = 2 =>
                       /\ Level[Call(d)'.tool] = 3
                       /\ [by |-> d, call |-> Call(d)', round |-> 1] \in allowed'
             /\ chat'[d].pc = "running" => MayRun(d)'
      BY <2>5, <2>10, GateStays
    <2>12. /\ chat'[c].pc \in {"confirming", "consulting"} =>
                /\ ~Harmless(Call(c)'.tool) /\ ~Headless(c)
                /\ chat'[c].round = 2 =>
                     /\ Level[Call(c)'.tool] = 3
                     /\ [by |-> c, call |-> Call(c)', round |-> 1] \in allowed'
           /\ chat'[c].pc = "running" => MayRun(c)'
      BY <2>5, <2>6, <2>7, <2>8, <2>9
    <2> QED BY <2>4, <2>11, <2>12, GatePartsByChat
  <1> QED BY <1>2, <1>3

\* Coming, leaving, and what comes from outside allow nothing.
LEMMA OtherGate ==
  ASSUME SessionInv, GateInv,
         OutsideStep \/ \E c \in Chats : Post(c) \/ SkipWrapUp(c) \/ Leave(c)
  PROVE  GateInv'
  <1>0. /\ remembered \in Seq(Tools) /\ granted \in [Chats -> Seq(Tools)]
        /\ <<>> \in Seq(Tools)
    BY DEF GateInv, GateDomains
  <1>1. CASE Crash
    <2>1. pending' = {} /\ remembered' = <<>> /\ granted' = [c \in Chats |-> <<>>] /\ allowed' = {}
      BY <1>1 DEF Crash, GateLost
    <2>2. GateDomains' BY <2>1 DEF GateDomains
    <2>3. \A t \in Tools : ~Contains(<<>>, t) BY DEF Contains
    <2>4. MemoryIsAllowed' BY <2>1, <2>3 DEF MemoryIsAllowed
    <2>5. \A c \in Chats : chat'[c].pc \in {"idle", "ended", "skipped", "lost"}
      <3>1. Over("lost").pc = "lost" BY FreshLocals DEF Places
      <3> QED BY <1>1, <3>1 DEF Crash
    <2> QED BY <2>2, <2>4, <2>5, GatePartsByChat
  <1>2. CASE Cool \/ OtherRow \/ Boot \/ Forget
    <2>1. /\ chat' = chat /\ allowed' = allowed /\ pending' = pending /\ granted' = granted
          /\ remembered' \in {remembered, <<>>}
      BY <1>2 DEF Cool, OtherRow, Boot, Forget, Evict, gateVars
    <2>2. \A t \in Tools : ~Contains(<<>>, t) BY DEF Contains
    <2>3. GateDomains' BY <1>0, <2>1 DEF GateInv, GateDomains
    <2>4. MemoryIsAllowed'
      BY <2>1, <2>2 DEF GateInv, GateParts, MemoryIsAllowed, WasAllowed
    <2> QED BY <2>1, <2>3, <2>4, GateStays, GatePartsByChat
  <1>3. ASSUME NEW c \in Chats, Post(c) \/ SkipWrapUp(c) \/ Leave(c) PROVE GateInv'
    <2>1. /\ allowed' = allowed /\ pending' = pending /\ remembered' = remembered
          /\ granted' \in {granted, [granted EXCEPT ![c] = <<>>]}
      BY <1>3 DEF Post, SkipWrapUp, Leave, ClearForRequest, gateVars
    <2>2. \A t \in Tools : ~Contains(<<>>, t) BY DEF Contains
    <2>3. /\ granted' \in [Chats -> Seq(Tools)]
          /\ \A d \in Chats : granted'[d] \in {granted[d], <<>>}
      BY <1>0, <2>1
    <2>4. GateDomains' BY <2>1, <2>3 DEF GateInv, GateDomains
    <2>5. MemoryIsAllowed'
      BY <2>1, <2>2, <2>3 DEF GateInv, GateParts, MemoryIsAllowed, WasAllowed
    <2>6. chat'[c].pc \notin InRound /\ \A d \in Chats \ {c} : chat'[d] = chat[d]
      BY <1>3, ComingKeeps, LeavingKeeps
    <2> QED BY <2>1, <2>4, <2>5, <2>6, GateStays, GatePartsByChat DEF InRound
  <1> QED BY <1>1, <1>2, <1>3 DEF OutsideStep

\* Nothing is allowed at first.
LEMMA GateInitially == Init => GateInv
  <1> SUFFICES ASSUME Init PROVE GateInv OBVIOUS
  <1>1. \A c \in Chats : chat[c].pc = "idle" BY FreshLocals DEF Init
  <1>2. \A t \in Tools : ~Contains(<<>>, t) BY DEF Contains
  <1>3. GateDomains BY DEF Init, GateInit, GateDomains
  <1>4. MemoryIsAllowed BY <1>2 DEF Init, GateInit, MemoryIsAllowed
  <1>5. AsksInOrder /\ ApprovedBeforeRun BY <1>1 DEF AsksInOrder, ApprovedBeforeRun
  <1> QED BY <1>3, <1>4, <1>5 DEF GateInv, GateParts

\* Every step keeps the gate's promises.
LEMMA GateStep == SessionInv /\ GateInv /\ [Next]_vars => GateInv'
  <1> SUFFICES ASSUME SessionInv, GateInv, [Next]_vars PROVE GateInv' OBVIOUS
  <1>1. CASE UNCHANGED vars
    BY <1>1 DEF vars, gateVars, GateInv, GateParts, GateDomains, MemoryIsAllowed, AsksInOrder,
                ApprovedBeforeRun, WasAllowed, Call
  <1>2. CASE OutsideStep \/ \E c \in Chats : Post(c) \/ SkipWrapUp(c) \/ Leave(c)
    BY <1>2, OtherGate
  <1>3. ASSUME NEW c \in Chats, QuietStep(c) PROVE GateInv' BY <1>3, QuietGate
  <1>4. ASSUME NEW c \in Chats, AskUser(c) \/ NotAllowed(c) \/ UserAllows(c) PROVE GateInv'
    BY <1>4, AskingGate
  <1> QED BY <1>1, <1>2, <1>3, <1>4, StepsOfASession

\* A call runs unasked only if it is harmless; one of level 2 after a yes to the same
\* tool and arguments and for a chat with its user there; one of level 3 after two, both
\* to this very call.
THEOREM CallsAreAllowed == Spec => []ApprovedBeforeRun
  <1>1. SessionInv /\ GateInv /\ [Next]_vars => GateInv' BY GateStep
  <1>2. GateInv => ApprovedBeforeRun BY DEF GateInv, GateParts
  <1> QED BY <1>1, <1>2, GateInitially, SessionInitially, SessionStep, PTL DEF Spec

(***************************************************************************)
(* Rounds in the history                                                   *)
(***************************************************************************)
\* The calls in the history have been asked for.
CallsAreAsked ==
  \A i \in 1..Len(history) : \A call \in Calls :
    Contains(history[i].calls, call) => call.n <= asked

\* Since a round began nothing was written that comes from a user, as long as a chat has
\* calls of it to do.
RoundStands ==
  \A c \in Chats : chat[c].pc \in InRound =>
    \A call \in Calls : Contains(chat[c].left, call) =>
      \A i \in 1..Len(history) : Contains(history[i].calls, call) =>
        \A k \in i..Len(history) : history[k].role # "user"

RoundsInv == CallsAreAsked /\ RoundStands /\ RoundsUnbroken

\* What is neither asking for calls, recording one, nor compacting.
LEMMA PlainMoves ==
  ASSUME SessionInv, NEW c \in Chats, QuietStep(c),
         ~LLMCalls(c), ~CompactWrite(c), ~Record(c)
  PROVE  /\ chat'[c].pc \in InRound =>
              chat[c].pc \in InRound /\ chat'[c].left = chat[c].left /\ history' = history
         /\ \/ history' = history
            \/ \E m \in Written : history' = Append(history, m) /\ m.calls = <<>> /\ m.role # "tool"
         /\ asked' = asked
  <1>0. chat \in [Chats -> Locals] /\ chat[c] \in Locals BY DEF SessionInv, SessionDomains
  <1>1. CASE CallRefused(c) \/ CallBegins(c) \/ CallEnds(c)
    <2>1. chat[c].pc \in InRound /\ history' = history /\ asked' = asked
      BY <1>1 DEF CallRefused, CallBegins, CallEnds, At, InRound, sessionVars
    <2>2. Counted(c) \in Locals /\ Counted(c).left = chat[c].left BY <2>1, CallIsCall
    <2>3. chat'[c].left = chat[c].left
      <3>1. CASE CallRefused(c) BY <1>0, <2>2, <3>1 DEF CallRefused, Becomes, Locals
      <3>2. CASE CallBegins(c)
        <4> DEFINE pc == IF RunsUnasked(c, Call(c).tool) THEN "running" ELSE "confirming"
        <4>1. Becomes(c, [Counted(c) EXCEPT !.pc = pc]) BY <3>2 DEF CallBegins
        <4> HIDE DEF pc
        <4> QED BY <1>0, <2>2, <4>1 DEF Becomes, Locals
      <3>3. CASE CallEnds(c) BY <1>0, <3>3 DEF CallEnds, Becomes, Locals
      <3> QED BY <1>1, <3>1, <3>2, <3>3
    <2> QED BY <2>1, <2>3
  <1>2. CASE \/ LLMText(c) \/ LLMFail(c) \/ Recovered(c) \/ PrefixStands(c) \/ LastWords(c)
             \/ Throw(c)
    <2>1. Becomes(c, Over("leaving")) /\ asked' = asked
      BY <1>2 DEF LLMText, LLMFail, Recovered, PrefixStands, LastWords, Throw, Close
    <2>2. history' = history \/ history' = Append(history, Text(c))
      BY <1>2 DEF LLMText, LLMFail, Recovered, PrefixStands, LastWords, Throw, Close, AddMessage,
                  sessionVars
    <2>3. chat'[c].pc = "leaving"
      <3>1. Over("leaving").pc = "leaving" BY FreshLocals DEF Places
      <3> QED BY <1>0, <2>1, <3>1 DEF Becomes
    <2>4. Text(c) \in Written /\ Text(c).calls = <<>> /\ Text(c).role # "tool"
      BY RowsAreRows DEF Text, Row
    <2> QED BY <2>1, <2>2, <2>3, <2>4 DEF InRound
  <1>3. CASE Begin(c) \/ CompactFail(c) \/ Reread(c) \/ LLMClaim(c)
    <2>1. history' = history /\ asked' = asked
      BY <1>3 DEF Begin, CompactFail, Reread, LLMClaim, sessionVars
    <2>2. chat'[c].pc \in {"compacting", "ready", "asking"}
      <3>1. CASE Begin(c)
        <4> DEFINE pc == IF Len(history) > Threshold /\ ~cooling THEN "compacting" ELSE "ready"
        <4>1. Becomes(c, [chat[c] EXCEPT !.snap = history, !.pc = pc]) BY <3>1 DEF Begin
        <4>2. pc \in {"compacting", "ready"} OBVIOUS
        <4> HIDE DEF pc
        <4> QED BY <1>0, <4>1, <4>2 DEF Becomes, Locals
      <3>2. CASE CompactFail(c) \/ Reread(c)
        BY <1>0, <3>2 DEF CompactFail, Reread, Becomes, Locals
      <3>3. CASE LLMClaim(c)
        <4>1. chat[c].pc = "asking" BY <3>3 DEF LLMClaim, At
        <4> QED BY <1>0, <3>3, <4>1 DEF LLMClaim, Becomes, Locals
      <3> QED BY <1>3, <3>1, <3>2, <3>3
    <2> QED BY <2>1, <2>2 DEF InRound
  <1>4. CASE Open(c) \/ LLMGarbage(c) \/ RoundEnds(c)
    <2>1. asked' = asked
          /\ (history' = history \/ \E m \in {User(c), Text(c)} : history' = Append(history, m))
      BY <1>4 DEF Open, LLMGarbage, RoundEnds, AddMessage, sessionVars
    <2>2. chat'[c].pc \notin InRound
      <3>1. CASE Open(c) \/ LLMGarbage(c)
        BY <1>0, <3>1 DEF Open, LLMGarbage, Becomes, Locals, InRound
      <3>2. CASE RoundEnds(c)
        <4> DEFINE nudged == [chat[c] EXCEPT !.more = Append(@, User(c)), !.pc = "closing"]
                   pc == IF chat[c].turn + 1 = MaxTurns THEN "closing" ELSE "asking"
                   next == [chat[c] EXCEPT !.turn = @ + 1, !.pc = pc]
        <4>1. Becomes(c, Over("leaving")) \/ Becomes(c, nudged) \/ Becomes(c, next)
          BY <3>2 DEF RoundEnds
        <4>2. nudged.pc = "closing" BY <1>0 DEF Locals
        <4>3. pc \in {"closing", "asking"} OBVIOUS
        <4> HIDE DEF pc
        <4>4. next.pc = pc BY <1>0 DEF Locals
        <4>5. Over("leaving").pc = "leaving" BY FreshLocals DEF Places
        <4> HIDE DEF nudged, next
        <4> QED BY <1>0, <4>1, <4>2, <4>3, <4>4, <4>5 DEF Becomes, InRound
      <3> QED BY <1>4, <3>1, <3>2
    <2>3. User(c) \in Written /\ Text(c) \in Written BY RowsAreRows
    <2>4. User(c).calls = <<>> /\ User(c).role # "tool" BY DEF User, Row
    <2>5. Text(c).calls = <<>> /\ Text(c).role # "tool" BY DEF Text, Row
    <2> QED BY <2>1, <2>2, <2>3, <2>4, <2>5
  <1> QED BY <1>1, <1>2, <1>3, <1>4 DEF QuietStep

\* A row that makes no calls breaks no round, if no chat with calls to do finds a user's
\* row, and a result is of a call that its chat has to do.
LEMMA RoundsOutliveRow ==
  ASSUME SessionInv, RoundsInv, asked' = asked,
         NEW m \in Written, m.calls = <<>>, history' = Append(history, m),
         m.role = "tool" => /\ m.of \in Calls
                            /\ \E c \in Chats : /\ chat[c].pc \in InRound
                                                /\ Contains(chat[c].left, m.of),
         \A d \in Chats : chat'[d].pc \in InRound =>
           /\ m.role # "user" /\ chat[d].pc \in InRound
           /\ \A call \in Calls : Contains(chat'[d].left, call) => Contains(chat[d].left, call)
  PROVE  RoundsInv'
  <1> DEFINE n == Len(history)
  <1>1. history \in Seq(Written) /\ n \in Nat BY DEF SessionInv, SessionDomains
  <1>2. /\ Len(history') = n + 1 /\ history'[n + 1] = m /\ DOMAIN history' = 1..(n + 1)
        /\ \A i \in 1..n : history'[i] = history[i]
    BY <1>1
  <1>3. \A call : ~Contains(m.calls, call) BY DEF Contains
  <1> HIDE DEF n
  <1>4. \A i \in 1..(n + 1) : \A call : Contains(history'[i].calls, call) =>
          i \in 1..n /\ Contains(history[i].calls, call)
    BY <1>1, <1>2, <1>3
  <1>5. CallsAreAsked' BY <1>2, <1>4 DEF RoundsInv, CallsAreAsked, n
  <1>6. RoundStands'
    <2> SUFFICES ASSUME NEW d \in Chats, chat'[d].pc \in InRound, NEW call \in Calls,
                        Contains(chat'[d].left, call), NEW i \in 1..(n + 1),
                        Contains(history'[i].calls, call), NEW k \in i..(n + 1)
                 PROVE  history'[k].role # "user"
      BY <1>2 DEF RoundStands
    <2>1. i \in 1..n /\ Contains(history[i].calls, call) BY <1>4
    <2>2. k \in i..n => history[k].role # "user"
      BY <2>1 DEF RoundsInv, RoundStands, n
    <2>3. k \in i..n => history'[k] = history[k] BY <1>1, <1>2, <2>1
    <2>4. k \in i..n \/ k = n + 1 BY <1>1, <2>1
    <2> QED BY <1>2, <2>2, <2>3, <2>4
  <1>7. RoundsUnbroken'
    <2> SUFFICES ASSUME NEW i \in 1..(n + 1), NEW j \in 1..(n + 1), history'[j].role = "tool",
                        Contains(history'[i].calls, history'[j].of), NEW k \in i..j
                 PROVE  history'[k].role # "user"
      BY <1>2 DEF RoundsUnbroken
    <2>1. i \in 1..n /\ Contains(history[i].calls, history'[j].of) BY <1>4
    <2>2. CASE j \in 1..n
      <3>1. k \in 1..n /\ k \in i..j BY <1>1, <2>1, <2>2
      <3>2. DOMAIN history = 1..n BY <1>1 DEF n
      <3>3. history[k].role # "user"
        BY <1>2, <2>1, <2>2, <3>1, <3>2 DEF RoundsInv, RoundsUnbroken
      <3> QED BY <1>2, <3>1, <3>3
    <2>3. CASE j = n + 1
      <3>1. m.role = "tool" /\ Contains(history[i].calls, m.of) BY <1>2, <2>1, <2>3
      <3>2. PICK c \in Chats : chat[c].pc \in InRound /\ Contains(chat[c].left, m.of) BY <3>1
      <3>3. \A h \in i..n : history[h].role # "user"
        BY <2>1, <3>1, <3>2 DEF RoundsInv, RoundStands, n
      <3>4. k \in i..n \/ k = n + 1 BY <1>1, <2>1, <2>3
      <3>5. k \in i..n => history'[k] = history[k] BY <1>1, <1>2, <2>1
      <3> QED BY <1>2, <3>1, <3>3, <3>4, <3>5
    <2>4. j \in 1..n \/ j = n + 1 BY <1>1
    <2> QED BY <2>2, <2>3, <2>4
  <1> QED BY <1>5, <1>6, <1>7 DEF RoundsInv

\* Nor does a step that leaves the history alone.
LEMMA RoundsOutliveStep ==
  ASSUME RoundsInv, UNCHANGED <<asked, history>>,
         \A d \in Chats : chat'[d].pc \in InRound =>
           chat[d].pc \in InRound /\ chat'[d].left = chat[d].left
  PROVE  RoundsInv'
  BY DEF RoundsInv, CallsAreAsked, RoundStands, RoundsUnbroken

\* A new round's calls are in no row before it.
LEMMA RoundBegins ==
  ASSUME SessionInv, RoundsInv, NEW c \in Chats, LLMCalls(c),
         \A d \in Chats \ {c} : chat'[d].pc \notin InRound
  PROVE  RoundsInv'
  <1> DEFINE rows == Len(history)
  <1>0. history \in Seq(Written) /\ rows \in Nat /\ asked \in Nat /\ chat \in [Chats -> Locals]
    BY DEF SessionInv, SessionDomains
  <1>1. PICK n \in 1..MaxRound : \E tools \in [1..n -> Tools] :
          LET calls == [i \in 1..n |-> [n |-> asked + i, tool |-> tools[i]]]
          IN  /\ asked' = asked + n
              /\ AddMessage(Asking(c, calls))
              /\ Becomes(c, [chat[c] EXCEPT !.more = Append(@, Asking(c, calls)),
                               !.left = calls, !.hired = FALSE, !.pc = "tools",
                               !.sent = @ \/ \E i \in 1..n : tools[i] \in Dispatching])
    BY DEF LLMCalls
  <1>2. PICK tools \in [1..n -> Tools] :
          LET calls == [i \in 1..n |-> [n |-> asked + i, tool |-> tools[i]]]
          IN  /\ asked' = asked + n
              /\ AddMessage(Asking(c, calls))
              /\ Becomes(c, [chat[c] EXCEPT !.more = Append(@, Asking(c, calls)),
                               !.left = calls, !.hired = FALSE, !.pc = "tools",
                               !.sent = @ \/ \E i \in 1..n : tools[i] \in Dispatching])
    BY <1>1
  <1> DEFINE calls == [i \in 1..n |-> [n |-> asked + i, tool |-> tools[i]]]
             m == Asking(c, calls)
             more == Append(chat[c].more, m)
             sent == chat[c].sent \/ \E i \in 1..n : tools[i] \in Dispatching
  <1>3. /\ asked' = asked + n /\ history' = Append(history, m)
        /\ Becomes(c, [chat[c] EXCEPT !.more = more, !.left = calls, !.hired = FALSE,
                                      !.pc = "tools", !.sent = sent])
    BY <1>2 DEF AddMessage
  <1> HIDE DEF more, sent
  <1>4. n \in Nat \ {0} BY SessionAssumption
  <1>5. \A call : Contains(calls, call) => call.n > asked /\ call.n <= asked + n
    <2>1. calls \in Seq(Calls) /\ Len(calls) = n
      <3>1. \A i \in 1..n : [n |-> asked + i, tool |-> tools[i]] \in Calls
        BY <1>0, <1>4 DEF Calls
      <3> QED BY <1>4, <3>1
    <2>2. \A i \in 1..n : calls[i].n = asked + i OBVIOUS
    <2> QED BY <1>0, <1>4, <2>1, <2>2 DEF Contains
  <1>6. chat'[c].left = calls
    <2> HIDE DEF calls
    <2> QED BY <1>0, <1>3 DEF Becomes, Locals
  <1> HIDE DEF calls
  <1>7. m.calls = calls /\ m.role = "assistant" BY DEF Asking, Row
  <1> HIDE DEF m
  <1>8. /\ Len(history') = rows + 1 /\ history'[rows + 1] = m /\ DOMAIN history' = 1..(rows + 1)
        /\ \A i \in 1..rows : history'[i] = history[i]
    BY <1>0, <1>3
  <1>9. \A i \in 1..rows : \A call \in Calls : Contains(history[i].calls, call) => call.n <= asked
    BY DEF RoundsInv, CallsAreAsked
  <1> HIDE DEF rows
  <1>10. CallsAreAsked'
    <2> SUFFICES ASSUME NEW i \in 1..(rows + 1), NEW call \in Calls,
                        Contains(history'[i].calls, call)
                 PROVE  call.n <= asked + n
      BY <1>3, <1>8 DEF CallsAreAsked
    <2>1. CASE i \in 1..rows
      <3>1. call.n <= asked /\ call.n \in Nat BY <1>8, <1>9, <2>1 DEF Calls
      <3> QED BY <1>0, <1>4, <3>1
    <2>2. CASE i = rows + 1 BY <1>5, <1>7, <1>8, <2>2
    <2>3. i \in 1..rows \/ i = rows + 1 BY <1>0
    <2> QED BY <2>1, <2>2, <2>3
  <1>11. RoundStands'
    <2> SUFFICES ASSUME NEW call \in Calls, Contains(calls, call), NEW i \in 1..(rows + 1),
                        Contains(history'[i].calls, call), NEW k \in i..(rows + 1)
                 PROVE  history'[k].role # "user"
      BY <1>6, <1>8 DEF RoundStands
    <2>1. i \notin 1..rows
      <3> SUFFICES ASSUME i \in 1..rows PROVE FALSE OBVIOUS
      <3>1. call.n <= asked /\ call.n > asked /\ call.n \in Nat BY <1>5, <1>8, <1>9 DEF Calls
      <3> QED BY <1>0, <3>1
    <2>2. k = rows + 1 BY <1>0, <2>1
    <2> QED BY <1>7, <1>8, <2>2
  <1>12. RoundsUnbroken'
    <2> SUFFICES ASSUME NEW i \in 1..(rows + 1), NEW j \in 1..(rows + 1),
                        history'[j].role = "tool",
                        Contains(history'[i].calls, history'[j].of), NEW k \in i..j
                 PROVE  history'[k].role # "user"
      BY <1>8 DEF RoundsUnbroken
    <2>1. j \in 1..rows
      <3>1. j # rows + 1 BY <1>7, <1>8
      <3> QED BY <1>0, <3>1
    <2>2. i \in 1..rows /\ k \in 1..rows BY <1>0, <2>1
    <2>3. DOMAIN history = 1..rows BY <1>0 DEF rows
    <2> QED BY <1>8, <2>1, <2>2, <2>3 DEF RoundsInv, RoundsUnbroken
  <1> QED BY <1>10, <1>11, <1>12 DEF RoundsInv

\* Nobody else has a call to do where one chat takes such a step.
LEMMA AloneInRound ==
  ASSUME \A c, d \in Chats : Server[c] = Server[d],
         SessionInv, NEW c \in Chats, QuietStep(c), NEW d \in Chats \ {c}
  PROVE  chat'[d] = chat[d] /\ chat[d].pc \notin InRound
  <1>1. PICK l \in Locals : QuietMove(c, l) BY QuietMoves
  <1>2. chat'[d] = chat[d] BY <1>1, MovesAlone DEF QuietMove, SessionInv
  <1>3. Served(c) BY <1>1 DEF QuietMove, SessionInv, OnesTurn
  <1>4. ~Served(d) BY <1>3 DEF Served
  <1> QED BY <1>2, <1>4 DEF SessionInv, OnesTurn, InRound, Active, Places

\* The result of a call comes while the call is to be done.
LEMMA RecordKeepsRounds ==
  ASSUME \A c, d \in Chats : Server[c] = Server[d],
         SessionInv, RoundsInv, NEW c \in Chats, Record(c)
  PROVE  RoundsInv'
  <1> DEFINE rest == Tail(chat[c].left)
             more == Append(chat[c].more, Result(Call(c)))
             hired == chat[c].hired \/ (chat[c].ok /\ Call(c).tool \in Dispatching)
             pc == IF rest # <<>> THEN "tools" ELSE "rounded"
             m == Result(Call(c))
  <1>1. /\ chat[c].pc = "recording" /\ history' = Append(history, m) /\ asked' = asked
        /\ Becomes(c, [chat[c] EXCEPT !.more = more, !.left = rest, !.hired = hired,
                                      !.ok = FALSE, !.round = 1, !.pc = pc])
    BY DEF Record, At, AddMessage
  <1>2. chat[c].pc \in InRound BY <1>1 DEF InRound
  <1>3. chat[c].left \in Seq(Calls) /\ chat[c].left # <<>>
    BY <1>2 DEF SessionInv, SessionDomains, Locals, RoundKept
  <1> HIDE DEF more, hired, pc, rest
  <1>4. chat'[c].left = rest BY <1>1 DEF Becomes, SessionInv, SessionDomains, Locals
  <1>5. Call(c) \in Calls /\ Contains(chat[c].left, Call(c)) BY <1>3 DEF Call, Contains
  <1>6. \A call : Contains(rest, call) => Contains(chat[c].left, call)
    <2>1. rest \in Seq(Calls) /\ Len(rest) = Len(chat[c].left) - 1 BY <1>3 DEF rest
    <2>2. \A i \in 1..Len(rest) : rest[i] = chat[c].left[i + 1] /\ i + 1 \in 1..Len(chat[c].left)
      BY <1>3, <2>1 DEF rest
    <2> QED BY <2>2 DEF Contains
  <1>7. m \in Written /\ m.calls = <<>> /\ m.role = "tool" /\ m.of = Call(c)
    <2>1. m \in Written BY <1>5, RowsAreRows
    <2> QED BY <2>1 DEF Result, Row
  <1> HIDE DEF m
  <1>8. \A d \in Chats : chat'[d].pc \in InRound => d = c
    BY AloneInRound DEF QuietStep
  <1>9. \A d \in Chats : chat'[d].pc \in InRound =>
           /\ m.role # "user" /\ chat[d].pc \in InRound
           /\ \A call \in Calls : Contains(chat'[d].left, call) => Contains(chat[d].left, call)
    BY <1>2, <1>4, <1>6, <1>7, <1>8
  <1> QED BY <1>1, <1>2, <1>5, <1>7, <1>9, RoundsOutliveRow

\* A compaction writes its summary, and what follows is the end of the history.
LEMMA CompactedHistory ==
  ASSUME SessionInv, SnapStands, NEW c \in Chats, CompactWrite(c)
  PROVE  \/ history' = history
         \/ \E shift \in Nat :
              /\ Len(history') = Keep + 1 /\ DOMAIN history' = 1..(Keep + 1)
              /\ history'[1] = Summary
              /\ \A i \in 2..(Keep + 1) :
                   history'[i] = history[i + shift] /\ i + shift \in 1..Len(history)
  <1> DEFINE snap == chat[c].snap
             n == Len(snap)
             shift == n - Keep - 1
  <1>1. chat[c].pc = "compacting" BY DEF CompactWrite, At
  <1>2. CASE Len(history) = n /\ history' = <<Summary>> \o Recent(snap)
    <2>1. history \in Seq(Written) /\ snap \in Seq(Written) /\ n > Threshold
      BY <1>1 DEF SessionInv, SessionDomains, Locals, LongEnough
    <2>2. n \in Nat /\ Keep \in Nat \ {0} /\ Keep < n BY <2>1, SessionAssumption
    <2>3. \A i \in 1..n : history[i] = snap[i] BY <1>1 DEF SnapStands
    <2>4. /\ Recent(snap) \in Seq(Written) /\ Len(Recent(snap)) = Keep
          /\ \A j \in 1..Keep : Recent(snap)[j] = snap[n - Keep + j]
      <3> DEFINE first == n - Keep + 1
      <3>1. Recent(snap) = SubSeq(snap, first, n) BY DEF Recent
      <3>2. first \in 1..n /\ n - first + 1 = Keep
        <4> HIDE DEF n
        <4> QED BY <2>2
      <3>3. n = Len(snap) OBVIOUS
      <3>4. \A j \in 1..Keep : first + j - 1 = n - Keep + j
        <4> HIDE DEF n
        <4> QED BY <2>2
      <3> HIDE DEF snap, n, first
      <3>5. first \in 1..(Len(snap) + 1) /\ n \in (first - 1)..Len(snap) BY <2>2, <3>2, <3>3
      <3>6. /\ SubSeq(snap, first, n) \in Seq(Written)
            /\ Len(SubSeq(snap, first, n)) = n - first + 1
            /\ \A k \in 1..(n - first + 1) : SubSeq(snap, first, n)[k] = snap[first + k - 1]
        BY <2>1, <3>5, SubSeqProperties
      <3> QED BY <3>1, <3>2, <3>4, <3>6
    <2>5. /\ Len(history') = Keep + 1 /\ DOMAIN history' = 1..(Keep + 1)
          /\ history'[1] = Summary
          /\ \A i \in 2..(Keep + 1) : history'[i] = history[i + shift] /\ i + shift \in 1..n
      <3>1. <<Summary>> \in Seq(Written) /\ Len(<<Summary>>) = 1 BY RowsAreRows
      <3> HIDE DEF snap, n
      <3>2. /\ Len(history') = Keep + 1 /\ DOMAIN history' = 1..(Keep + 1)
            /\ history'[1] = Summary
            /\ \A i \in 2..(Keep + 1) : history'[i] = Recent(snap)[i - 1]
        BY <1>2, <2>2, <2>4, <3>1
      <3>3. ASSUME NEW i \in 2..(Keep + 1)
            PROVE  history'[i] = history[i + shift] /\ i + shift \in 1..n
        <4>1. i - 1 \in 1..Keep /\ n - Keep + (i - 1) = i + shift /\ i + shift \in 1..n
          BY <2>2
        <4>2. history'[i] = Recent(snap)[i - 1] BY <3>2
        <4>3. Recent(snap)[i - 1] = snap[i + shift] BY <2>4, <4>1
        <4>4. history[i + shift] = snap[i + shift] BY <2>3, <4>1
        <4> QED BY <4>1, <4>2, <4>3, <4>4
      <3> QED BY <3>2, <3>3
    <2>6. shift \in Nat
      <3> HIDE DEF n
      <3> QED BY <2>2
    <2> HIDE DEF shift
    <2> QED BY <1>2, <2>5, <2>6
  <1> QED BY <1>2 DEF CompactWrite, sessionVars

\* A compaction leaves the end of the history as it was, while no call is to be done.
LEMMA CompactKeepsRounds ==
  ASSUME \A c, d \in Chats : Server[c] = Server[d],
         SessionInv, SnapStands, RoundsInv, NEW c \in Chats, CompactWrite(c)
  PROVE  RoundsInv'
  <1>1. asked' = asked /\ \A d \in Chats : chat'[d].pc \notin InRound
    <2>1. asked' = asked /\ chat'[c].pc = "rereading"
      BY DEF CompactWrite, Becomes, SessionInv, SessionDomains, Locals
    <2> QED BY <2>1, AloneInRound DEF QuietStep, InRound
  <1>2. CASE history' = history BY <1>1, <1>2, RoundsOutliveStep
  <1>3. CASE history' # history
    <2> DEFINE n == Len(history)
    <2>1. PICK shift \in Nat :
            /\ Len(history') = Keep + 1 /\ DOMAIN history' = 1..(Keep + 1)
            /\ history'[1] = Summary
            /\ \A i \in 2..(Keep + 1) : history'[i] = history[i + shift] /\ i + shift \in 1..n
      BY <1>3, CompactedHistory
    <2>2. n \in Nat /\ Keep \in Nat \ {0} BY SessionAssumption DEF SessionInv, SessionDomains
    <2>3. DOMAIN history = 1..n BY DEF SessionInv, SessionDomains
    <2>4. \A i \in 1..(Keep + 1) : \A call :
            Contains(history'[i].calls, call) => i \in 2..(Keep + 1)
      <3>1. \A call : ~Contains(Summary.calls, call) BY DEF Contains, Summary, Row
      <3>2. \A i \in 1..(Keep + 1) : i = 1 \/ i \in 2..(Keep + 1) BY <2>2
      <3> QED BY <2>1, <3>1, <3>2
    <2> HIDE DEF n
    <2>5. CallsAreAsked'
      <3> SUFFICES ASSUME NEW i \in 1..(Keep + 1), NEW call \in Calls,
                          Contains(history'[i].calls, call)
                   PROVE  call.n <= asked
        BY <1>1, <2>1 DEF CallsAreAsked
      <3>1. i \in 2..(Keep + 1) BY <2>4
      <3> QED BY <2>1, <3>1 DEF RoundsInv, CallsAreAsked, n
    <2>6. RoundStands' BY <1>1 DEF RoundStands
    <2>7. RoundsUnbroken'
      <3> SUFFICES ASSUME NEW i \in 1..(Keep + 1), NEW j \in 1..(Keep + 1),
                          history'[j].role = "tool",
                          Contains(history'[i].calls, history'[j].of), NEW k \in i..j
                   PROVE  history'[k].role # "user"
        BY <2>1 DEF RoundsUnbroken
      <3>1. i \in 2..(Keep + 1) BY <2>4
      <3>2. j \in 2..(Keep + 1) /\ k \in 2..(Keep + 1) BY <2>2, <3>1
      <3>3. k + shift \in (i + shift)..(j + shift) BY <2>2, <3>1, <3>2
      <3>4. /\ history'[i] = history[i + shift] /\ i + shift \in DOMAIN history
            /\ history'[j] = history[j + shift] /\ j + shift \in DOMAIN history
            /\ history'[k] = history[k + shift]
        BY <2>1, <2>3, <3>1, <3>2
      <3> QED BY <3>3, <3>4 DEF RoundsInv, RoundsUnbroken
    <2> QED BY <2>5, <2>6, <2>7 DEF RoundsInv
  <1> QED BY <1>2, <1>3

\* A step of the chat that has its turn.
LEMMA QuietKeepsRounds ==
  ASSUME \A c, d \in Chats : Server[c] = Server[d],
         SessionInv, SnapStands, RoundsInv, NEW c \in Chats, QuietStep(c)
  PROVE  RoundsInv'
  <1>1. \A d \in Chats \ {c} : chat'[d] = chat[d] /\ chat'[d].pc \notin InRound
    BY AloneInRound
  <1>2. CASE LLMCalls(c) BY <1>1, <1>2, RoundBegins
  <1>3. CASE CompactWrite(c) BY <1>3, CompactKeepsRounds
  <1>4. CASE Record(c) BY <1>4, RecordKeepsRounds
  <1>5. CASE ~LLMCalls(c) /\ ~CompactWrite(c) /\ ~Record(c)
    <2>1. /\ chat'[c].pc \in InRound =>
               chat[c].pc \in InRound /\ chat'[c].left = chat[c].left /\ history' = history
          /\ \/ history' = history
             \/ \E m \in Written :
                  history' = Append(history, m) /\ m.calls = <<>> /\ m.role # "tool"
          /\ asked' = asked
      BY <1>5, PlainMoves
    <2>2. CASE history' = history BY <1>1, <2>1, <2>2, RoundsOutliveStep
    <2>3. CASE history' # history
      <3>1. PICK m \in Written : history' = Append(history, m) /\ m.calls = <<>> /\ m.role # "tool"
        BY <2>1, <2>3
      <3>2. \A d \in Chats : chat'[d].pc \notin InRound BY <1>1, <2>1, <2>3
      <3> QED BY <2>1, <3>1, <3>2, RoundsOutliveRow
    <2> QED BY <2>2, <2>3
  <1> QED BY <1>2, <1>3, <1>4, <1>5

\* What comes from outside is nobody's message, and a crash ends all rounds.
LEMMA OutsideKeepsRounds ==
  ASSUME SessionInv, RoundsInv, OutsideStep
  PROVE  RoundsInv'
  <1>1. asked' = asked BY DEF OutsideStep, Cool, OtherRow, Crash, Boot, Forget
  <1>2. \A d \in Chats : chat'[d].pc \in InRound =>
          chat[d].pc \in InRound /\ chat'[d].left = chat[d].left
    BY OutsideKeeps DEF InRound, Active, Places
  <1>3. CASE history' = history BY <1>1, <1>2, <1>3, RoundsOutliveStep
  <1>4. CASE \E m \in {Text(Nobody), RecoveryNote} : history' = Append(history, m)
    <2>1. PICK m \in {Text(Nobody), RecoveryNote} : history' = Append(history, m) BY <1>4
    <2>2. m \in Written BY RowsAreRows
    <2>3. m.calls = <<>> /\ m.role \notin {"tool", "user"} BY DEF Text, RecoveryNote, Row
    <2> QED BY <1>1, <1>2, <2>1, <2>2, <2>3, RoundsOutliveRow
  <1> QED BY <1>3, <1>4 DEF OutsideStep, Cool, OtherRow, Crash, Boot, Forget, AddMessage,
                            sessionVars

\* All steps.
LEMMA RoundsStep ==
  ASSUME \A c, d \in Chats : Server[c] = Server[d],
         SessionInv, SnapStands, RoundsInv, [Next]_vars
  PROVE  RoundsInv'
  <1>1. CASE UNCHANGED vars
    <2>1. UNCHANGED <<history, asked, chat>> BY <1>1 DEF vars, sessionVars
    <2> QED BY <2>1, RoundsOutliveStep
  <1>2. CASE OutsideStep BY <1>2, OutsideKeepsRounds
  <1>3. ASSUME NEW c \in Chats, QuietStep(c) PROVE RoundsInv' BY <1>3, QuietKeepsRounds
  <1>4. ASSUME NEW c \in Chats, \/ AskUser(c) \/ NotAllowed(c) \/ UserAllows(c)
                                \/ Post(c) \/ SkipWrapUp(c) \/ Leave(c)
        PROVE  RoundsInv'
    <2>1. UNCHANGED <<asked, history>>
      BY <1>4 DEF AskUser, NotAllowed, UserAllows, Post, SkipWrapUp, Leave, sessionVars
    <2>2. \A d \in Chats \ {c} : chat'[d] = chat[d]
      BY <1>4, AskUserKeeps, NotAllowedKeeps, UserAllowsKeeps, ComingKeeps, LeavingKeeps
    <2>3. chat'[c].pc \in InRound => chat[c].pc \in InRound /\ chat'[c].left = chat[c].left
      <3>1. CASE AskUser(c) \/ NotAllowed(c) \/ UserAllows(c)
        <4>1. chat[c].pc \in InRound
          BY <3>1 DEF AskUser, NotAllowed, UserAllows, At, InRound
        <4> QED BY <3>1, <4>1, AskUserKeeps, NotAllowedKeeps, UserAllowsKeeps
      <3>2. CASE Post(c) \/ SkipWrapUp(c) \/ Leave(c) BY <3>2, ComingKeeps, LeavingKeeps
      <3> QED BY <1>4, <3>1, <3>2
    <2> QED BY <2>1, <2>2, <2>3, RoundsOutliveStep
  <1> QED BY <1>1, <1>2, <1>3, <1>4, StepsOfASession

\* As long as one service has all chats of the session, no user's message comes between a
\* round and its results: the chain of #sessionQueues is then enough.
THEOREM RoundsStayTogether ==
  ASSUME \A c, d \in Chats : Server[c] = Server[d]
  PROVE  Spec => []RoundsUnbroken
  <1>1. Init => SnapStands /\ RoundsInv
    <2> SUFFICES ASSUME Init PROVE SnapStands /\ RoundsInv OBVIOUS
    <2>1. \A c \in Chats : chat[c].pc = "idle" BY FreshLocals DEF Init
    <2>2. SnapStands /\ RoundStands BY <2>1 DEF SnapStands, RoundStands, InRound
    <2>3. history = <<>> BY DEF Init
    <2>4. CallsAreAsked /\ RoundsUnbroken BY <2>3 DEF CallsAreAsked, RoundsUnbroken
    <2> QED BY <2>2, <2>4 DEF RoundsInv
  <1>2. SessionInv /\ SnapStands /\ [Next]_vars => SnapStands' BY SnapStep
  <1>3. SessionInv /\ SnapStands /\ RoundsInv /\ [Next]_vars => RoundsInv' BY RoundsStep
  <1>4. RoundsInv => RoundsUnbroken BY DEF RoundsInv
  <1> QED BY <1>1, <1>2, <1>3, <1>4, SessionInitially, SessionStep, PTL DEF Spec

(***************************************************************************)
(* What a step does to the locals                                          *)
(***************************************************************************)
\* A chat's locals become what a step says, and no other's.
LEMMA MovedTo ==
  ASSUME SessionDomains, NEW c \in Chats, NEW l, Becomes(c, l)
  PROVE  /\ chat[c] \in Locals /\ chat'[c] = l
         /\ \A d \in Chats \ {c} : chat'[d] = chat[d]
  BY DEF SessionDomains, Becomes

\* The chat reads the history.
LEMMA ReadingStep ==
  ASSUME SessionInv, NEW c \in Chats, Begin(c) \/ Reread(c)
  PROVE  /\ chat[c].pc \in {"queued", "rereading"} /\ chat'[c].pc \in {"compacting", "ready"}
         /\ chat'[c].snap = history /\ chat'[c].more = chat[c].more
         /\ chat'[c].left = chat[c].left /\ chat'[c].turn = chat[c].turn
         /\ UNCHANGED <<history, asked>>
  <1>1. PICK pc \in {"compacting", "ready"} :
          Becomes(c, [chat[c] EXCEPT !.snap = history, !.pc = pc])
    <2> DEFINE pc == IF Len(history) > Threshold /\ ~cooling THEN "compacting" ELSE "ready"
    <2>1. pc \in {"compacting", "ready"} OBVIOUS
    <2>2. CASE Begin(c)
      <3>1. Becomes(c, [chat[c] EXCEPT !.snap = history, !.pc = pc]) BY <2>2 DEF Begin
      <3> HIDE DEF pc
      <3> QED BY <2>1, <3>1
    <2>3. CASE Reread(c) BY <2>3 DEF Reread
    <2> QED BY <2>2, <2>3
  <1>2. chat[c].pc \in {"queued", "rereading"} /\ UNCHANGED <<history, asked>>
    BY DEF Begin, Reread, At, sessionVars
  <1>3. chat[c] \in Locals /\ chat'[c] = [chat[c] EXCEPT !.snap = history, !.pc = pc]
    BY <1>1, MovedTo DEF SessionInv
  <1> QED BY <1>1, <1>2, <1>3 DEF Locals

\* It compacts what it has read, or gives up.
LEMMA CompactingStep ==
  ASSUME SessionInv, NEW c \in Chats, CompactWrite(c) \/ CompactFail(c)
  PROVE  /\ chat[c].pc \in {"compacting", "rereading"} /\ chat'[c].pc \in {"rereading", "ready"}
         /\ chat'[c].snap = chat[c].snap /\ chat'[c].more = chat[c].more
         /\ chat'[c].left = chat[c].left /\ chat'[c].turn = chat[c].turn
         /\ asked' = asked
  <1>1. PICK pc \in {"rereading", "ready"} : Becomes(c, [chat[c] EXCEPT !.pc = pc])
    BY DEF CompactWrite, CompactFail
  <1>2. chat[c].pc \in {"compacting", "rereading"} /\ asked' = asked
    BY DEF CompactWrite, CompactFail, At
  <1>3. chat[c] \in Locals /\ chat'[c] = [chat[c] EXCEPT !.pc = pc]
    BY <1>1, MovedTo DEF SessionInv
  <1> QED BY <1>1, <1>2, <1>3 DEF Locals

\* It puts the user's message.
LEMMA OpeningStep ==
  ASSUME SessionInv, NEW c \in Chats, Open(c)
  PROVE  /\ chat[c].pc = "ready" /\ chat'[c].pc = "asking"
         /\ chat'[c].snap = chat[c].snap /\ chat'[c].more = <<User(c)>>
         /\ chat'[c].turn = chat[c].turn
         /\ asked' = asked /\ history' = Append(history, User(c))
  <1>1. /\ chat[c].pc = "ready" /\ asked' = asked /\ history' = Append(history, User(c))
        /\ Becomes(c, [chat[c] EXCEPT !.more = <<User(c)>>, !.pc = "asking"])
    BY DEF Open, At, AddMessage
  <1>2. chat[c] \in Locals /\ chat'[c] = [chat[c] EXCEPT !.more = <<User(c)>>, !.pc = "asking"]
    BY <1>1, MovedTo DEF SessionInv
  <1> DEFINE more == <<User(c)>>
  <1>3. chat'[c] = [chat[c] EXCEPT !.more = more, !.pc = "asking"] BY <1>2
  <1>4. more = <<User(c)>> OBVIOUS
  <1> HIDE DEF more
  <1> QED BY <1>1, <1>2, <1>3, <1>4 DEF Locals

\* A chat that has not begun, or is over, has read nothing and has nothing to do.
LEMMA OverLocals ==
  /\ NoChat.snap = <<>> /\ NoChat.more = <<>> /\ NoChat.turn = 0 /\ NoChat.left = <<>>
  /\ \A pc \in Places : /\ Over(pc).snap = <<>> /\ Over(pc).more = <<>> /\ Over(pc).turn = 0
                        /\ Over(pc).left = <<>>
  <1>1. NoChat.snap = <<>> /\ NoChat.more = <<>> /\ NoChat.turn = 0 /\ NoChat.left = <<>>
    BY DEF NoChat
  <1>2. NoChat \in Locals BY FreshLocals
  <1> QED BY <1>1, <1>2 DEF Over, Locals

\* It comes, ends, or leaves.
LEMMA EndingStep ==
  ASSUME SessionInv, NEW c \in Chats,
         \/ LLMText(c) \/ LLMFail(c) \/ Recovered(c) \/ PrefixStands(c) \/ LastWords(c)
         \/ Throw(c) \/ Post(c) \/ SkipWrapUp(c) \/ Leave(c)
  PROVE  /\ chat'[c].pc \in {"leaving", "queued", "skipped", "ended"}
         /\ chat'[c].snap = <<>> /\ chat'[c].more = <<>> /\ chat'[c].turn = 0
         /\ asked' = asked /\ (history' = history \/ history' = Append(history, Text(c)))
         /\ \A d \in Chats \ {c} : chat'[d] = chat[d]
  <1>1. PICK pc \in {"leaving", "queued", "skipped", "ended"} : Becomes(c, Over(pc))
    BY DEF LLMText, LLMFail, Recovered, PrefixStands, LastWords, Throw, Close, Post, SkipWrapUp,
           Leave, Over
  <1>2. asked' = asked /\ (history' = history \/ history' = Append(history, Text(c)))
    BY DEF LLMText, LLMFail, Recovered, PrefixStands, LastWords, Throw, Close, Post, SkipWrapUp,
           Leave, AddMessage, sessionVars
  <1>3. chat'[c] = Over(pc) /\ \A d \in Chats \ {c} : chat'[d] = chat[d]
    BY <1>1, MovedTo DEF SessionInv
  <1>4. Over(pc).pc = pc BY <1>1, FreshLocals DEF Places
  <1>5. Over(pc).snap = <<>> /\ Over(pc).more = <<>> /\ Over(pc).turn = 0
    BY <1>1, OverLocals DEF Places
  <1> QED BY <1>1, <1>2, <1>3, <1>4, <1>5

\* It questions an answer.
LEMMA QuestioningStep ==
  ASSUME SessionInv, NEW c \in Chats, LLMGarbage(c) \/ LLMClaim(c)
  PROVE  /\ chat[c].pc = "asking" /\ chat'[c].pc \in {"recovering", "asking"}
         /\ chat'[c].snap = chat[c].snap
         /\ chat'[c].more = chat[c].more \o <<Text(c), User(c)>>
         /\ \/ chat'[c].turn = chat[c].turn
            \/ chat'[c].turn = chat[c].turn + 1 /\ chat[c].turn < MaxTurns - 1
         /\ asked' = asked /\ (history' = history \/ history' = Append(history, Text(c)))
  <1> DEFINE more == chat[c].more \o <<Text(c), User(c)>>
  <1>1. chat[c].pc = "asking" /\ asked' = asked
        /\ (history' = history \/ history' = Append(history, Text(c)))
    BY DEF LLMGarbage, LLMClaim, At, AddMessage, sessionVars
  <1>2. CASE LLMGarbage(c)
    <2>1. PICK b \in BOOLEAN :
            Becomes(c, [chat[c] EXCEPT !.more = more, !.prefixed = b, !.pc = "recovering"])
      BY <1>2 DEF LLMGarbage
    <2> HIDE DEF more
    <2>2. /\ chat[c] \in Locals
          /\ chat'[c] = [chat[c] EXCEPT !.more = more, !.prefixed = b, !.pc = "recovering"]
      BY <2>1, MovedTo DEF SessionInv
    <2>3. /\ chat'[c].more = more /\ chat'[c].pc = "recovering"
          /\ chat'[c].snap = chat[c].snap /\ chat'[c].turn = chat[c].turn
      BY <2>2 DEF Locals
    <2> QED BY <1>1, <2>3 DEF more
  <1>3. CASE LLMClaim(c)
    <2> DEFINE turn == chat[c].turn + 1
    <2>1. Becomes(c, [chat[c] EXCEPT !.more = more, !.turn = turn])
          /\ chat[c].turn < MaxTurns - 1
      BY <1>3 DEF LLMClaim
    <2> HIDE DEF more, turn
    <2>2. /\ chat[c] \in Locals
          /\ chat'[c] = [chat[c] EXCEPT !.more = more, !.turn = turn]
      BY <2>1, MovedTo DEF SessionInv
    <2>3. /\ chat'[c].more = more /\ chat'[c].pc = chat[c].pc
          /\ chat'[c].snap = chat[c].snap /\ chat'[c].turn = turn
      BY <2>2 DEF Locals
    <2> QED BY <1>1, <2>1, <2>3 DEF more, turn
  <1> QED BY <1>2, <1>3

\* It asks for a round of calls, each of them new.
LEMMA CallingStep ==
  ASSUME SessionInv, NEW c \in Chats, LLMCalls(c)
  PROVE  \E calls \in Seq(Calls) :
           /\ chat[c].pc = "asking" /\ chat'[c].pc = "tools"
           /\ chat'[c].snap = chat[c].snap /\ chat'[c].turn = chat[c].turn
           /\ chat'[c].left = calls /\ chat'[c].more = Append(chat[c].more, Asking(c, calls))
           /\ history' = Append(history, Asking(c, calls))
           /\ calls # <<>> /\ Distinct(calls)
           /\ asked' \in Nat /\ asked <= asked' /\ asked' <= MaxCalls
           /\ \A call : Contains(calls, call) => call.n > asked /\ call.n <= asked'
  <1>0. asked \in Nat BY DEF SessionInv, SessionDomains
  <1>1. PICK n \in 1..MaxRound : \E tools \in [1..n -> Tools] :
          LET calls == [i \in 1..n |-> [n |-> asked + i, tool |-> tools[i]]]
          IN  /\ asked + n <= MaxCalls
              /\ asked' = asked + n
              /\ AddMessage(Asking(c, calls))
              /\ Becomes(c, [chat[c] EXCEPT !.more = Append(@, Asking(c, calls)),
                               !.left = calls, !.hired = FALSE, !.pc = "tools",
                               !.sent = @ \/ \E i \in 1..n : tools[i] \in Dispatching])
    BY DEF LLMCalls
  <1>2. PICK tools \in [1..n -> Tools] :
          LET calls == [i \in 1..n |-> [n |-> asked + i, tool |-> tools[i]]]
          IN  /\ asked + n <= MaxCalls
              /\ asked' = asked + n
              /\ AddMessage(Asking(c, calls))
              /\ Becomes(c, [chat[c] EXCEPT !.more = Append(@, Asking(c, calls)),
                               !.left = calls, !.hired = FALSE, !.pc = "tools",
                               !.sent = @ \/ \E i \in 1..n : tools[i] \in Dispatching])
    BY <1>1
  <1> DEFINE calls == [i \in 1..n |-> [n |-> asked + i, tool |-> tools[i]]]
             more == Append(chat[c].more, Asking(c, calls))
             sent == chat[c].sent \/ \E i \in 1..n : tools[i] \in Dispatching
  <1>3. /\ asked + n <= MaxCalls /\ asked' = asked + n
        /\ history' = Append(history, Asking(c, calls))
        /\ Becomes(c, [chat[c] EXCEPT !.more = more, !.left = calls, !.hired = FALSE,
                                      !.pc = "tools", !.sent = sent])
    BY <1>2 DEF AddMessage
  <1>4. n \in Nat \ {0} BY SessionAssumption
  <1>5. calls \in Seq(Calls) /\ calls # <<>> /\ Len(calls) = n
    <2>1. \A i \in 1..n : [n |-> asked + i, tool |-> tools[i]] \in Calls
      BY <1>0, <1>4 DEF Calls
    <2> QED BY <1>4, <2>1
  <1>6. \A i \in 1..n : calls[i].n = asked + i OBVIOUS
  <1>7. chat[c].pc = "asking" BY DEF LLMCalls, At
  <1>8. more = Append(chat[c].more, Asking(c, calls)) OBVIOUS
  <1> HIDE DEF calls, more, sent
  <1>9. Distinct(calls)
    <2>1. \A i, j \in 1..n : asked + i = asked + j => i = j BY <1>0, <1>4
    <2>2. \A i, j \in 1..n : calls[i] = calls[j] => i = j
      <3> TAKE i, j \in 1..n
      <3> HAVE calls[i] = calls[j]
      <3>1. asked + i = asked + j BY <1>6
      <3> QED BY <2>1, <3>1
    <2> QED BY <1>5, <2>2 DEF Distinct
  <1>10. \A call : Contains(calls, call) => call.n > asked /\ call.n <= asked + n
    <2> SUFFICES ASSUME NEW call, Contains(calls, call)
                 PROVE  call.n > asked /\ call.n <= asked + n
      OBVIOUS
    <2>1. PICK i \in 1..n : calls[i] = call BY <1>5 DEF Contains
    <2>2. call.n = asked + i BY <1>6, <2>1
    <2> QED BY <1>0, <1>4, <2>2
  <1>11. /\ chat[c] \in Locals
         /\ chat'[c] = [chat[c] EXCEPT !.more = more, !.left = calls, !.hired = FALSE,
                                       !.pc = "tools", !.sent = sent]
    BY <1>3, MovedTo DEF SessionInv
  <1>12. /\ chat'[c].more = more /\ chat'[c].left = calls /\ chat'[c].pc = "tools"
         /\ chat'[c].snap = chat[c].snap /\ chat'[c].turn = chat[c].turn
    BY <1>11 DEF Locals
  <1>13. asked + n \in Nat /\ asked <= asked + n BY <1>0, <1>4
  <1> QED BY <1>3, <1>5, <1>7, <1>8, <1>9, <1>10, <1>12, <1>13

\* It is at a call.
LEMMA AtCallStep ==
  ASSUME SessionInv, NEW c \in Chats,
         \/ CallRefused(c) \/ CallBegins(c) \/ CallEnds(c)
         \/ AskUser(c) \/ NotAllowed(c) \/ UserAllows(c)
  PROVE  /\ chat[c].pc \in InRound /\ chat'[c].pc \in InRound
         /\ chat'[c].snap = chat[c].snap /\ chat'[c].more = chat[c].more
         /\ chat'[c].left = chat[c].left /\ chat'[c].turn = chat[c].turn
         /\ UNCHANGED <<history, asked>>
         /\ \A d \in Chats \ {c} : chat'[d] = chat[d]
  <1>1. chat[c].pc \in InRound /\ UNCHANGED <<history, asked>>
    BY DEF CallRefused, CallBegins, CallEnds, AskUser, NotAllowed, UserAllows, At, InRound,
           sessionVars
  <1>2. chat[c] \in Locals BY DEF SessionInv, SessionDomains
  <1>3. /\ Counted(c) \in Locals /\ Counted(c).snap = chat[c].snap
        /\ Counted(c).more = chat[c].more
        /\ Counted(c).left = chat[c].left /\ Counted(c).turn = chat[c].turn
    <2>1. Counted(c) \in Locals /\ Counted(c).left = chat[c].left BY <1>1, CallIsCall
    <2> DEFINE repeats == IF chat[c].last = Call(c).tool THEN chat[c].repeats + 1 ELSE 1
               used == IF Listed(c) THEN chat[c].used + 1 ELSE chat[c].used
    <2>2. Counted(c) = [chat[c] EXCEPT !.last = Call(c).tool, !.repeats = repeats, !.used = used]
      BY DEF Counted
    <2> HIDE DEF repeats, used
    <2> QED BY <1>2, <2>1, <2>2 DEF Locals
  <1>4. PICK l : /\ Becomes(c, l) /\ l.pc \in InRound
                 /\ l.snap = chat[c].snap /\ l.more = chat[c].more
                 /\ l.left = chat[c].left /\ l.turn = chat[c].turn
    <2>1. CASE CallRefused(c)
      <3> DEFINE b == Counted(c).stop \/ (Listed(c) /\ Spent(c))
                 l == [Counted(c) EXCEPT !.stop = b, !.pc = "recording"]
      <3>1. Becomes(c, l) BY <2>1 DEF CallRefused
      <3> HIDE DEF b
      <3>2. /\ l.pc \in InRound /\ l.snap = chat[c].snap /\ l.more = chat[c].more
            /\ l.left = chat[c].left /\ l.turn = chat[c].turn
        BY <1>3 DEF Locals, InRound
      <3> HIDE DEF l
      <3> QED BY <3>1, <3>2
    <2>2. CASE CallBegins(c)
      <3> DEFINE pc == IF RunsUnasked(c, Call(c).tool) THEN "running" ELSE "confirming"
                 l == [Counted(c) EXCEPT !.pc = pc]
      <3>1. Becomes(c, l) BY <2>2 DEF CallBegins
      <3>2. pc \in InRound BY DEF InRound
      <3> HIDE DEF pc
      <3>3. /\ l.pc \in InRound /\ l.snap = chat[c].snap /\ l.more = chat[c].more
            /\ l.left = chat[c].left /\ l.turn = chat[c].turn
        BY <1>3, <3>2 DEF Locals
      <3> HIDE DEF l
      <3> QED BY <3>1, <3>3
    <2>3. CASE CallEnds(c)
      <3> DEFINE l(ok) == [chat[c] EXCEPT !.ok = ok, !.pc = "recording"]
      <3>1. PICK ok \in BOOLEAN : Becomes(c, l(ok)) BY <2>3 DEF CallEnds
      <3>2. /\ l(ok).pc \in InRound /\ l(ok).snap = chat[c].snap /\ l(ok).more = chat[c].more
            /\ l(ok).left = chat[c].left /\ l(ok).turn = chat[c].turn
        BY <1>2 DEF Locals, InRound
      <3> HIDE DEF l
      <3> QED BY <3>1, <3>2
    <2>4. CASE AskUser(c) \/ NotAllowed(c) \/ UserAllows(c)
      <3> DEFINE l(pc) == [chat[c] EXCEPT !.pc = pc]
                 round == chat[c].round + 1
                 again == [chat[c] EXCEPT !.round = round, !.pc = "confirming"]
      <3>1. Becomes(c, again) \/ \E pc \in InRound : Becomes(c, l(pc))
        BY <2>4 DEF AskUser, NotAllowed, UserAllows, InRound
      <3> HIDE DEF round
      <3>2. /\ again.pc \in InRound /\ again.snap = chat[c].snap /\ again.more = chat[c].more
            /\ again.left = chat[c].left /\ again.turn = chat[c].turn
        BY <1>2 DEF Locals, InRound
      <3>3. \A pc \in InRound :
              /\ l(pc).pc \in InRound /\ l(pc).snap = chat[c].snap /\ l(pc).more = chat[c].more
              /\ l(pc).left = chat[c].left /\ l(pc).turn = chat[c].turn
        BY <1>2 DEF Locals
      <3> HIDE DEF l, again
      <3> QED BY <3>1, <3>2, <3>3
    <2> QED BY <2>1, <2>2, <2>3, <2>4
  <1>5. chat'[c] = l /\ \A d \in Chats \ {c} : chat'[d] = chat[d]
    BY <1>4, MovedTo DEF SessionInv
  <1> QED BY <1>1, <1>4, <1>5

\* It records a result.
LEMMA RecordingStep ==
  ASSUME SessionInv, NEW c \in Chats, Record(c)
  PROVE  /\ chat[c].pc = "recording"
         /\ chat[c].left \in Seq(Calls) /\ chat[c].left # <<>> /\ Call(c) \in Calls
         /\ chat'[c].pc = IF Tail(chat[c].left) # <<>> THEN "tools" ELSE "rounded"
         /\ chat'[c].snap = chat[c].snap /\ chat'[c].turn = chat[c].turn
         /\ chat'[c].left = Tail(chat[c].left)
         /\ chat'[c].more = Append(chat[c].more, Result(Call(c)))
         /\ asked' = asked /\ history' = Append(history, Result(Call(c)))
  <1> DEFINE rest == Tail(chat[c].left)
             more == Append(chat[c].more, Result(Call(c)))
             hired == chat[c].hired \/ (chat[c].ok /\ Call(c).tool \in Dispatching)
             pc == IF rest # <<>> THEN "tools" ELSE "rounded"
  <1>1. /\ chat[c].pc = "recording" /\ asked' = asked
        /\ history' = Append(history, Result(Call(c)))
        /\ Becomes(c, [chat[c] EXCEPT !.more = more, !.left = rest, !.hired = hired,
                                      !.ok = FALSE, !.round = 1, !.pc = pc])
    BY DEF Record, At, AddMessage
  <1>2. chat[c].left \in Seq(Calls) /\ chat[c].left # <<>> /\ Call(c) \in Calls
    BY <1>1, CallIsCall DEF SessionInv, SessionDomains, Locals, RoundKept, InRound
  <1> HIDE DEF rest, more, hired, pc
  <1>3. /\ chat[c] \in Locals
        /\ chat'[c] = [chat[c] EXCEPT !.more = more, !.left = rest, !.hired = hired,
                                      !.ok = FALSE, !.round = 1, !.pc = pc]
    BY <1>1, MovedTo DEF SessionInv
  <1>4. /\ chat'[c].more = more /\ chat'[c].left = rest /\ chat'[c].pc = pc
        /\ chat'[c].snap = chat[c].snap /\ chat'[c].turn = chat[c].turn
    BY ONLY <1>3 DEF Locals
  <1> QED BY <1>1, <1>2, <1>4 DEF rest, more, pc

\* It ends a round.
LEMMA RoundingStep ==
  ASSUME SessionInv, NEW c \in Chats, RoundEnds(c)
  PROVE  /\ chat[c].pc = "rounded" /\ UNCHANGED <<history, asked>>
         /\ \/ chat'[c].pc = "leaving" /\ chat'[c].snap = <<>> /\ chat'[c].more = <<>>
               /\ chat'[c].turn = 0
            \/ /\ chat'[c].pc = "closing" /\ chat'[c].snap = chat[c].snap
               /\ chat'[c].more = Append(chat[c].more, User(c)) /\ chat'[c].turn = chat[c].turn
            \/ /\ chat'[c].pc = (IF chat[c].turn + 1 = MaxTurns THEN "closing" ELSE "asking")
               /\ chat'[c].snap = chat[c].snap /\ chat'[c].more = chat[c].more
               /\ chat'[c].turn = chat[c].turn + 1
  <1> DEFINE more == Append(chat[c].more, User(c))
             nudged == [chat[c] EXCEPT !.more = more, !.pc = "closing"]
             pc == IF chat[c].turn + 1 = MaxTurns THEN "closing" ELSE "asking"
             turn == chat[c].turn + 1
             next == [chat[c] EXCEPT !.turn = turn, !.pc = pc]
  <1>1. /\ Becomes(c, Over("leaving")) \/ Becomes(c, nudged) \/ Becomes(c, next)
        /\ chat[c].pc = "rounded" /\ UNCHANGED <<history, asked>>
    BY DEF RoundEnds, At, sessionVars
  <1>2. chat[c] \in Locals BY DEF SessionInv, SessionDomains
  <1> HIDE DEF more, pc, turn
  <1>3. CASE Becomes(c, Over("leaving"))
    <2>1. chat'[c] = Over("leaving") BY <1>3, MovedTo DEF SessionInv
    <2>2. "leaving" \in Places BY DEF Places
    <2> QED BY <1>1, <2>1, <2>2, FreshLocals, OverLocals
  <1>4. CASE Becomes(c, nudged)
    <2>1. chat'[c] = nudged BY <1>4, MovedTo DEF SessionInv
    <2>2. /\ chat'[c].pc = "closing" /\ chat'[c].snap = chat[c].snap
          /\ chat'[c].more = more /\ chat'[c].turn = chat[c].turn
      BY <1>2, <2>1 DEF Locals
    <2> QED BY <1>1, <2>2 DEF more
  <1>5. CASE Becomes(c, next)
    <2>1. chat'[c] = next BY <1>5, MovedTo DEF SessionInv
    <2>2. /\ chat'[c].pc = pc /\ chat'[c].snap = chat[c].snap
          /\ chat'[c].more = chat[c].more /\ chat'[c].turn = turn
      BY <1>2, <2>1 DEF Locals
    <2> QED BY <1>1, <2>2 DEF pc, turn
  <1> QED BY <1>1, <1>3, <1>4, <1>5


(***************************************************************************)
(* What the model is sent                                                  *)
(***************************************************************************)
\* What a chat has pushed is paired, but for the calls that it has to do.
PushedStands(l) == IF l.pc \in InRound THEN Waits(l.more, l.left) ELSE Paired(l.more)

MoreStands == \A c \in Chats : PushedStands(chat[c])

\* A message, or some, that make no calls leave it paired.
LEMMA PlainJoins ==
  /\ Paired(<<>>)
  /\ \A c \in Chats : <<User(c)>> \in Seq(Rows) /\ Paired(<<User(c)>>)
  /\ \A c \in Chats : \A rows \in Seq(Rows) : Paired(rows) =>
       Paired(Append(rows, User(c))) /\ Paired(rows \o <<Text(c), User(c)>>)
  <1>1. Paired(<<>>)
    <2>1. <<>> \in Seq(Rows) /\ 1..Len(<<>>) = {} OBVIOUS
    <2> QED BY <2>1, PlainIsPaired
  <1>2. \A c \in Chats : User(c) \in Rows /\ Plain(User(c)) /\ Text(c) \in Rows /\ Plain(Text(c))
    <2>1. <<>> \in Seq(Calls) OBVIOUS
    <2> QED BY <2>1 DEF User, Text, Row, Rows, Plain, IsResult
  <1>3. ASSUME NEW c \in Chats
        PROVE  /\ <<User(c)>> \in Seq(Rows) /\ Paired(<<User(c)>>)
               /\ <<Text(c), User(c)>> \in Seq(Rows) /\ Paired(<<Text(c), User(c)>>)
    <2>1. User(c) \in Rows /\ Plain(User(c)) /\ Text(c) \in Rows /\ Plain(Text(c)) BY <1>2
    <2>2. <<User(c)>> \in Seq(Rows) /\ \A i \in 1..Len(<<User(c)>>) : Plain(<<User(c)>>[i])
      BY <2>1
    <2>3. /\ <<Text(c), User(c)>> \in Seq(Rows)
          /\ \A i \in 1..Len(<<Text(c), User(c)>>) : Plain(<<Text(c), User(c)>>[i])
      BY <2>1
    <2> QED BY <2>2, <2>3, PlainIsPaired
  <1>4. ASSUME NEW c \in Chats, NEW rows \in Seq(Rows), Paired(rows)
        PROVE  Paired(Append(rows, User(c))) /\ Paired(rows \o <<Text(c), User(c)>>)
    <2>1. Append(rows, User(c)) = rows \o <<User(c)>> BY <1>2, AppendIsConcat
    <2> QED BY <1>3, <1>4, <2>1, PairedJoin
  <1> QED BY <1>1, <1>3, <1>4

\* So it stays, whatever the chat does.
LEMMA PushedStep ==
  ASSUME SessionInv, NEW c \in Chats, PushedStands(chat[c]),
         QuietStep(c) \/ AskUser(c) \/ NotAllowed(c) \/ UserAllows(c)
           \/ Post(c) \/ SkipWrapUp(c) \/ Leave(c)
  PROVE  PushedStands(chat'[c])
  <1>0. chat[c].more \in Seq(Rows)
    <2>1. chat[c].more \in Seq(Written) BY DEF SessionInv, SessionDomains, Locals
    <2>2. Written \subseteq Rows BY DEF Written
    <2> QED BY <2>1, <2>2, SeqMonotonic
  <1>1. CASE Begin(c) \/ Reread(c)
    BY <1>1, ReadingStep DEF PushedStands, InRound
  <1>2. CASE CompactWrite(c) \/ CompactFail(c)
    BY <1>2, CompactingStep DEF PushedStands, InRound
  <1>3. CASE Open(c) BY <1>3, OpeningStep, PlainJoins DEF PushedStands, InRound
  <1>4. CASE \/ LLMText(c) \/ LLMFail(c) \/ Recovered(c) \/ PrefixStands(c) \/ LastWords(c)
             \/ Throw(c) \/ Post(c) \/ SkipWrapUp(c) \/ Leave(c)
    BY <1>4, EndingStep, PlainJoins DEF PushedStands, InRound
  <1>5. CASE LLMGarbage(c) \/ LLMClaim(c)
    <2>1. /\ chat[c].pc = "asking" /\ chat'[c].pc \in {"recovering", "asking"}
          /\ chat'[c].more = chat[c].more \o <<Text(c), User(c)>>
      BY <1>5, QuestioningStep
    <2>2. Paired(chat[c].more) BY <2>1 DEF PushedStands, InRound
    <2>3. Paired(chat'[c].more) BY <1>0, <2>1, <2>2, PlainJoins
    <2> QED BY <2>1, <2>3 DEF PushedStands, InRound
  <1>6. CASE LLMCalls(c)
    <2>1. PICK calls \in Seq(Calls) :
            /\ chat[c].pc = "asking" /\ chat'[c].pc = "tools"
            /\ chat'[c].left = calls /\ chat'[c].more = Append(chat[c].more, Asking(c, calls))
      BY <1>6, CallingStep
    <2>2. Paired(chat[c].more) BY <2>1 DEF PushedStands, InRound
    <2> DEFINE m == Asking(c, calls)
    <2>3. m \in Rows /\ ~IsResult(m) /\ m.calls = calls BY DEF Asking, Row, Rows, IsResult
    <2> HIDE DEF m
    <2>4. Waits(Append(chat[c].more, m), calls) BY <1>0, <2>2, <2>3, RoundOpens
    <2> QED BY <2>1, <2>4 DEF PushedStands, InRound, m
  <1>7. CASE \/ CallRefused(c) \/ CallBegins(c) \/ CallEnds(c)
             \/ AskUser(c) \/ NotAllowed(c) \/ UserAllows(c)
    BY <1>7, AtCallStep DEF PushedStands
  <1>8. CASE Record(c)
    <2> DEFINE rest == Tail(chat[c].left)
               m == Result(Call(c))
    <2>1. /\ chat[c].pc = "recording"
          /\ chat[c].left \in Seq(Calls) /\ chat[c].left # <<>> /\ Call(c) \in Calls
          /\ chat'[c].pc = IF rest # <<>> THEN "tools" ELSE "rounded"
          /\ chat'[c].left = rest /\ chat'[c].more = Append(chat[c].more, m)
      BY <1>8, RecordingStep
    <2>2. Waits(chat[c].more, chat[c].left) BY <2>1 DEF PushedStands, InRound
    <2>3. m \in Rows /\ IsResult(m) /\ m.calls = <<>> /\ m.of = Call(c)
      <3>1. <<>> \in Seq(Calls) OBVIOUS
      <3> QED BY <2>1, <3>1 DEF Result, Row, Rows, IsResult
    <2>4. rest \in Seq(Calls) /\ Len(chat[c].left) = 1 + Len(rest) BY <2>1
    <2>5. Range(chat[c].left) = {Call(c)} \cup Range(rest)
      <3>1. chat[c].left = <<Call(c)>> \o rest BY <2>1 DEF Call
      <3>2. <<Call(c)>> \in Seq(Calls) /\ Range(<<Call(c)>>) = {Call(c)} BY <2>1 DEF Range
      <3> HIDE DEF rest
      <3>3. Range(<<Call(c)>> \o rest) = Range(<<Call(c)>>) \cup Range(rest)
        BY ONLY <2>4, <3>2, RangeConcatenation
      <3> QED BY <3>1, <3>2, <3>3
    <2> HIDE DEF rest, m
    <2>6. Append(chat[c].more, m) \in Seq(Rows) /\ Waits(Append(chat[c].more, m), rest)
      <3>1. PICK before : before = chat[c].more OBVIOUS
      <3>2. PICK left : left = chat[c].left OBVIOUS
      <3>3. PICK call : call = Call(c) OBVIOUS
      <3>4. before \in Seq(Rows) /\ left \in Seq(Calls) /\ Waits(before, left)
        BY <1>0, <2>1, <2>2, <3>1, <3>2
      <3>5. m \in Rows /\ IsResult(m) /\ m.calls = <<>> /\ m.of = call BY <2>3, <3>3
      <3>6. rest \in Seq(Calls) /\ Len(left) = 1 + Len(rest)
            /\ Range(left) = {call} \cup Range(rest)
        BY <2>4, <2>5, <3>2, <3>3
      <3>7. Waits(Append(before, m), rest) BY ONLY <3>4, <3>5, <3>6, ResultComes
      <3>8. Append(before, m) \in Seq(Rows) BY ONLY <3>4, <3>5, AppendAdds
      <3> QED BY <3>1, <3>7, <3>8
    <2>7. CASE rest = <<>>
      <3>1. Paired(Append(chat[c].more, m)) BY <2>6, <2>7, NoneAwaited
      <3> QED BY <2>1, <2>7, <3>1 DEF PushedStands, InRound
    <2>8. CASE rest # <<>> BY <2>1, <2>6, <2>8 DEF PushedStands, InRound
    <2> QED BY <2>7, <2>8
  <1>9. CASE RoundEnds(c)
    <2>1. chat[c].pc = "rounded" /\ chat'[c].pc \in {"leaving", "closing", "asking"}
          /\ chat'[c].more \in {<<>>, Append(chat[c].more, User(c)), chat[c].more}
      BY <1>9, RoundingStep
    <2>2. Paired(chat[c].more) BY <2>1 DEF PushedStands, InRound
    <2>3. Paired(chat'[c].more) BY <1>0, <2>1, <2>2, PlainJoins
    <2> QED BY <2>1, <2>3 DEF PushedStands, InRound
  <1> QED BY <1>1, <1>2, <1>3, <1>4, <1>5, <1>6, <1>7, <1>8, <1>9 DEF QuietStep

\* A chat's step is its own.
LEMMA OthersStay ==
  ASSUME SessionInv, NEW c \in Chats,
         QuietStep(c) \/ AskUser(c) \/ NotAllowed(c) \/ UserAllows(c)
           \/ Post(c) \/ SkipWrapUp(c) \/ Leave(c)
  PROVE  \A d \in Chats \ {c} : chat'[d] = chat[d]
  <1>1. CASE QuietStep(c)
    <2>1. PICK l \in Locals : QuietMove(c, l) BY <1>1, QuietMoves
    <2> QED BY <2>1, MovedTo DEF QuietMove, SessionInv
  <1>2. CASE AskUser(c) \/ NotAllowed(c) \/ UserAllows(c) BY <1>2, AtCallStep
  <1>3. CASE Post(c) \/ SkipWrapUp(c) \/ Leave(c) BY <1>3, EndingStep
  <1> QED BY <1>1, <1>2, <1>3

\* From outside a chat stays where it is, or is lost with all it has read.
LEMMA OutsideLeaves ==
  ASSUME SessionInv, OutsideStep
  PROVE  /\ \A c \in Chats :
              \/ chat'[c] = chat[c]
              \/ /\ chat'[c].pc = "lost" /\ chat'[c].snap = <<>> /\ chat'[c].more = <<>>
                 /\ chat'[c].turn = 0
         /\ asked' = asked
         /\ \/ history' = history
            \/ \E m \in {Text(Nobody), RecoveryNote} : history' = Append(history, m)
  <1>1. CASE Crash
    <2>1. \A c \in Chats : chat'[c] = chat[c] \/ chat'[c] = Over("lost") BY <1>1 DEF Crash
    <2>2. "lost" \in Places BY DEF Places
    <2>3. asked' = asked /\ history' = history BY <1>1 DEF Crash, sessionVars
    <2> QED BY <2>1, <2>2, <2>3, FreshLocals, OverLocals
  <1>2. CASE Cool \/ OtherRow \/ Boot \/ Forget
    BY <1>2 DEF Cool, OtherRow, Boot, Forget, AddMessage, sessionVars
  <1> QED BY <1>1, <1>2 DEF OutsideStep

\* Every step leaves it so.
LEMMA MoreStep == SessionInv /\ MoreStands /\ [Next]_vars => MoreStands'
  <1> SUFFICES ASSUME SessionInv, MoreStands, [Next]_vars, NEW c \in Chats
               PROVE  PushedStands(chat'[c])
    BY DEF MoreStands
  <1>0. PushedStands(chat[c]) BY DEF MoreStands
  <1>1. CASE UNCHANGED vars BY <1>0, <1>1 DEF vars
  <1>2. CASE OutsideStep
    <2>1. CASE chat'[c] = chat[c] BY <1>0, <2>1
    <2>2. CASE chat'[c].pc = "lost" /\ chat'[c].more = <<>>
      BY <2>2, PlainJoins DEF PushedStands, InRound
    <2> QED BY <1>2, <2>1, <2>2, OutsideLeaves
  <1>3. ASSUME NEW d \in Chats,
               QuietStep(d) \/ AskUser(d) \/ NotAllowed(d) \/ UserAllows(d)
                 \/ Post(d) \/ SkipWrapUp(d) \/ Leave(d)
        PROVE  PushedStands(chat'[c])
    <2>1. CASE d = c BY <1>0, <1>3, <2>1, PushedStep
    <2>2. CASE d # c
      <3>1. chat'[c] = chat[c] BY <1>3, <2>2, OthersStay
      <3> QED BY <1>0, <3>1
    <2> QED BY <2>1, <2>2
  <1> QED BY <1>1, <1>2, <1>3, StepsOfASession

\* What is sent is then paired.
LEMMA SentIsPaired ==
  ASSUME SessionInv, MoreStands
  PROVE  PromptPaired
  <1> SUFFICES ASSUME NEW c \in Chats
               PROVE  /\ chat[c].pc \in {"asking", "recovering", "closing"} => Paired(Prompt(c))
                      /\ chat[c].pc = "compacting" => Paired(Repair(Old(chat[c].snap)))
    BY DEF PromptPaired
  <1>1. chat[c].snap \in Seq(Written) /\ chat[c].more \in Seq(Written)
    BY DEF SessionInv, SessionDomains, Locals
  <1>2. chat[c].more \in Seq(Rows)
    <2>1. Written \subseteq Rows BY DEF Written
    <2> QED BY <1>1, <2>1, SeqMonotonic
  <1>3. ASSUME chat[c].pc \in {"asking", "recovering", "closing"} PROVE Paired(Prompt(c))
    <2>1. Paired(chat[c].more) BY <1>3 DEF MoreStands, PushedStands, InRound
    <2>2. Repair(chat[c].snap) \in Seq(Rows) /\ Paired(Repair(chat[c].snap))
      BY <1>1, RepairIsPaired
    <2> QED BY <1>2, <2>1, <2>2, PairedJoin DEF Prompt
  <1>4. ASSUME chat[c].pc = "compacting" PROVE Paired(Repair(Old(chat[c].snap)))
    <2> DEFINE n == Len(chat[c].snap)
    <2>1. n > Threshold BY <1>4 DEF SessionInv, LongEnough
    <2>2. n \in Nat BY <1>1
    <2>3. 1 \in 1..(n + 1) /\ n - Keep \in (1 - 1)..n
      <3> HIDE DEF n
      <3> QED BY <2>1, <2>2, SessionAssumption
    <2>4. Old(chat[c].snap) \in Seq(Written) BY <1>1, <2>3, SubSeqProperties DEF Old
    <2> QED BY <2>4, RepairIsPaired
  <1> QED BY <1>3, <1>4

\* Whatever the services are: the repair heals what crashes, compactions and other writers
\* leave, and the rounds that a chat adds are whole when the model is asked.
THEOREM PromptsArePaired == Spec => []PromptPaired
  <1>1. Init => MoreStands
    <2> SUFFICES ASSUME Init, NEW c \in Chats PROVE PushedStands(chat[c]) BY DEF MoreStands
    <2>1. chat[c].pc = "idle" /\ chat[c].more = <<>> BY FreshLocals, OverLocals DEF Init
    <2> QED BY <2>1, PlainJoins DEF PushedStands, InRound
  <1>2. SessionInv /\ MoreStands /\ [Next]_vars => MoreStands' BY MoreStep
  <1>3. SessionInv /\ MoreStands => PromptPaired BY SentIsPaired
  <1> QED BY <1>1, <1>2, <1>3, SessionInitially, SessionStep, PTL DEF Spec

\* As long as one service has all chats of the session, what goes to the model is in
\* order, as stored and as sent.
THEOREM PromptsAreWellFormed ==
  ASSUME \A c, d \in Chats : Server[c] = Server[d]
  PROVE  Spec => []PromptWellFormed
  <1>1. PromptPaired /\ RoundsUnbroken => PromptWellFormed BY DEF PromptWellFormed
  <1> QED BY <1>1, PromptsArePaired, RoundsStayTogether, PTL

(***************************************************************************)
(* What the model is told was interrupted                                  *)
(***************************************************************************)
\* A result is of a call that was asked for.
ResultsAreAsked ==
  \A j \in 1..Len(history) : \A call \in Calls :
    history[j].role = "tool" /\ history[j].of = call => call.n <= asked

\* As long as a chat has calls of a round to do no other round begins.
LastRound ==
  \A c \in Chats : chat[c].pc \in InRound =>
    \A call \in Calls : Contains(chat[c].left, call) =>
      /\ call.n <= asked
      /\ \A i \in 1..Len(history) : Contains(history[i].calls, call) =>
           \A k \in (i + 1)..Len(history) : history[k].calls = <<>>

OrderInv == ResultsAreAsked /\ LastRound /\ InOrder(history)

\* A row that makes no calls keeps the order, if a result is of a call to be done.
LEMMA OrderOutlivesRow ==
  ASSUME SessionInv, OrderInv, asked' = asked,
         NEW m \in Written, m.calls = <<>>, history' = Append(history, m),
         m.role = "tool" => /\ m.of \in Calls
                            /\ \E c \in Chats : /\ chat[c].pc \in InRound
                                                /\ Contains(chat[c].left, m.of),
         \A d \in Chats : chat'[d].pc \in InRound =>
           /\ chat[d].pc \in InRound
           /\ \A call \in Calls : Contains(chat'[d].left, call) => Contains(chat[d].left, call)
  PROVE  OrderInv'
  <1> DEFINE n == Len(history)
  <1>1. history \in Seq(Written) /\ n \in Nat BY DEF SessionInv, SessionDomains
  <1>2. /\ Len(history') = n + 1 /\ history'[n + 1] = m
        /\ \A i \in 1..n : history'[i] = history[i]
    BY <1>1
  <1>3. \A call : ~Contains(m.calls, call) BY DEF Contains
  <1> HIDE DEF n
  <1>4. \A i \in 1..(n + 1) : \A call : Contains(history'[i].calls, call) =>
          i \in 1..n /\ Contains(history[i].calls, call)
    BY <1>1, <1>2, <1>3
  <1>5. \A i \in 1..(n + 1) : i \in 1..n \/ i = n + 1 BY <1>1
  <1>6. ResultsAreAsked'
    <2> SUFFICES ASSUME NEW j \in 1..(n + 1), NEW call \in Calls, history'[j].role = "tool",
                        history'[j].of = call
                 PROVE  call.n <= asked
      BY <1>2 DEF ResultsAreAsked
    <2>1. CASE j \in 1..n BY <1>2, <2>1 DEF OrderInv, ResultsAreAsked, n
    <2>2. CASE j = n + 1 BY <1>2, <2>2 DEF OrderInv, LastRound
    <2> QED BY <1>5, <2>1, <2>2
  <1>7. LastRound'
    <2> SUFFICES ASSUME NEW d \in Chats, chat'[d].pc \in InRound, NEW call \in Calls,
                        Contains(chat'[d].left, call)
                 PROVE  /\ call.n <= asked
                        /\ \A i \in 1..(n + 1) : Contains(history'[i].calls, call) =>
                             \A k \in (i + 1)..(n + 1) : history'[k].calls = <<>>
      BY <1>2 DEF LastRound
    <2>1. /\ call.n <= asked
          /\ \A i \in 1..n : Contains(history[i].calls, call) =>
               \A k \in (i + 1)..n : history[k].calls = <<>>
      BY DEF OrderInv, LastRound, n
    <2>2. ASSUME NEW i \in 1..(n + 1), Contains(history'[i].calls, call),
                 NEW k \in (i + 1)..(n + 1)
          PROVE  history'[k].calls = <<>>
      <3>1. i \in 1..n /\ Contains(history[i].calls, call) BY <1>4, <2>2
      <3>2. (k \in (i + 1)..n /\ k \in 1..n) \/ k = n + 1 BY <1>1, <3>1
      <3> QED BY <1>2, <2>1, <3>1, <3>2
    <2> QED BY <2>1, <2>2
  <1>8. InOrder(history')
    <2> SUFFICES ASSUME NEW i \in 1..(n + 1), NEW j \in 1..(n + 1), history'[j].role = "tool",
                        Contains(history'[i].calls, history'[j].of)
                 PROVE  i < j /\ \A k \in (i + 1)..j : history'[k].calls = <<>>
      BY <1>2 DEF InOrder
    <2>1. i \in 1..n /\ Contains(history[i].calls, history'[j].of) BY <1>4
    <2>2. CASE j \in 1..n
      <3>1. i < j /\ \A k \in (i + 1)..j : history[k].calls = <<>>
        BY <1>2, <2>1, <2>2 DEF OrderInv, InOrder, n
      <3>2. \A k \in (i + 1)..j : k \in 1..n BY <1>1, <2>1, <2>2
      <3> QED BY <1>2, <3>1, <3>2
    <2>3. CASE j = n + 1
      <3>1. m.role = "tool" /\ Contains(history[i].calls, m.of) BY <1>2, <2>1, <2>3
      <3>2. PICK c \in Chats : chat[c].pc \in InRound /\ Contains(chat[c].left, m.of) BY <3>1
      <3>3. \A k \in (i + 1)..n : history[k].calls = <<>>
        BY <2>1, <3>1, <3>2 DEF OrderInv, LastRound, n
      <3>4. i < j /\ \A k \in (i + 1)..j : (k \in (i + 1)..n /\ k \in 1..n) \/ k = n + 1
        BY <1>1, <2>1, <2>3
      <3> QED BY <1>2, <3>3, <3>4
    <2> QED BY <1>5, <2>2, <2>3
  <1> QED BY <1>6, <1>7, <1>8 DEF OrderInv

\* Nor does a step that leaves the history alone.
LEMMA OrderOutlivesStep ==
  ASSUME OrderInv, UNCHANGED <<asked, history>>,
         \A d \in Chats : chat'[d].pc \in InRound =>
           chat[d].pc \in InRound /\ chat'[d].left = chat[d].left
  PROVE  OrderInv'
  BY DEF OrderInv, ResultsAreAsked, LastRound, InOrder

\* A new round comes last, and none of its calls has a result.
LEMMA OrderBegins ==
  ASSUME SessionInv, RoundsInv, OrderInv, NEW c \in Chats, LLMCalls(c),
         \A d \in Chats \ {c} : chat'[d].pc \notin InRound
  PROVE  OrderInv'
  <1> DEFINE n == Len(history)
  <1>1. PICK calls \in Seq(Calls) :
          /\ chat'[c].left = calls /\ history' = Append(history, Asking(c, calls))
          /\ asked' \in Nat /\ asked <= asked'
          /\ \A call : Contains(calls, call) => call.n > asked /\ call.n <= asked'
    BY CallingStep
  <1>2. history \in Seq(Written) /\ n \in Nat /\ asked \in Nat BY DEF SessionInv, SessionDomains
  <1> DEFINE m == Asking(c, calls)
  <1>3. /\ Len(history') = n + 1 /\ history'[n + 1] = m
        /\ \A i \in 1..n : history'[i] = history[i]
    BY <1>1, <1>2
  <1>4. m.role = "assistant" /\ m.calls = calls BY DEF Asking, Row
  <1>5. \A call \in Calls : call.n \in Nat BY DEF Calls
  <1> HIDE DEF n, m
  <1>6. \A i \in 1..(n + 1) : i \in 1..n \/ i = n + 1 BY <1>2
  <1>7. \A j \in 1..(n + 1) : history'[j].role = "tool" => j \in 1..n BY <1>3, <1>4, <1>6
  <1>8. ResultsAreAsked'
    <2> SUFFICES ASSUME NEW j \in 1..(n + 1), NEW call \in Calls, history'[j].role = "tool",
                        history'[j].of = call
                 PROVE  call.n <= asked'
      BY <1>3 DEF ResultsAreAsked
    <2>1. j \in 1..n BY <1>7
    <2>2. call.n <= asked BY <1>3, <2>1 DEF OrderInv, ResultsAreAsked, n
    <2> QED BY <1>1, <1>2, <1>5, <2>2
  <1>9. LastRound'
    <2> SUFFICES ASSUME NEW call \in Calls, Contains(calls, call)
                 PROVE  /\ call.n <= asked'
                        /\ \A i \in 1..(n + 1) : Contains(history'[i].calls, call) =>
                             \A k \in (i + 1)..(n + 1) : history'[k].calls = <<>>
      BY <1>1, <1>3 DEF LastRound
    <2>1. \A i \in 1..n : ~Contains(history'[i].calls, call)
      <3> SUFFICES ASSUME NEW i \in 1..n, Contains(history[i].calls, call) PROVE FALSE BY <1>3
      <3>1. call.n <= asked /\ call.n > asked BY <1>1 DEF RoundsInv, CallsAreAsked, n
      <3> QED BY <1>2, <1>5, <3>1
    <2>2. (n + 1 + 1)..(n + 1) = {} BY <1>2
    <2> QED BY <1>1, <1>6, <2>1, <2>2
  <1>10. InOrder(history')
    <2> SUFFICES ASSUME NEW i \in 1..(n + 1), NEW j \in 1..(n + 1), history'[j].role = "tool",
                        Contains(history'[i].calls, history'[j].of)
                 PROVE  i < j /\ \A k \in (i + 1)..j : history'[k].calls = <<>>
      BY <1>3 DEF InOrder
    <2>1. j \in 1..n /\ history'[j] = history[j] BY <1>3, <1>7
    <2>2. i \in 1..n
      <3> SUFFICES ASSUME i = n + 1 PROVE FALSE BY <1>6
      <3> DEFINE call == history[j].of
      <3>1. Contains(calls, call) BY <1>3, <1>4, <2>1
      <3>2. call \in Calls
        <4>1. PICK p \in 1..Len(calls) : calls[p] = call BY <3>1 DEF Contains
        <4> QED BY <4>1
      <3>3. call.n <= asked BY <2>1, <3>2 DEF OrderInv, ResultsAreAsked, n
      <3>4. call.n > asked BY <1>1, <3>1
      <3> HIDE DEF call
      <3> QED BY <1>2, <1>5, <3>2, <3>3, <3>4
    <2>3. i < j /\ \A k \in (i + 1)..j : history[k].calls = <<>>
      BY <1>3, <2>1, <2>2 DEF OrderInv, InOrder, n
    <2>4. \A k \in (i + 1)..j : k \in 1..n BY <1>2, <2>1, <2>2
    <2> QED BY <1>3, <2>3, <2>4
  <1> QED BY <1>8, <1>9, <1>10 DEF OrderInv

\* A compaction keeps the order of the rows that it leaves.
LEMMA OrderOutlivesCompaction ==
  ASSUME \A c, d \in Chats : Server[c] = Server[d],
         SessionInv, SnapStands, OrderInv, NEW c \in Chats, CompactWrite(c)
  PROVE  OrderInv'
  <1>1. asked' = asked /\ \A d \in Chats : chat'[d].pc \notin InRound
    <2>1. asked' = asked /\ chat'[c].pc = "rereading"
      BY DEF CompactWrite, Becomes, SessionInv, SessionDomains, Locals
    <2> QED BY <2>1, AloneInRound DEF QuietStep, InRound
  <1>2. CASE history' = history BY <1>1, <1>2, OrderOutlivesStep
  <1>3. CASE history' # history
    <2> DEFINE n == Len(history)
    <2>1. PICK shift \in Nat :
            /\ Len(history') = Keep + 1 /\ DOMAIN history' = 1..(Keep + 1)
            /\ history'[1] = Summary
            /\ \A i \in 2..(Keep + 1) : history'[i] = history[i + shift] /\ i + shift \in 1..n
      BY <1>3, CompactedHistory
    <2>2. n \in Nat /\ Keep \in Nat \ {0} BY SessionAssumption DEF SessionInv, SessionDomains
    <2>3. \A i \in 1..(Keep + 1) : i = 1 \/ i \in 2..(Keep + 1) BY <2>2
    <2>4. Summary.calls = <<>> /\ Summary.role = "summary" BY DEF Summary, Row
    <2>5. \A i \in 1..(Keep + 1) : history'[i].role = "tool" => i \in 2..(Keep + 1)
      BY <2>1, <2>3, <2>4
    <2>6. \A i \in 1..(Keep + 1) : \A call :
            Contains(history'[i].calls, call) => i \in 2..(Keep + 1)
      <3>1. \A call : ~Contains(Summary.calls, call) BY <2>4 DEF Contains
      <3> QED BY <2>1, <2>3, <3>1
    <2> HIDE DEF n
    <2>7. ResultsAreAsked'
      <3> SUFFICES ASSUME NEW j \in 1..(Keep + 1), NEW call \in Calls,
                          history'[j].role = "tool", history'[j].of = call
                   PROVE  call.n <= asked
        BY <1>1, <2>1 DEF ResultsAreAsked
      <3>1. history'[j] = history[j + shift] /\ j + shift \in 1..n BY <2>1, <2>5
      <3> QED BY <3>1 DEF OrderInv, ResultsAreAsked, n
    <2>8. LastRound' BY <1>1 DEF LastRound
    <2>9. InOrder(history')
      <3> SUFFICES ASSUME NEW i \in 1..(Keep + 1), NEW j \in 1..(Keep + 1),
                          history'[j].role = "tool",
                          Contains(history'[i].calls, history'[j].of)
                   PROVE  i < j /\ \A k \in (i + 1)..j : history'[k].calls = <<>>
        BY <2>1 DEF InOrder
      <3>1. i \in 2..(Keep + 1) /\ j \in 2..(Keep + 1) BY <2>5, <2>6
      <3>2. /\ history'[i] = history[i + shift] /\ i + shift \in 1..n
            /\ history'[j] = history[j + shift] /\ j + shift \in 1..n
        BY <2>1, <3>1
      <3>3. /\ i + shift < j + shift
            /\ \A k \in (i + shift + 1)..(j + shift) : history[k].calls = <<>>
        BY <3>2 DEF OrderInv, InOrder, n
      <3>4. i < j BY <2>2, <3>1, <3>3
      <3>5. ASSUME NEW k \in (i + 1)..j PROVE history'[k].calls = <<>>
        <4>1. k \in 2..(Keep + 1) BY <2>2, <3>1
        <4>2. k + shift \in (i + shift + 1)..(j + shift) BY <2>2, <3>1, <4>1
        <4>3. history'[k] = history[k + shift] BY <2>1, <4>1
        <4> QED BY <3>3, <4>2, <4>3
      <3> QED BY <3>4, <3>5
    <2> QED BY <2>7, <2>8, <2>9 DEF OrderInv
  <1> QED BY <1>2, <1>3

\* What a result answers was to be done, and what is left afterwards was left before.
LEMMA RecordedCall ==
  ASSUME SessionInv, NEW c \in Chats, Record(c)
  PROVE  /\ chat[c].pc \in InRound /\ Call(c) \in Calls /\ Contains(chat[c].left, Call(c))
         /\ \A call : Contains(chat'[c].left, call) => Contains(chat[c].left, call)
  <1>1. /\ chat[c].pc = "recording" /\ chat[c].left \in Seq(Calls) /\ chat[c].left # <<>>
        /\ Call(c) \in Calls /\ chat'[c].left = Tail(chat[c].left)
    BY RecordingStep
  <1>2. Contains(chat[c].left, Call(c)) BY <1>1 DEF Call, Contains
  <1> DEFINE rest == Tail(chat[c].left)
  <1>3. rest \in Seq(Calls) /\ Len(rest) = Len(chat[c].left) - 1 BY <1>1
  <1>4. \A i \in 1..Len(rest) : rest[i] = chat[c].left[i + 1] /\ i + 1 \in 1..Len(chat[c].left)
    BY <1>1, <1>3
  <1>5. \A call : Contains(rest, call) => Contains(chat[c].left, call) BY <1>4 DEF Contains
  <1> QED BY <1>1, <1>2, <1>5 DEF InRound

\* A step of the chat that has its turn.
LEMMA QuietKeepsOrder ==
  ASSUME \A c, d \in Chats : Server[c] = Server[d],
         SessionInv, SnapStands, RoundsInv, OrderInv, NEW c \in Chats, QuietStep(c)
  PROVE  OrderInv'
  <1>1. \A d \in Chats \ {c} : chat'[d] = chat[d] /\ chat'[d].pc \notin InRound
    BY AloneInRound
  <1>2. CASE LLMCalls(c) BY <1>1, <1>2, OrderBegins
  <1>3. CASE CompactWrite(c) BY <1>3, OrderOutlivesCompaction
  <1>4. CASE Record(c)
    <2> DEFINE m == Result(Call(c))
    <2>1. asked' = asked /\ history' = Append(history, m) BY <1>4, RecordingStep
    <2>2. /\ chat[c].pc \in InRound /\ Call(c) \in Calls /\ Contains(chat[c].left, Call(c))
          /\ \A call : Contains(chat'[c].left, call) => Contains(chat[c].left, call)
      BY <1>4, RecordedCall
    <2>3. m \in Written /\ m.calls = <<>> /\ m.of = Call(c)
      BY <2>2, RowsAreRows DEF Result, Row
    <2> HIDE DEF m
    <2>4. \A d \in Chats : chat'[d].pc \in InRound => d = c BY <1>1
    <2> QED BY <2>1, <2>2, <2>3, <2>4, OrderOutlivesRow
  <1>5. CASE ~LLMCalls(c) /\ ~CompactWrite(c) /\ ~Record(c)
    <2>1. /\ chat'[c].pc \in InRound =>
               chat[c].pc \in InRound /\ chat'[c].left = chat[c].left /\ history' = history
          /\ \/ history' = history
             \/ \E m \in Written :
                  history' = Append(history, m) /\ m.calls = <<>> /\ m.role # "tool"
          /\ asked' = asked
      BY <1>5, PlainMoves
    <2>2. CASE history' = history BY <1>1, <2>1, <2>2, OrderOutlivesStep
    <2>3. CASE history' # history
      <3>1. PICK m \in Written : history' = Append(history, m) /\ m.calls = <<>> /\ m.role # "tool"
        BY <2>1, <2>3
      <3>2. \A d \in Chats : chat'[d].pc \notin InRound BY <1>1, <2>1, <2>3
      <3> QED BY <2>1, <3>1, <3>2, OrderOutlivesRow
    <2> QED BY <2>2, <2>3
  <1> QED BY <1>2, <1>3, <1>4, <1>5

\* What else a chat does is about no row, and begins no round.
LEMMA OtherStepsOfAChat ==
  ASSUME SessionInv, NEW c \in Chats,
         \/ AskUser(c) \/ NotAllowed(c) \/ UserAllows(c) \/ Post(c) \/ SkipWrapUp(c) \/ Leave(c)
  PROVE  /\ UNCHANGED <<asked, history>>
         /\ \A d \in Chats : chat'[d].pc \in InRound =>
              chat[d].pc \in InRound /\ chat'[d].left = chat[d].left
  <1>1. UNCHANGED <<asked, history>>
    BY DEF AskUser, NotAllowed, UserAllows, Post, SkipWrapUp, Leave, sessionVars
  <1>2. \A d \in Chats \ {c} : chat'[d] = chat[d] BY OthersStay
  <1>3. CASE AskUser(c) \/ NotAllowed(c) \/ UserAllows(c)
    BY <1>1, <1>2, <1>3, AtCallStep
  <1>4. CASE Post(c) \/ SkipWrapUp(c) \/ Leave(c)
    BY <1>1, <1>2, <1>4, EndingStep DEF InRound
  <1> QED BY <1>3, <1>4

\* All steps.
LEMMA OrderStep ==
  ASSUME \A c, d \in Chats : Server[c] = Server[d],
         SessionInv, SnapStands, RoundsInv, OrderInv, [Next]_vars
  PROVE  OrderInv'
  <1>1. CASE UNCHANGED vars
    <2>1. UNCHANGED <<history, asked, chat>> BY <1>1 DEF vars, sessionVars
    <2> QED BY <2>1, OrderOutlivesStep
  <1>2. CASE OutsideStep
    <2>1. asked' = asked /\ \A d \in Chats : chat'[d].pc \in InRound => chat'[d] = chat[d]
      BY <1>2, OutsideLeaves DEF InRound
    <2>2. CASE history' = history BY <2>1, <2>2, OrderOutlivesStep
    <2>3. CASE \E m \in {Text(Nobody), RecoveryNote} : history' = Append(history, m)
      <3>1. PICK m \in {Text(Nobody), RecoveryNote} : history' = Append(history, m) BY <2>3
      <3>2. m \in Written BY RowsAreRows
      <3>3. m.calls = <<>> /\ m.role # "tool" BY DEF Text, RecoveryNote, Row
      <3> QED BY <2>1, <3>1, <3>2, <3>3, OrderOutlivesRow
    <2> QED BY <1>2, <2>2, <2>3, OutsideLeaves
  <1>3. ASSUME NEW c \in Chats, QuietStep(c) PROVE OrderInv' BY <1>3, QuietKeepsOrder
  <1>4. ASSUME NEW c \in Chats, \/ AskUser(c) \/ NotAllowed(c) \/ UserAllows(c)
                                \/ Post(c) \/ SkipWrapUp(c) \/ Leave(c)
        PROVE OrderInv'
    BY <1>4, OtherStepsOfAChat, OrderOutlivesStep
  <1> QED BY <1>1, <1>2, <1>3, <1>4, StepsOfASession

\* A call that no chat will do any more, and that has no result.
Settled(call) ==
  /\ call.n <= asked /\ ~Contains(history, Result(call))
  /\ \A d \in Chats : chat[d].pc \in InRound => ~Contains(chat[d].left, call)

\* What a chat has read is in order, and what dangles in it is over.
SnapSettled ==
  \A c \in Chats : /\ InOrder(chat[c].snap)
                   /\ \A call \in Dangling(chat[c].snap) : Settled(call)

\* What dangles in rows is a call of one of them.
LEMMA WhatDanglesIsACall ==
  ASSUME NEW rows \in Seq(Written), NEW call \in Dangling(rows)
  PROVE  /\ call \in Calls /\ ~Contains(rows, Result(call))
         /\ \E i \in 1..Len(rows) : Contains(rows[i].calls, call)
  <1>1. DOMAIN rows = 1..Len(rows) OBVIOUS
  <1>2. PICK i \in 1..Len(rows) : call \in Range(rows[i].calls)
    BY <1>1 DEF Dangling, CallsOf
  <1>3. rows[i] \in Written OBVIOUS
  <1>4. rows[i].calls \in Seq(Calls) BY <1>3, FourRows
  <1>5. PICK p \in DOMAIN rows[i].calls : rows[i].calls[p] = call BY <1>2 DEF Range
  <1>6. DOMAIN rows[i].calls = 1..Len(rows[i].calls) BY <1>4
  <1>7. call \in Calls BY <1>4, <1>5, <1>6
  <1>8. Contains(rows[i].calls, call) BY <1>5, <1>6 DEF Contains
  <1> QED BY <1>7, <1>8 DEF Dangling

\* No rows, nothing that dangles.
LEMMA NothingDangles == InOrder(<<>>) /\ Dangling(<<>>) = {}
  <1>1. <<>> \in Seq(Written) /\ 1..Len(<<>>) = {} OBVIOUS
  <1> QED BY <1>1, WhatDanglesIsACall DEF InOrder

\* A result comes of a call that was to be done.
LEMMA ResultsComeFromRounds ==
  ASSUME SessionInv, SnapStands, [Next]_vars, NEW call \in Calls,
         Contains(history', Result(call)), ~Contains(history, Result(call))
  PROVE  \E d \in Chats : chat[d].pc \in InRound /\ Contains(chat[d].left, call)
  <1>1. history \in Seq(Written) BY DEF SessionInv, SessionDomains
  <1>2. history' # history OBVIOUS
  <1>3. ASSUME NEW m \in Rows, history' = Append(history, m) PROVE m = Result(call)
    <2>1. history \in Seq(Rows)
      <3>1. Written \subseteq Rows BY DEF Written
      <3> QED BY <1>1, <3>1, SeqMonotonic
    <2>2. PICK i \in 1..Len(history') : history'[i] = Result(call) BY DEF Contains
    <2>3. i \in 1..Len(history) => history'[i] = history[i] BY <1>3, <2>1
    <2>4. i \notin 1..Len(history) BY <2>2, <2>3 DEF Contains
    <2>5. i = Len(history) + 1 BY <1>3, <2>1, <2>4
    <2> QED BY <1>3, <2>1, <2>2, <2>5
  <1>4. Result(call).role = "tool" /\ Result(call).of = call BY DEF Result, Row
  <1>5. ~UNCHANGED vars BY <1>2 DEF vars, sessionVars
  <1>6. ~OutsideStep
    <2> SUFFICES ASSUME OutsideStep PROVE FALSE OBVIOUS
    <2>1. PICK m \in {Text(Nobody), RecoveryNote} : history' = Append(history, m)
      BY <1>2, OutsideLeaves
    <2>2. m \in Rows BY RowsAreRows DEF Written
    <2>3. m.role # "tool" BY DEF Text, RecoveryNote, Row
    <2> QED BY <1>3, <1>4, <2>1, <2>2, <2>3
  <1>7. PICK c \in Chats : QuietStep(c)
    BY <1>2, <1>5, <1>6, StepsOfASession, OtherStepsOfAChat
  <1>8. CASE LLMCalls(c)
    <2>1. PICK calls \in Seq(Calls) : history' = Append(history, Asking(c, calls))
      BY <1>8, CallingStep
    <2>2. Asking(c, calls) \in Rows /\ Asking(c, calls).role # "tool" BY DEF Asking, Row, Rows
    <2> QED BY <1>3, <1>4, <2>1, <2>2
  <1>9. CASE CompactWrite(c)
    <2>1. PICK shift \in Nat :
            /\ Len(history') = Keep + 1 /\ history'[1] = Summary
            /\ \A i \in 2..(Keep + 1) :
                 history'[i] = history[i + shift] /\ i + shift \in 1..Len(history)
      BY <1>2, <1>9, CompactedHistory
    <2>2. PICK i \in 1..(Keep + 1) : history'[i] = Result(call) BY <2>1 DEF Contains
    <2>3. Summary.role # "tool" BY DEF Summary, Row
    <2>4. i \in 2..(Keep + 1) BY <1>4, <2>1, <2>2, <2>3, SessionAssumption
    <2> QED BY <2>1, <2>2, <2>4 DEF Contains
  <1>10. CASE Record(c)
    <2>1. /\ chat[c].pc \in InRound /\ Call(c) \in Calls /\ Contains(chat[c].left, Call(c))
          /\ history' = Append(history, Result(Call(c)))
      BY <1>10, RecordedCall, RecordingStep
    <2>2. Result(Call(c)) \in Rows BY <2>1, RowsAreRows DEF Written
    <2>3. Result(Call(c)).of = Call(c) BY DEF Result, Row
    <2> QED BY <1>3, <1>4, <2>1, <2>2, <2>3
  <1>11. CASE ~LLMCalls(c) /\ ~CompactWrite(c) /\ ~Record(c)
    <2>1. PICK m \in Written : history' = Append(history, m) /\ m.role # "tool"
      BY <1>2, <1>7, <1>11, PlainMoves
    <2> QED BY <1>3, <1>4, <2>1 DEF Written
  <1> QED BY <1>8, <1>9, <1>10, <1>11

\* A call that a chat has to do it had to do before, or it is new.
LEMMA WhatIsLeft ==
  ASSUME SessionInv, [Next]_vars
  PROVE  /\ asked <= asked' /\ asked' \in Nat
         /\ \A d \in Chats : chat'[d].pc \in InRound =>
              \A call \in Calls : Contains(chat'[d].left, call) =>
                \/ chat[d].pc \in InRound /\ Contains(chat[d].left, call)
                \/ call.n > asked
  <1>0. asked \in Nat BY DEF SessionInv, SessionDomains
  <1>1. CASE UNCHANGED vars BY <1>0, <1>1 DEF vars
  <1>2. CASE OutsideStep BY <1>0, <1>2, OutsideLeaves DEF InRound
  <1>3. ASSUME NEW c \in Chats, QuietStep(c)
        PROVE  /\ asked <= asked' /\ asked' \in Nat
               /\ chat'[c].pc \in InRound =>
                    \A call \in Calls : Contains(chat'[c].left, call) =>
                      \/ chat[c].pc \in InRound /\ Contains(chat[c].left, call)
                      \/ call.n > asked
    <2>1. CASE LLMCalls(c) BY <2>1, CallingStep
    <2>2. CASE Record(c)
      <3>1. asked' = asked BY <2>2, RecordingStep
      <3>2. /\ chat[c].pc \in InRound
            /\ \A call : Contains(chat'[c].left, call) => Contains(chat[c].left, call)
        BY <2>2, RecordedCall
      <3> QED BY <1>0, <3>1, <3>2
    <2>3. CASE CompactWrite(c) BY <1>0, <2>3, CompactingStep DEF InRound
    <2>4. CASE ~LLMCalls(c) /\ ~CompactWrite(c) /\ ~Record(c)
      BY <1>0, <1>3, <2>4, PlainMoves
    <2> QED BY <2>1, <2>2, <2>3, <2>4
  <1>4. ASSUME NEW c \in Chats, QuietStep(c) PROVE \A d \in Chats \ {c} : chat'[d] = chat[d]
    BY <1>4, OthersStay
  <1>5. ASSUME NEW c \in Chats, \/ AskUser(c) \/ NotAllowed(c) \/ UserAllows(c)
                                \/ Post(c) \/ SkipWrapUp(c) \/ Leave(c)
        PROVE  /\ asked' = asked
               /\ \A d \in Chats : chat'[d].pc \in InRound =>
                    chat[d].pc \in InRound /\ chat'[d].left = chat[d].left
    BY <1>5, OtherStepsOfAChat
  <1> QED BY <1>0, <1>1, <1>2, <1>3, <1>4, <1>5, StepsOfASession

\* What is over stays over.
LEMMA SettledStays ==
  ASSUME SessionInv, SnapStands, [Next]_vars, NEW call \in Calls, Settled(call)
  PROVE  Settled(call)'
  <1>1. call.n \in Nat /\ asked \in Nat BY DEF Calls, SessionInv, SessionDomains
  <1>2. call.n <= asked' BY <1>1, WhatIsLeft DEF Settled
  <1>3. ~Contains(history', Result(call)) BY ResultsComeFromRounds DEF Settled
  <1>4. ASSUME NEW d \in Chats, chat'[d].pc \in InRound, Contains(chat'[d].left, call)
        PROVE  FALSE
    <2>1. call.n > asked BY <1>4, WhatIsLeft DEF Settled
    <2> QED BY <1>1, <2>1 DEF Settled
  <1> QED BY <1>2, <1>3, <1>4 DEF Settled

\* A chat keeps what it has read, forgets it, or reads all, when nobody has a call to do.
LEMMA WhatIsRead ==
  ASSUME \A c, d \in Chats : Server[c] = Server[d],
         SessionInv, [Next]_vars, NEW e \in Chats
  PROVE  \/ chat'[e].snap \in {chat[e].snap, <<>>}
         \/ /\ chat'[e].snap = history /\ UNCHANGED <<history, asked>>
            /\ \A d \in Chats : chat'[d].pc \notin InRound
  <1>1. CASE UNCHANGED vars BY <1>1 DEF vars
  <1>2. CASE OutsideStep BY <1>2, OutsideLeaves
  <1>3. ASSUME NEW c \in Chats,
               QuietStep(c) \/ AskUser(c) \/ NotAllowed(c) \/ UserAllows(c)
                 \/ Post(c) \/ SkipWrapUp(c) \/ Leave(c)
        PROVE  \/ chat'[e].snap \in {chat[e].snap, <<>>}
               \/ /\ chat'[e].snap = history /\ UNCHANGED <<history, asked>>
                  /\ \A d \in Chats : chat'[d].pc \notin InRound
    <2>1. CASE e # c
      <3>1. chat'[e] = chat[e] BY <1>3, <2>1, OthersStay
      <3> QED BY <3>1
    <2>2. CASE Begin(c) \/ Reread(c)
      <3>1. QuietStep(c) BY <2>2 DEF QuietStep
      <3>2. chat'[c].snap = history /\ UNCHANGED <<history, asked>> /\ chat'[c].pc \notin InRound
        BY <2>2, ReadingStep DEF InRound
      <3>3. \A d \in Chats \ {c} : chat'[d].pc \notin InRound BY <3>1, AloneInRound
      <3> QED BY <2>1, <3>2, <3>3
    <2>3. CASE \/ CompactWrite(c) \/ CompactFail(c)
      BY <2>1, <2>3, CompactingStep
    <2>4. CASE Open(c) BY <2>1, <2>4, OpeningStep
    <2>5. CASE \/ LLMText(c) \/ LLMFail(c) \/ Recovered(c) \/ PrefixStands(c) \/ LastWords(c)
               \/ Throw(c) \/ Post(c) \/ SkipWrapUp(c) \/ Leave(c)
      BY <2>1, <2>5, EndingStep
    <2>6. CASE LLMGarbage(c) \/ LLMClaim(c) BY <2>1, <2>6, QuestioningStep
    <2>7. CASE LLMCalls(c) BY <2>1, <2>7, CallingStep
    <2>8. CASE \/ CallRefused(c) \/ CallBegins(c) \/ CallEnds(c)
               \/ AskUser(c) \/ NotAllowed(c) \/ UserAllows(c)
      BY <2>1, <2>8, AtCallStep
    <2>9. CASE Record(c)
      <3>1. chat'[c].snap = chat[c].snap BY <2>9, RecordingStep
      <3> QED BY <2>1, <3>1
    <2>10. CASE RoundEnds(c)
      <3>1. chat'[c].snap \in {chat[c].snap, <<>>} BY <2>10, RoundingStep
      <3> QED BY <2>1, <3>1
    <2> QED BY <1>3, <2>2, <2>3, <2>4, <2>5, <2>6, <2>7, <2>8, <2>9, <2>10 DEF QuietStep
  <1> QED BY <1>1, <1>2, <1>3, StepsOfASession

\* Every step leaves it so.
LEMMA SnapSettledStep ==
  ASSUME \A c, d \in Chats : Server[c] = Server[d],
         SessionInv, SnapStands, RoundsInv, OrderInv, SnapSettled, [Next]_vars
  PROVE  SnapSettled'
  <1> SUFFICES ASSUME NEW e \in Chats
               PROVE  /\ InOrder(chat'[e].snap)
                      /\ \A call \in Dangling(chat'[e].snap) : Settled(call)'
    BY DEF SnapSettled
  <1>0. history \in Seq(Written) /\ chat[e].snap \in Seq(Written)
    BY DEF SessionInv, SessionDomains, Locals
  <1>1. CASE chat'[e].snap = chat[e].snap
    <2>1. \A call \in Dangling(chat[e].snap) : call \in Calls BY <1>0, WhatDanglesIsACall
    <2>2. \A call \in Dangling(chat[e].snap) : Settled(call)'
      BY <2>1, SettledStays DEF SnapSettled
    <2> QED BY <1>1, <2>2 DEF SnapSettled
  <1>2. CASE chat'[e].snap = <<>> BY <1>2, NothingDangles
  <1>3. CASE /\ chat'[e].snap = history /\ UNCHANGED <<history, asked>>
             /\ \A d \in Chats : chat'[d].pc \notin InRound
    <2>1. ASSUME NEW call \in Dangling(history) PROVE Settled(call)'
      <3>1. call \in Calls /\ ~Contains(history, Result(call)) BY <1>0, WhatDanglesIsACall
      <3>2. PICK i \in 1..Len(history) : Contains(history[i].calls, call)
        BY <1>0, WhatDanglesIsACall
      <3>3. call.n <= asked BY <3>1, <3>2 DEF RoundsInv, CallsAreAsked
      <3> QED BY <1>3, <3>1, <3>3 DEF Settled
    <2> QED BY <1>3, <2>1 DEF OrderInv
  <1> QED BY <1>1, <1>2, <1>3, WhatIsRead

\* What the model is told has no result dangles in what the chat has read.
LEMMA ToldInterrupted ==
  ASSUME SessionInv, SnapSettled
  PROVE  InterruptedIsOver
  <1> SUFFICES ASSUME NEW c \in Chats, NEW m \in Range(Prompt(c)), m.role = "missing"
               PROVE  ~Contains(history, Result(m.of))
    BY DEF InterruptedIsOver
  <1>1. chat[c].snap \in Seq(Written) /\ chat[c].more \in Seq(Written)
    BY DEF SessionInv, SessionDomains, Locals
  <1>2. m \in Range(Repair(chat[c].snap))
    <2> DEFINE sent == Repair(chat[c].snap)
               more == chat[c].more
    <2>1. sent \in Seq(Rows) BY <1>1, RepairIsPaired
    <2>2. more \in Seq(Rows)
      <3>1. Written \subseteq Rows BY DEF Written
      <3> QED BY <1>1, <3>1, SeqMonotonic
    <2>3. m \in Range(sent \o more) BY DEF Prompt
    <2>4. m \notin Range(more)
      <3> SUFFICES ASSUME m \in Range(more) PROVE FALSE OBVIOUS
      <3>1. PICK i \in DOMAIN more : more[i] = m BY DEF Range
      <3>2. more[i] \in Written BY <1>1, <3>1
      <3> QED BY <3>1, <3>2 DEF Written
    <2> HIDE DEF sent, more
    <2>5. Range(sent \o more) = Range(sent) \cup Range(more)
      BY ONLY <2>1, <2>2, RangeConcatenation
    <2> QED BY <2>3, <2>4, <2>5 DEF sent
  <1>3. m.of \in Dangling(chat[c].snap) BY <1>1, <1>2, MadeUpDangles DEF SnapSettled
  <1> QED BY <1>3 DEF SnapSettled, Settled

\* As long as one service has all chats of the session, a call that the model has been
\* told was interrupted has no result and gets none: only the chat that asked for it can
\* record one, and no other reads the history while that chat is at work.
THEOREM WhatIsToldIsOver ==
  ASSUME \A c, d \in Chats : Server[c] = Server[d]
  PROVE  Spec => []InterruptedIsOver
  <1>1. Init => SnapStands /\ RoundsInv /\ OrderInv /\ SnapSettled
    <2> SUFFICES ASSUME Init PROVE SnapStands /\ RoundsInv /\ OrderInv /\ SnapSettled
      OBVIOUS
    <2>1. \A c \in Chats : chat[c].pc = "idle" /\ chat[c].snap = <<>>
      BY FreshLocals, OverLocals DEF Init
    <2>2. history = <<>> BY DEF Init
    <2>3. SnapStands BY <2>1 DEF SnapStands
    <2>4. RoundsInv
      BY <2>1, <2>2 DEF RoundsInv, CallsAreAsked, RoundStands, RoundsUnbroken, InRound
    <2>5. OrderInv
      BY <2>1, <2>2, NothingDangles DEF OrderInv, ResultsAreAsked, LastRound, InRound
    <2>6. SnapSettled BY <2>1, NothingDangles DEF SnapSettled
    <2> QED BY <2>3, <2>4, <2>5, <2>6
  <1>2. SessionInv /\ SnapStands /\ [Next]_vars => SnapStands' BY SnapStep
  <1>3. SessionInv /\ SnapStands /\ RoundsInv /\ [Next]_vars => RoundsInv' BY RoundsStep
  <1>4. SessionInv /\ SnapStands /\ RoundsInv /\ OrderInv /\ [Next]_vars => OrderInv'
    BY OrderStep
  <1>5. SessionInv /\ SnapStands /\ RoundsInv /\ OrderInv /\ SnapSettled /\ [Next]_vars =>
          SnapSettled'
    BY SnapSettledStep
  <1>6. SessionInv /\ SnapSettled => InterruptedIsOver BY ToldInterrupted
  <1> QED BY <1>1, <1>2, <1>3, <1>4, <1>5, <1>6, SessionInitially, SessionStep, PTL DEF Spec

(***************************************************************************)
(* Types                                                                   *)
(***************************************************************************)
\* A chat has turns left until it closes.
TurnsLeft ==
  \A c \in Chats : \/ chat[c].turn < MaxTurns
                   \/ chat[c].turn = MaxTurns /\ chat[c].pc = "closing"

\* The memories of the gate keep to their caps.
GateCaps ==
  /\ Len(remembered) <= FingerprintCap
  /\ \A c \in Chats : Len(granted[c]) <= FingerprintCap

\* What is counted keeps to its bounds.
Counts ==
  /\ cooling \in BOOLEAN /\ up \in BOOLEAN
  /\ asked <= MaxCalls /\ faults \in 0..MaxFaults

\* No step of a chat takes more turns than there are.
LEMMA TurnsStep == SessionInv /\ TurnsLeft /\ [Next]_vars => TurnsLeft'
  <1> SUFFICES ASSUME SessionInv, TurnsLeft, [Next]_vars, NEW e \in Chats
               PROVE  \/ chat'[e].turn < MaxTurns
                      \/ chat'[e].turn = MaxTurns /\ chat'[e].pc = "closing"
    BY DEF TurnsLeft
  <1> DEFINE Left(l) == l.turn < MaxTurns \/ (l.turn = MaxTurns /\ l.pc = "closing")
  <1>0. Left(chat[e]) /\ chat[e].turn \in Nat /\ MaxTurns \in Nat \ {0}
    <2>1. Left(chat[e]) BY DEF TurnsLeft
    <2>2. chat[e] \in Locals BY DEF SessionInv, SessionDomains
    <2>3. chat[e].turn \in Nat BY <2>2 DEF Locals
    <2> QED BY <2>1, <2>3, SessionAssumption
  <1>1. CASE UNCHANGED vars BY <1>0, <1>1 DEF vars
  <1>2. CASE OutsideStep
    <2>1. chat'[e] = chat[e] \/ chat'[e].turn = 0 BY <1>2, OutsideLeaves
    <2> QED BY <1>0, <2>1
  <1>3. ASSUME NEW c \in Chats,
               QuietStep(c) \/ AskUser(c) \/ NotAllowed(c) \/ UserAllows(c)
                 \/ Post(c) \/ SkipWrapUp(c) \/ Leave(c)
        PROVE  Left(chat'[e])
    <2>1. CASE e # c
      <3>1. chat'[e] = chat[e] BY <1>3, <2>1, OthersStay
      <3> QED BY <1>0, <3>1
    <2>2. CASE Begin(c) \/ Reread(c)
      <3>1. chat'[c].turn = chat[c].turn /\ chat[c].pc # "closing" BY <2>2, ReadingStep
      <3> QED BY <1>0, <2>1, <3>1
    <2>3. CASE CompactWrite(c) \/ CompactFail(c)
      <3>1. chat'[c].turn = chat[c].turn /\ chat[c].pc # "closing" BY <2>3, CompactingStep
      <3> QED BY <1>0, <2>1, <3>1
    <2>4. CASE Open(c)
      <3>1. chat'[c].turn = chat[c].turn /\ chat[c].pc # "closing" BY <2>4, OpeningStep
      <3> QED BY <1>0, <2>1, <3>1
    <2>5. CASE \/ LLMText(c) \/ LLMFail(c) \/ Recovered(c) \/ PrefixStands(c) \/ LastWords(c)
               \/ Throw(c) \/ Post(c) \/ SkipWrapUp(c) \/ Leave(c)
      <3>1. chat'[c].turn = 0 BY <2>5, EndingStep
      <3> QED BY <1>0, <2>1, <3>1
    <2>6. CASE LLMGarbage(c) \/ LLMClaim(c)
      <3>1. /\ chat[c].pc = "asking"
            /\ \/ chat'[c].turn = chat[c].turn
               \/ chat'[c].turn = chat[c].turn + 1 /\ chat[c].turn < MaxTurns - 1
        BY <2>6, QuestioningStep
      <3> QED BY <1>0, <2>1, <3>1
    <2>7. CASE LLMCalls(c)
      <3>1. chat'[c].turn = chat[c].turn /\ chat[c].pc # "closing" BY <2>7, CallingStep
      <3> QED BY <1>0, <2>1, <3>1
    <2>8. CASE \/ CallRefused(c) \/ CallBegins(c) \/ CallEnds(c)
               \/ AskUser(c) \/ NotAllowed(c) \/ UserAllows(c)
      <3>1. chat'[c].turn = chat[c].turn /\ chat[c].pc # "closing"
        BY <2>8, AtCallStep DEF InRound
      <3> QED BY <1>0, <2>1, <3>1
    <2>9. CASE Record(c)
      <3>1. chat'[c].turn = chat[c].turn /\ chat[c].pc # "closing" BY <2>9, RecordingStep
      <3> QED BY <1>0, <2>1, <3>1
    <2>10. CASE RoundEnds(c)
      <3> DEFINE turn == chat[c].turn
                 pc == IF turn + 1 = MaxTurns THEN "closing" ELSE "asking"
      <3>1. /\ chat[c].pc # "closing"
            /\ \/ chat'[c].turn = 0
               \/ chat'[c].turn = turn
               \/ chat'[c].turn = turn + 1 /\ chat'[c].pc = pc
        BY <2>10, RoundingStep
      <3>2. CASE e = c
        <4>1. turn < MaxTurns /\ turn \in Nat BY <1>0, <3>1, <3>2
        <4>2. turn + 1 < MaxTurns \/ (turn + 1 = MaxTurns /\ pc = "closing")
          <5> HIDE DEF turn
          <5> QED BY <1>0, <4>1
        <4> QED BY <1>0, <3>1, <3>2, <4>1, <4>2
      <3> QED BY <2>1, <3>2
    <2> QED BY <1>3, <2>2, <2>3, <2>4, <2>5, <2>6, <2>7, <2>8, <2>9, <2>10 DEF QuietStep
  <1> QED BY <1>1, <1>2, <1>3, StepsOfASession

\* A full memory forgets as it remembers.
LEMMA RememberCaps ==
  ASSUME NEW known \in Seq(Tools), NEW tool \in Tools, Len(known) <= FingerprintCap
  PROVE  Len(Remember(known, tool)) <= FingerprintCap
  <1>0. FingerprintCap \in Nat \ {0} /\ Len(known) \in Nat BY GateAssumption
  <1>1. CASE Len(known) >= FingerprintCap
    <2>1. known # <<>> BY <1>0, <1>1
    <2>2. Tail(known) \in Seq(Tools) /\ Len(Tail(known)) = Len(known) - 1 BY <2>1
    <2>3. Len(Append(Tail(known), tool)) = Len(known) BY <1>0, <2>2
    <2> QED BY <1>0, <1>1, <2>2, <2>3 DEF Remember
  <1>2. CASE ~(Len(known) >= FingerprintCap)
    <2>1. Len(Append(known, tool)) = Len(known) + 1 OBVIOUS
    <2> QED BY <1>0, <1>2, <2>1 DEF Remember
  <1> QED BY <1>1, <1>2

\* What the user allows is remembered within the caps; nothing else is.
LEMMA GateCapsStep == SessionInv /\ GateInv /\ GateCaps /\ [Next]_vars => GateCaps'
  <1> SUFFICES ASSUME SessionInv, GateInv, GateCaps, [Next]_vars PROVE GateCaps' OBVIOUS
  <1>0. /\ remembered \in Seq(Tools) /\ granted \in [Chats -> Seq(Tools)]
        /\ Len(<<>>) = 0 /\ 0 <= FingerprintCap
    BY GateAssumption DEF GateInv, GateDomains
  <1>1. CASE UNCHANGED gateVars BY <1>1 DEF gateVars, GateCaps
  <1>2. CASE UNCHANGED vars BY <1>1, <1>2 DEF vars
  <1>3. CASE OutsideStep
    <2>1. CASE Crash
      <3>1. remembered' = <<>> /\ granted' = [c \in Chats |-> <<>>]
        BY <2>1 DEF Crash, GateLost
      <3> QED BY <1>0, <3>1 DEF GateCaps
    <2>2. CASE Forget BY <1>0, <2>2 DEF Forget, Evict, GateCaps
    <2>3. CASE Cool \/ OtherRow \/ Boot BY <1>1, <2>3 DEF Cool, OtherRow, Boot
    <2> QED BY <1>3, <2>1, <2>2, <2>3 DEF OutsideStep
  <1>4. ASSUME NEW c \in Chats, QuietStep(c) PROVE GateCaps' BY <1>1, <1>4, QuietLeaves
  <1>5. ASSUME NEW c \in Chats, AskUser(c) \/ NotAllowed(c) PROVE GateCaps'
    BY <1>5 DEF AskUser, NotAllowed, Ask, Refuse, GateCaps
  <1>6. ASSUME NEW c \in Chats, UserAllows(c) PROVE GateCaps'
    <2> DEFINE tool == Call(c).tool
    <2>1. tool \in Tools /\ AskOf(c).by = c /\ AskOf(c).call = Call(c)
      <3>1. chat[c].pc = "consulting" BY <1>6 DEF UserAllows, At
      <3> QED BY <3>1, AskIsAsk
    <2>2. \/ UNCHANGED <<remembered, granted>>
          \/ /\ remembered' = Remember(remembered, tool)
             /\ granted' = [granted EXCEPT ![c] = Remember(@, tool)]
      BY <1>6, <2>1 DEF UserAllows, Allow
    <2> HIDE DEF tool
    <2>3. /\ Len(Remember(remembered, tool)) <= FingerprintCap
          /\ Len(Remember(granted[c], tool)) <= FingerprintCap
      BY <1>0, <2>1, RememberCaps DEF GateCaps
    <2> QED BY <1>0, <2>2, <2>3 DEF GateCaps
  <1>7. ASSUME NEW c \in Chats, Post(c) \/ SkipWrapUp(c) PROVE GateCaps'
    BY <1>1, <1>7 DEF Post, SkipWrapUp
  <1>8. ASSUME NEW c \in Chats, Leave(c) PROVE GateCaps'
    BY <1>0, <1>8 DEF Leave, ClearForRequest, GateCaps
  <1> QED BY <1>2, <1>3, <1>4, <1>5, <1>6, <1>7, <1>8, StepsOfASession

\* Every fault and every call is counted up to its bound.
LEMMA CountsStep == SessionInv /\ Counts /\ [Next]_vars => Counts'
  <1> SUFFICES ASSUME SessionInv, Counts, [Next]_vars PROVE Counts' OBVIOUS
  <1>1. CASE UNCHANGED vars BY <1>1 DEF vars, sessionVars, Counts
  <1>2. faults' = faults \/ Fault => faults' \in 0..MaxFaults
    BY SessionAssumption DEF Counts, Fault
  <1>3. CASE OutsideStep
    <2>1. cooling' \in BOOLEAN /\ up' \in BOOLEAN /\ asked' = asked /\ (faults' = faults \/ Fault)
      BY <1>3 DEF OutsideStep, Cool, OtherRow, Crash, Boot, Forget, sessionVars, Counts
    <2> QED BY <1>2, <2>1 DEF Counts
  <1>4. ASSUME NEW c \in Chats, QuietStep(c) PROVE Counts'
    <2>1. cooling' \in BOOLEAN /\ (faults' = faults \/ Fault)
      BY <1>4
      DEF QuietStep, Begin, CompactWrite, CompactFail, Reread, Open, LLMText, LLMFail,
          LLMGarbage, Recovered, PrefixStands, LLMClaim, LLMCalls, CallRefused, CallBegins,
          CallEnds, Record, RoundEnds, LastWords, Throw, Close, sessionVars, Counts
    <2>2. asked' <= MaxCalls
      <3>1. CASE LLMCalls(c) BY <3>1, CallingStep
      <3>2. CASE CompactWrite(c) BY <3>2, CompactingStep DEF Counts
      <3>3. CASE Record(c)
        <4>1. asked' = asked BY <3>3, RecordingStep
        <4> QED BY <4>1 DEF Counts
      <3>4. CASE ~LLMCalls(c) /\ ~CompactWrite(c) /\ ~Record(c)
        BY <1>4, <3>4, PlainMoves DEF Counts
      <3> QED BY <3>1, <3>2, <3>3, <3>4
    <2>3. up' = up BY <1>4, QuietLeaves
    <2> QED BY <1>2, <2>1, <2>2, <2>3 DEF Counts
  <1>5. ASSUME NEW c \in Chats, \/ AskUser(c) \/ NotAllowed(c) \/ UserAllows(c)
                                \/ Post(c) \/ SkipWrapUp(c) \/ Leave(c)
        PROVE  Counts'
    BY <1>5
    DEF AskUser, NotAllowed, UserAllows, Post, SkipWrapUp, Leave, sessionVars, Counts
  <1> QED BY <1>1, <1>3, <1>4, <1>5, StepsOfASession

\* The domains are those of TypeOK.
LEMMA DomainsAreTypes ==
  ASSUME SessionInv, GateInv, TurnsLeft, GateCaps, Counts
  PROVE  TypeOK
  <1>1. \A rows \in Seq(Written) : rows \in Seq(Rows)
    <2>1. Written \subseteq Rows BY DEF Written
    <2> QED BY <2>1, SeqMonotonic
  <1>2. history \in Seq(Rows) /\ queue \in [Services -> Seq(Chats)] /\ asked \in 0..MaxCalls
    BY <1>1, SessionAssumption DEF SessionInv, SessionDomains, Counts
  <1>3. GateTypeOK BY DEF GateInv, GateDomains, GateCaps, GateTypeOK
  <1>4. ASSUME NEW c \in Chats
        PROVE  /\ chat[c].pc \in Places
               /\ chat[c].snap \in Seq(Rows) /\ chat[c].more \in Seq(Rows)
               /\ chat[c].left \in Seq(Calls) /\ chat[c].turn \in 0..MaxTurns
               /\ chat[c].round \in 1..2 /\ chat[c].last \in Tools \cup {Nobody}
               /\ chat[c].used \in Nat /\ chat[c].repeats \in Nat
               /\ \A flag \in {"stop", "sent", "hired", "ok", "prefixed"} :
                    chat[c][flag] \in BOOLEAN
    <2>1. chat[c] \in Locals BY DEF SessionInv, SessionDomains
    <2>2. chat[c].turn \in 0..MaxTurns
      BY <2>1, SessionAssumption DEF Locals, TurnsLeft
    <2>3. chat[c].snap \in Seq(Written) /\ chat[c].more \in Seq(Written) BY <2>1 DEF Locals
    <2> QED BY <1>1, <2>1, <2>2, <2>3 DEF Locals
  <1> QED BY <1>2, <1>3, <1>4 DEF TypeOK, Places, Counts

\* Every variable keeps to its domain, and the memories of the gate to their caps.
THEOREM SessionIsTyped == Spec => []TypeOK
  <1>1. Init => TurnsLeft /\ GateCaps /\ Counts
    <2> SUFFICES ASSUME Init PROVE TurnsLeft /\ GateCaps /\ Counts OBVIOUS
    <2>1. TurnsLeft BY OverLocals, SessionAssumption DEF Init, TurnsLeft
    <2>2. GateCaps BY GateAssumption DEF Init, GateInit, GateCaps
    <2>3. Counts
      <3>1. cooling = FALSE /\ up = TRUE /\ asked = 0 /\ faults = 0 BY DEF Init
      <3>2. 0 <= MaxCalls /\ 0 \in 0..MaxFaults BY SessionAssumption
      <3>3. cooling \in BOOLEAN /\ up \in BOOLEAN BY <3>1
      <3> QED BY <3>1, <3>2, <3>3 DEF Counts
    <2> QED BY <2>1, <2>2, <2>3
  <1>2. SessionInv /\ TurnsLeft /\ [Next]_vars => TurnsLeft' BY TurnsStep
  <1>3. SessionInv /\ GateInv /\ GateCaps /\ [Next]_vars => GateCaps' BY GateCapsStep
  <1>4. SessionInv /\ Counts /\ [Next]_vars => Counts' BY CountsStep
  <1>5. SessionInv /\ GateInv /\ TurnsLeft /\ GateCaps /\ Counts => TypeOK BY DomainsAreTypes
  <1> QED BY <1>1, <1>2, <1>3, <1>4, <1>5, SessionInitially, SessionStep, GateInitially, GateStep,
             PTL DEF Spec

===============================================================================
