---------------------------- MODULE ParserProofs ----------------------------
(***************************************************************************)
(* Proofs about the batch writer, for any process names, entries, files    *)
(* and batch size; about the strings of the rows, for any string tables    *)
(* and entries; and about the two passes over the tracev3 files, for any   *)
(* archive.                                                                *)
(***************************************************************************)
EXTENDS ParserMC, TimelineProofs

-----------------------------------------------------------------------------
(* The books: what happened to the entries h, where st is stored, pe is    *)
(* queued and dr is counted as dropped.                                    *)

Ordered(s)     == \A i, j \in DOMAIN s : i < j => s[i][1] < s[j][1]
Precedes(s, t) == \A i \in DOMAIN s, j \in DOMAIN t : s[i][1] < t[j][1]
Booked(s)      == { s[i][1] : i \in DOMAIN s }

Books(n, st, pe, dr) ==
  /\ st \in Seq((1..n) \X Nat) /\ pe \in Seq((1..n) \X Nat) /\ dr \subseteq 1..n
  /\ Ordered(st) /\ Ordered(pe) /\ Precedes(st, pe)
  /\ (Booked(st) \cup Booked(pe)) \cap dr = {}

AllBooked(n, st, pe, dr) == Booked(st) \cup Booked(pe) \cup dr = 1..n

\* The rows rs name, through the table t, the processes their entries of h carried.
NamesHold(t, rs, h) ==
  \A i \in DOMAIN rs : rs[i][2] \in DOMAIN t /\ t[rs[i][2]] = h[rs[i][1]][2]

\* A table only grows: the ids of t mean the same in u.
Extends(u, t) == \A i \in DOMAIN t : i \in DOMAIN u /\ u[i] = t[i]

CacheHolds(c, t) == \A n \in DOMAIN c : c[n] \in DOMAIN t /\ t[c[n]] = n

\* The queue is of the file being handed over, and only files before it are marked.
QueueIsOfFile ==
  /\ parsed \subseteq 1..(file - 1) /\ (~emitting => file <= NumFiles)
  /\ \A i \in DOMAIN pending : handed[pending[i][1]][1] = file

\* Cache, transaction and disk agree until a transaction is lost; with workers the run
\* then ends, so that what is stored keeps its names.
LookupHolds ==
  /\ aborted /\ parallel => dead
  /\ ~aborted => /\ CacheHolds(cache, table) /\ Extends(table, committed)
                 /\ NamesHold(table, pending, handed)
  /\ parallel \/ ~aborted => NamesHold(committed, stored, handed)

WriterInv ==
  /\ WriterTypeOK /\ QueueIsOfFile /\ LookupHolds
  /\ Books(Len(handed), stored, pending, dropped)
  /\ dead \/ (aborted /\ ~parallel) \/ AllBooked(Len(handed), stored, pending, dropped)

LEMMA RowsHaveNumbers ==
  ASSUME NEW n \in Nat, NEW s \in Seq((1..n) \X Nat)
  PROVE  /\ DOMAIN s = 1..Len(s) /\ Len(s) \in Nat
         /\ \A i \in DOMAIN s : s[i] \in (1..n) \X Nat /\ s[i][1] \in 1..n /\ s[i][2] \in Nat
         /\ Booked(s) = { r[1] : r \in ToSet(s) }
<1>1. DOMAIN s = 1..Len(s) /\ Len(s) \in Nat
  BY LenProperties
<1>2. \A i \in DOMAIN s : s[i] \in (1..n) \X Nat
  BY <1>1, ElementOfSeq
<1>3. Booked(s) = { r[1] : r \in ToSet(s) }
  BY DEF Booked, ToSet
<1> QED
  BY <1>1, <1>2, <1>3

\* What a flush leaves of the stored s and the queued rs; g says where a new row was queued.
Written(g, s, rs, bad, out) ==
  /\ Len(s) \in Nat /\ Len(out) \in Nat /\ Len(s) <= Len(out)
  /\ DOMAIN s = 1..Len(s) /\ DOMAIN out = 1..Len(out)
  /\ \A i \in DOMAIN s : out[i] = s[i]
  /\ \A i \in DOMAIN out : i > Len(s) =>
       g[i] \in DOMAIN rs /\ out[i] = rs[g[i]] /\ rs[g[i]] \notin bad
  /\ \A i, j \in DOMAIN out : i > Len(s) /\ j > Len(s) /\ i < j => g[i] < g[j]
  /\ \A k \in DOMAIN rs : rs[k] \notin bad => \E i \in DOMAIN out : i > Len(s) /\ g[i] = k

\* A flush writes, after what was stored, the rows that are not refused, in order.
LEMMA FlushWrites ==
  ASSUME NEW R, NEW s \in Seq(R), NEW rs \in Seq(R), NEW bad
  PROVE  /\ s \o Without(rs, bad) \in Seq(R)
         /\ \E g : Written(g, s, rs, bad, s \o Without(rs, bad))
<1> DEFINE w == Without(rs, bad)
           out == s \o w
<1>0. PICK f : KeptAt(f, rs, bad)
  BY WithoutKeepsOrder
<1>1. /\ f \in [1..Len(w) -> 1..Len(rs)] /\ w \in Seq(R)
      /\ \A n \in 1..Len(w) : w[n] = rs[f[n]] /\ rs[f[n]] \notin bad
      /\ \A m, n \in 1..Len(w) : m < n <=> f[m] < f[n]
      /\ \A i \in 1..Len(rs) : rs[i] \notin bad => \E n \in 1..Len(w) : f[n] = i
  BY <1>0, WithoutKeepsOrder DEF KeptAt
<1> HIDE DEF w
<1>2. /\ Len(s) \in Nat /\ DOMAIN s = 1..Len(s) /\ Len(rs) \in Nat /\ DOMAIN rs = 1..Len(rs)
      /\ Len(w) \in Nat
  BY <1>1, LenProperties
<1>3. /\ out \in Seq(R) /\ Len(out) = Len(s) + Len(w)
      /\ \A i \in 1..(Len(s) + Len(w)) : out[i] = IF i <= Len(s) THEN s[i] ELSE w[i - Len(s)]
  BY <1>1, ConcatProperties
<1> HIDE DEF out
<1>4. DOMAIN out = 1..Len(out) /\ Len(out) \in Nat /\ Len(s) <= Len(out)
  BY <1>2, <1>3, LenProperties
<1> DEFINE g == [i \in DOMAIN out |-> IF i <= Len(s) THEN 0 ELSE f[i - Len(s)]]
<1>5. \A i \in DOMAIN out : i > Len(s) => i - Len(s) \in 1..Len(w) /\ g[i] = f[i - Len(s)]
  BY <1>2, <1>3, <1>4
<1>7. \A i \in DOMAIN s : out[i] = s[i]
  BY <1>2, <1>3
<1>8. \A i \in DOMAIN out : i > Len(s) =>
         g[i] \in DOMAIN rs /\ out[i] = rs[g[i]] /\ rs[g[i]] \notin bad
  <2> SUFFICES ASSUME NEW i \in DOMAIN out, i > Len(s)
               PROVE  g[i] \in DOMAIN rs /\ out[i] = rs[g[i]] /\ rs[g[i]] \notin bad
    OBVIOUS
  <2>1. i - Len(s) \in 1..Len(w) /\ g[i] = f[i - Len(s)]
    BY <1>5
  <2>2. out[i] = w[i - Len(s)]
    BY <1>2, <1>3, <1>4
  <2> HIDE DEF g
  <2> QED
    BY <1>1, <1>2, <2>1, <2>2
<1>9. \A i, j \in DOMAIN out : i > Len(s) /\ j > Len(s) /\ i < j => g[i] < g[j]
  <2> HIDE DEF g
  <2>1. \A i, j \in DOMAIN out : i < j => i - Len(s) < j - Len(s)
    BY <1>2, <1>4
  <2> QED
    BY <1>1, <1>5, <2>1
<1>10. ASSUME NEW k \in DOMAIN rs, rs[k] \notin bad
       PROVE  \E i \in DOMAIN out : i > Len(s) /\ g[i] = k
  <2>1. PICK n \in 1..Len(w) : f[n] = k
    BY <1>1, <1>2, <1>10
  <2>2. n + Len(s) \in DOMAIN out /\ n + Len(s) > Len(s) /\ (n + Len(s)) - Len(s) = n
    BY <1>2, <1>3, <1>4
  <2> HIDE DEF g
  <2>3. g[n + Len(s)] = k
    BY <1>5, <2>1, <2>2
  <2> QED
    BY <2>2, <2>3
<1> HIDE DEF g
<1>6. Written(g, s, rs, bad, out)
  BY <1>2, <1>4, <1>7, <1>8, <1>9, <1>10 DEF Written
<1> QED
  BY <1>3, <1>6 DEF out, w

\* The books after the flush: out is stored, and out2 counted as dropped.
FlushesTo(n, st, rs, dr, bad, out, out2) ==
  /\ Books(n, out, <<>>, out2)
  /\ AllBooked(n, st, rs, dr) => AllBooked(n, out, <<>>, out2)
  /\ \A i \in DOMAIN out : \/ i \in DOMAIN st /\ out[i] = st[i]
                           \/ \E k \in DOMAIN rs : out[i] = rs[k] /\ rs[k] \notin bad

\* A flush: each queued row goes to the table or to the count of errors.
LEMMA BooksFlushed ==
  ASSUME NEW n \in Nat, NEW st, NEW rs, NEW dr, Books(n, st, rs, dr), NEW bad \in SUBSET ToSet(rs)
  PROVE  FlushesTo(n, st, rs, dr, bad, st \o Without(rs, bad), dr \cup { r[1] : r \in bad })
<1> DEFINE R == (1..n) \X Nat
           out == st \o Without(rs, bad)
           out2 == dr \cup { r[1] : r \in bad }
<1>1. st \in Seq(R) /\ rs \in Seq(R) /\ dr \subseteq 1..n
  BY DEF Books
<1>0. PICK g : Written(g, st, rs, bad, out)
  BY <1>1, FlushWrites
<1>12. out \in Seq(R)
  BY <1>1, FlushWrites
<1> HIDE DEF out
<1>2. /\ Len(st) \in Nat /\ Len(out) \in Nat /\ Len(st) <= Len(out)
      /\ DOMAIN st = 1..Len(st) /\ DOMAIN out = 1..Len(out)
      /\ \A i \in DOMAIN st : out[i] = st[i]
      /\ \A i \in DOMAIN out : i > Len(st) =>
           g[i] \in DOMAIN rs /\ out[i] = rs[g[i]] /\ rs[g[i]] \notin bad
      /\ \A i, j \in DOMAIN out : i > Len(st) /\ j > Len(st) /\ i < j => g[i] < g[j]
      /\ \A k \in DOMAIN rs : rs[k] \notin bad => \E i \in DOMAIN out : i > Len(st) /\ g[i] = k
  BY <1>0 DEF Written
<1>3. \A i \in DOMAIN out : \/ i <= Len(st) /\ i \in DOMAIN st /\ out[i] = st[i]
                            \/ i > Len(st) /\ g[i] \in DOMAIN rs /\ out[i] = rs[g[i]] /\ rs[g[i]] \notin bad
  BY <1>2
<1>4. /\ \A i \in DOMAIN st : st[i][1] \in 1..n
      /\ \A i \in DOMAIN rs : rs[i][1] \in 1..n
      /\ DOMAIN rs = 1..Len(rs) /\ Len(rs) \in Nat
  BY <1>1, RowsHaveNumbers
<1>5. \A r \in bad : \E k \in DOMAIN rs : r = rs[k]
  BY DEF ToSet
<1>6. \A j, k \in DOMAIN rs : rs[j][1] = rs[k][1] => j = k
  <2>1. \A j, k \in DOMAIN rs : j < k => rs[j][1] < rs[k][1]
    BY DEF Books, Ordered
  <2> QED
    BY <1>4, <2>1
<1>7. out2 \subseteq 1..n
  <2>1. \A r \in bad : r[1] \in 1..n
    BY <1>4, <1>5
  <2> QED
    BY <1>1, <2>1
<1>8. Ordered(out)
  <2> SUFFICES ASSUME NEW i \in DOMAIN out, NEW j \in DOMAIN out, i < j
               PROVE  out[i][1] < out[j][1]
    BY DEF Ordered
  <2>1. CASE i \in DOMAIN st /\ j \in DOMAIN st
    BY <1>2, <2>1 DEF Books, Ordered
  <2>2. CASE i \in DOMAIN st /\ j > Len(st)
    <3>1. out[i] = st[i] /\ out[j] = rs[g[j]] /\ g[j] \in DOMAIN rs
      BY <1>2, <2>2
    <3> QED
      BY <2>2, <3>1 DEF Books, Precedes
  <2>3. CASE i > Len(st) /\ j > Len(st)
    <3>1. out[i] = rs[g[i]] /\ out[j] = rs[g[j]] /\ g[i] < g[j] /\ g[i] \in DOMAIN rs
          /\ g[j] \in DOMAIN rs
      BY <1>2, <2>3
    <3> QED
      BY <3>1 DEF Books, Ordered
  <2> QED
    BY <1>2, <1>3, <2>1, <2>2, <2>3
<1>9. Booked(out) \cap out2 = {}
  <2> SUFFICES ASSUME NEW i \in DOMAIN out, out[i][1] \in out2
               PROVE  FALSE
    BY DEF Booked
  <2>1. out[i][1] \in dr \/ \E k \in DOMAIN rs : rs[k] \in bad /\ out[i][1] = rs[k][1]
    BY <1>5
  <2>2. CASE i \in DOMAIN st /\ out[i] = st[i]
    <3>1. st[i][1] \in Booked(st)
      BY <2>2 DEF Booked
    <3>2. st[i][1] \notin dr
      BY <3>1 DEF Books
    <3>3. \A k \in DOMAIN rs : st[i][1] # rs[k][1]
      BY <1>4, <2>2 DEF Books, Precedes
    <3> QED
      BY <2>1, <2>2, <3>2, <3>3
  <2>3. CASE g[i] \in DOMAIN rs /\ out[i] = rs[g[i]] /\ rs[g[i]] \notin bad
    <3>1. rs[g[i]][1] \in Booked(rs)
      BY <2>3 DEF Booked
    <3>2. rs[g[i]][1] \notin dr
      BY <3>1 DEF Books
    <3> QED
      BY <1>6, <2>1, <2>3, <3>2
  <2> QED
    BY <1>3, <2>2, <2>3
<1>10. Books(n, out, <<>>, out2)
  <2>1. <<>> \in Seq(R) /\ DOMAIN <<>> = {}
    BY EmptySeq
  <2>2. Ordered(<<>>) /\ Precedes(out, <<>>) /\ Booked(<<>>) = {}
    BY <2>1 DEF Ordered, Precedes, Booked
  <2> QED
    BY <1>7, <1>8, <1>9, <1>12, <2>1, <2>2 DEF Books
<1>11. AllBooked(n, st, rs, dr) => AllBooked(n, out, <<>>, out2)
  <2> SUFFICES ASSUME AllBooked(n, st, rs, dr) PROVE AllBooked(n, out, <<>>, out2)
    OBVIOUS
  <2>1. \A x \in Booked(st) : x \in Booked(out)
    BY <1>2 DEF Booked
  <2>2. \A x \in Booked(rs) : x \in Booked(out) \/ x \in out2
    <3> SUFFICES ASSUME NEW k \in DOMAIN rs
                 PROVE  rs[k][1] \in Booked(out) \/ rs[k][1] \in out2
      BY DEF Booked
    <3>1. CASE rs[k] \in bad
      BY <3>1
    <3>2. CASE rs[k] \notin bad
      <4>1. PICK i \in DOMAIN out : i > Len(st) /\ g[i] = k
        BY <1>2, <3>2
      <4>2. out[i] = rs[k]
        BY <1>2, <4>1
      <4> QED
        BY <4>2 DEF Booked
    <3> QED
      BY <3>1, <3>2
  <2>3. Booked(out) \subseteq 1..n
    BY <1>12, RowsHaveNumbers DEF Booked
  <2>4. Booked(<<>>) = {}
    BY DEF Booked
  <2> QED
    BY <1>7, <2>1, <2>2, <2>3, <2>4 DEF AllBooked
<1> QED
  BY <1>3, <1>10, <1>11 DEF out, FlushesTo

\* An entry more: queued under any id, or lost with the queue or without it.
LEMMA BooksGrow ==
  ASSUME NEW n \in Nat, NEW st, NEW pe, NEW dr, Books(n, st, pe, dr), NEW id \in Nat
  PROVE  /\ Books(n + 1, st, Append(pe, <<n + 1, id>>), dr)
         /\ AllBooked(n, st, pe, dr) => AllBooked(n + 1, st, Append(pe, <<n + 1, id>>), dr)
         /\ Books(n + 1, st, pe, dr) /\ Books(n + 1, st, <<>>, dr) /\ Books(n, st, <<>>, dr)
<1> DEFINE R == (1..(n + 1)) \X Nat
           row == <<n + 1, id>>
           rs == Append(pe, row)
<1>1. st \in Seq((1..n) \X Nat) /\ pe \in Seq((1..n) \X Nat) /\ dr \subseteq 1..n
  BY DEF Books
<1>2. st \in Seq(R) /\ pe \in Seq(R) /\ row \in R /\ dr \subseteq 1..(n + 1)
  <2>1. (1..n) \X Nat \subseteq R /\ 1..n \subseteq 1..(n + 1) /\ row \in R
    OBVIOUS
  <2> HIDE DEF R
  <2>2. st \in Seq(R)
    BY <1>1, <2>1, SeqMonotonic
  <2>3. pe \in Seq(R)
    BY <1>1, <2>1, SeqMonotonic
  <2> QED
    BY <1>1, <2>1, <2>2, <2>3
<1>3. /\ DOMAIN pe = 1..Len(pe) /\ Len(pe) \in Nat
      /\ \A i \in DOMAIN pe : pe[i][1] \in 1..n
      /\ \A i \in DOMAIN st : st[i][1] \in 1..n
  BY <1>1, RowsHaveNumbers
<1>4. rs \in Seq(R) /\ Len(rs) = Len(pe) + 1 /\ DOMAIN rs = 1..(Len(pe) + 1)
      /\ (\A i \in DOMAIN pe : rs[i] = pe[i]) /\ rs[Len(pe) + 1] = row
  <2> HIDE DEF R, row
  <2> QED
    BY <1>2, <1>3, AppendProperties
<1>5. row[1] = n + 1
  OBVIOUS
<1> HIDE DEF rs, row
<1>6. \A i \in DOMAIN rs : \/ i \in DOMAIN pe /\ rs[i] = pe[i]
                           \/ i = Len(pe) + 1 /\ rs[i][1] = n + 1
  BY <1>3, <1>4, <1>5
<1>7. Ordered(rs)
  <2> SUFFICES ASSUME NEW i \in DOMAIN rs, NEW j \in DOMAIN rs, i < j
               PROVE  rs[i][1] < rs[j][1]
    BY DEF Ordered
  <2>1. i \in DOMAIN pe /\ rs[i] = pe[i]
    <3>1. i \in 1..(Len(pe) + 1) /\ j \in 1..(Len(pe) + 1)
      BY <1>4
    <3>2. i \in 1..Len(pe)
      BY <1>3, <3>1
    <3> QED
      BY <1>3, <1>4, <3>2
  <2>2. CASE j \in DOMAIN pe /\ rs[j] = pe[j]
    BY <2>1, <2>2 DEF Books, Ordered
  <2>3. CASE rs[j][1] = n + 1
    BY <1>3, <2>1, <2>3
  <2> QED
    BY <1>6, <2>2, <2>3
<1>8. Precedes(st, rs)
  <2> SUFFICES ASSUME NEW i \in DOMAIN st, NEW j \in DOMAIN rs
               PROVE  st[i][1] < rs[j][1]
    BY DEF Precedes
  <2>1. CASE j \in DOMAIN pe /\ rs[j] = pe[j]
    BY <2>1 DEF Books, Precedes
  <2>2. CASE rs[j][1] = n + 1
    BY <1>3, <2>2
  <2> QED
    BY <1>6, <2>1, <2>2
<1>9. Booked(rs) = Booked(pe) \cup {n + 1}
  <2>1. \A x \in Booked(rs) : x \in Booked(pe) \cup {n + 1}
    BY <1>6 DEF Booked
  <2>2. \A x \in Booked(pe) : x \in Booked(rs)
    BY <1>3, <1>4 DEF Booked
  <2>3. n + 1 \in Booked(rs)
    BY <1>3, <1>4, <1>5 DEF Booked
  <2> QED
    BY <2>1, <2>2, <2>3
<1>10. (Booked(st) \cup Booked(rs)) \cap dr = {}
  <2>1. n + 1 \notin dr
    BY <1>1
  <2> QED
    BY <1>9, <2>1 DEF Books
<1>11. Books(n + 1, st, rs, dr)
  BY <1>2, <1>4, <1>7, <1>8, <1>10 DEF Books
<1>12. AllBooked(n, st, pe, dr) => AllBooked(n + 1, st, rs, dr)
  <2>1. 1..(n + 1) = (1..n) \cup {n + 1}
    OBVIOUS
  <2> QED
    BY <1>9, <2>1 DEF AllBooked
<1>13. Books(n + 1, st, pe, dr)
  BY <1>2 DEF Books
<1>14. Books(n + 1, st, <<>>, dr) /\ Books(n, st, <<>>, dr)
  <2>1. <<>> \in Seq(R) /\ <<>> \in Seq((1..n) \X Nat) /\ DOMAIN <<>> = {}
    BY EmptySeq
  <2>2. Ordered(<<>>) /\ Precedes(st, <<>>) /\ Booked(<<>>) = {}
    BY <2>1 DEF Ordered, Precedes, Booked
  <2> QED
    BY <1>1, <1>2, <2>1, <2>2 DEF Books
<1> QED
  BY <1>11, <1>12, <1>13, <1>14 DEF rs, row

\* _get_or_insert: the id it returns names the process, and the ids given before stay.
LEMMA LookupAdds ==
  ASSUME table \in Seq(ProcessNames), DOMAIN cache \subseteq ProcessNames,
         \A m \in DOMAIN cache : cache[m] \in Nat, NEW n \in ProcessNames
  PROVE  /\ TableWith(n) \in Seq(ProcessNames) /\ Extends(TableWith(n), table)
         /\ DOMAIN CacheWith(n) \subseteq ProcessNames
         /\ \A m \in DOMAIN CacheWith(n) : CacheWith(n)[m] \in Nat
         /\ IdOf(n) \in Nat
         /\ CacheHolds(cache, table) =>
              /\ CacheHolds(CacheWith(n), TableWith(n))
              /\ IdOf(n) \in DOMAIN TableWith(n) /\ TableWith(n)[IdOf(n)] = n
<1>1. DOMAIN table = 1..Len(table) /\ Len(table) \in Nat
  BY LenProperties
<1>2. CASE Known(n)
  <2>1. TableWith(n) = table /\ IdOf(n) = cache[n] /\ n \in DOMAIN cache
    BY <1>2 DEF TableWith, IdOf, Known
  <2>2. DOMAIN CacheWith(n) = DOMAIN cache /\ \A m \in DOMAIN cache : CacheWith(n)[m] = cache[m]
    BY <2>1 DEF CacheWith
  <2> QED
    BY <2>1, <2>2 DEF CacheHolds, Extends
<1>3. CASE ~Known(n)
  <2> DEFINE u == TableWith(n)
  <2>1. /\ u \in Seq(ProcessNames) /\ DOMAIN u \subseteq Nat /\ Extends(u, table)
        /\ \E i \in DOMAIN u : u[i] = n
    <3>1. CASE n \in Range(table)
      <4>1. u = table
        BY <3>1 DEF TableWith
      <4> QED
        BY <1>1, <3>1, <4>1 DEF Range, Extends
    <3>2. CASE n \notin Range(table)
      <4>1. u = Append(table, n)
        BY <1>3, <3>2 DEF TableWith
      <4>2. /\ u \in Seq(ProcessNames) /\ DOMAIN u = 1..(Len(table) + 1)
            /\ u[Len(table) + 1] = n /\ \A i \in 1..Len(table) : u[i] = table[i]
        BY <1>1, <4>1, AppendProperties
      <4> HIDE DEF u
      <4>3. 1..Len(table) \subseteq 1..(Len(table) + 1) /\ Len(table) + 1 \in 1..(Len(table) + 1)
            /\ 1..(Len(table) + 1) \subseteq Nat
        BY <1>1
      <4> QED
        BY <1>1, <4>2, <4>3 DEF Extends
    <3> QED
      BY <3>1, <3>2
  <2>2. IdOf(n) = CHOOSE i \in DOMAIN u : u[i] = n
    BY <1>3 DEF IdOf
  <2> HIDE DEF u
  <2>3. IdOf(n) \in DOMAIN u /\ u[IdOf(n)] = n
    BY <2>1, <2>2
  <2>4. /\ DOMAIN CacheWith(n) = DOMAIN cache \cup {n} /\ CacheWith(n)[n] = IdOf(n)
        /\ \A m \in DOMAIN cache : m # n => CacheWith(n)[m] = cache[m]
    BY DEF CacheWith
  <2>5. n \notin DOMAIN cache
    BY <1>3 DEF Known
  <2>6. CacheHolds(cache, table) => CacheHolds(CacheWith(n), u)
    BY <2>1, <2>3, <2>4, <2>5 DEF CacheHolds, Extends
  <2> QED
    BY <2>1, <2>3, <2>4, <2>5, <2>6 DEF u
<1> QED
  BY <1>2, <1>3

\* Names hold on when the table and the entries grow.
LEMMA NamesHoldOn ==
  ASSUME NEW H, NEW h \in Seq(H), NEW e \in H, NEW rs \in Seq((1..Len(h)) \X Nat),
         NEW t, NEW u, Extends(u, t), NamesHold(t, rs, h)
  PROVE  NamesHold(u, rs, h) /\ NamesHold(u, rs, Append(h, e))
<1>1. Len(h) \in Nat
  BY LenProperties
<1>2. \A i \in DOMAIN rs : rs[i][1] \in 1..Len(h)
  BY <1>1, RowsHaveNumbers
<1>3. \A k \in 1..Len(h) : Append(h, e)[k] = h[k]
  BY <1>1, AppendProperties
<1> QED
  BY <1>2, <1>3 DEF NamesHold, Extends

\* An entry handed over: the lookup has its name, and its row fits behind the queue.
LEMMA EntryComes ==
  ASSUME WriterInv, CanAdd, NEW n \in ProcessNames, Hand(n)
  PROVE  LET rs == Append(pending, NextRow(n))
             t  == TableWith(n)
             k  == Len(handed')
         IN /\ handed' \in Seq((1..NumFiles) \X ProcessNames)
            /\ k = Len(handed) + 1 /\ k \in Nat /\ file \in 1..NumFiles
            /\ Books(k, stored, rs, dropped) /\ Books(k, stored, pending, dropped)
            /\ Books(k, stored, <<>>, dropped)
            /\ AllBooked(Len(handed), stored, pending, dropped)
                 => AllBooked(k, stored, rs, dropped)
            /\ t \in Seq(ProcessNames) /\ DOMAIN CacheWith(n) \subseteq ProcessNames
            /\ \A m \in DOMAIN CacheWith(n) : CacheWith(n)[m] \in Nat
            /\ ~aborted => /\ CacheHolds(CacheWith(n), t) /\ Extends(t, committed)
                           /\ NamesHold(t, rs, handed')
            /\ parallel \/ ~aborted => NamesHold(committed, stored, handed')
            /\ \A i \in DOMAIN rs : handed'[rs[i][1]][1] = file
            /\ \A i \in DOMAIN pending : handed'[pending[i][1]][1] = file
<1> DEFINE H == (1..NumFiles) \X ProcessNames
           e == <<file, n>>
           k == Len(handed) + 1
           rs == Append(pending, NextRow(n))
           t == TableWith(n)
<1>1. /\ handed \in Seq(H) /\ committed \in Seq(ProcessNames) /\ table \in Seq(ProcessNames)
      /\ DOMAIN cache \subseteq ProcessNames /\ \A m \in DOMAIN cache : cache[m] \in Nat
      /\ file \in 1..(NumFiles + 1) /\ NumFiles \in Nat
  BY BatchWriterAssumption DEF WriterInv, WriterTypeOK
<1>2. file \in 1..NumFiles /\ e \in H
  BY <1>1 DEF CanAdd
<1>3. handed' = Append(handed, e) /\ Len(handed) \in Nat
  BY <1>1, LenProperties DEF Hand
<1>4. /\ handed' \in Seq(H) /\ Len(handed') = k /\ handed'[k] = e
      /\ \A i \in 1..Len(handed) : handed'[i] = handed[i]
  <2> HIDE DEF H, e
  <2> QED
    BY <1>1, <1>2, <1>3, AppendProperties
<1>5. k \in Nat
  BY <1>3
<1>6. /\ t \in Seq(ProcessNames) /\ Extends(t, table)
      /\ DOMAIN CacheWith(n) \subseteq ProcessNames
      /\ \A m \in DOMAIN CacheWith(n) : CacheWith(n)[m] \in Nat
      /\ IdOf(n) \in Nat
      /\ CacheHolds(cache, table) =>
           /\ CacheHolds(CacheWith(n), t) /\ IdOf(n) \in DOMAIN t /\ t[IdOf(n)] = n
  BY <1>1, LookupAdds
<1>7. /\ Books(k, stored, rs, dropped) /\ Books(k, stored, pending, dropped)
      /\ Books(k, stored, <<>>, dropped)
      /\ AllBooked(Len(handed), stored, pending, dropped) => AllBooked(k, stored, rs, dropped)
  BY <1>3, <1>6, BooksGrow DEF WriterInv, NextRow
<1>8. /\ pending \in Seq((1..Len(handed)) \X Nat) /\ stored \in Seq((1..Len(handed)) \X Nat)
      /\ DOMAIN pending = 1..Len(pending) /\ Len(pending) \in Nat
      /\ \A i \in DOMAIN pending : pending[i][1] \in 1..Len(handed)
  <2>1. /\ pending \in Seq((1..Len(handed)) \X Nat) /\ stored \in Seq((1..Len(handed)) \X Nat)
    BY DEF WriterInv, Books
  <2> QED
    BY <1>3, <2>1, RowsHaveNumbers
<1>9. \A i \in DOMAIN rs : \/ i \in DOMAIN pending /\ rs[i] = pending[i]
                           \/ rs[i][1] = k /\ rs[i][2] = IdOf(n)
  <2> DEFINE R == Nat \X Nat
  <2>1. pending \in Seq(R) /\ NextRow(n) \in R
    <3>1. (1..Len(handed)) \X Nat \subseteq R /\ NextRow(n) \in R
      BY <1>3, <1>6 DEF NextRow
    <3> HIDE DEF R
    <3> QED
      BY <1>8, <3>1, SeqMonotonic
  <2>2. NextRow(n)[1] = k /\ NextRow(n)[2] = IdOf(n)
    BY DEF NextRow
  <2> HIDE DEF R
  <2>3. /\ rs \in Seq(R) /\ Len(rs) = Len(pending) + 1 /\ rs[Len(pending) + 1] = NextRow(n)
        /\ \A i \in 1..Len(pending) : rs[i] = pending[i]
    BY <2>1, AppendProperties
  <2>4. DOMAIN rs = 1..(Len(pending) + 1)
    BY <2>3, LenProperties
  <2> QED
    BY <1>8, <2>2, <2>3, <2>4
<1> HIDE DEF t, rs, e, H, k
<1>10. \A i \in DOMAIN pending : handed'[pending[i][1]][1] = file
  BY <1>4, <1>8 DEF WriterInv, QueueIsOfFile
<1>11. \A i \in DOMAIN rs : handed'[rs[i][1]][1] = file
  <2>1. e[1] = file
    BY DEF e
  <2> QED
    BY <1>4, <1>9, <1>10, <2>1
<1>12. ~aborted => CacheHolds(CacheWith(n), t) /\ Extends(t, committed) /\ NamesHold(t, rs, handed')
  <2> SUFFICES ASSUME ~aborted
               PROVE  CacheHolds(CacheWith(n), t) /\ Extends(t, committed) /\ NamesHold(t, rs, handed')
    OBVIOUS
  <2>1. /\ CacheHolds(cache, table) /\ Extends(table, committed)
        /\ NamesHold(table, pending, handed)
    BY DEF WriterInv, LookupHolds
  <2>2. NamesHold(t, pending, handed')
    BY <1>1, <1>2, <1>3, <1>6, <1>8, <2>1, NamesHoldOn
  <2>3. e[2] = n
    BY DEF e
  <2>4. NamesHold(t, rs, handed')
    BY <1>4, <1>6, <1>9, <2>1, <2>2, <2>3 DEF NamesHold
  <2>5. Extends(t, committed)
    BY <1>6, <2>1 DEF Extends
  <2> QED
    BY <1>6, <2>1, <2>4, <2>5
<1>13. parallel \/ ~aborted => NamesHold(committed, stored, handed')
  <2>1. Extends(committed, committed)
    BY DEF Extends
  <2> QED
    BY <1>1, <1>2, <1>3, <1>8, <2>1, NamesHoldOn DEF WriterInv, LookupHolds
<1> QED
  BY <1>2, <1>4, <1>5, <1>6, <1>7, <1>10, <1>11, <1>12, <1>13 DEF k, t, rs, H

\* A flush, as the steps use it: every row keeps the name it was queued with.
LEMMA FlushStep ==
  ASSUME NEW H, NEW h \in Seq(H), NEW rs, NEW t \in Seq(ProcessNames), FlushOutcome(rs, t),
         Books(Len(h), stored, rs, dropped),
         ~aborted => Extends(t, committed) /\ NamesHold(t, rs, h) /\ NamesHold(committed, stored, h)
  PROVE  /\ Books(Len(h), stored', pending', dropped')
         /\ AllBooked(Len(h), stored, rs, dropped) => AllBooked(Len(h), stored', pending', dropped')
         /\ table' = t /\ committed' = t /\ pending' = <<>>
         /\ ~aborted => NamesHold(t, stored', h)
<1>1. PICK unlucky \in SUBSET ToSet(rs) : Flushed(rs, t, Dangling(rs, t) \cup unlucky)
  <2>1. {} \in SUBSET ToSet(rs)
    OBVIOUS
  <2> QED
    BY <2>1 DEF FlushOutcome
<1> DEFINE bad == Dangling(rs, t) \cup unlucky
           out == stored \o Without(rs, bad)
           out2 == dropped \cup { r[1] : r \in bad }
<1>2. bad \in SUBSET ToSet(rs)
  BY DEF Dangling
<1>3. stored' = out /\ dropped' = out2 /\ committed' = t /\ table' = t /\ pending' = <<>>
  BY <1>1 DEF Flushed
<1>4. Len(h) \in Nat
  BY LenProperties
<1> HIDE DEF bad
<1>5. FlushesTo(Len(h), stored, rs, dropped, bad, out, out2)
  BY <1>2, <1>4, BooksFlushed
<1> HIDE DEF out, out2
<1>6. ~aborted => NamesHold(t, out, h)
  BY <1>5 DEF NamesHold, Extends, FlushesTo
<1> QED
  BY <1>3, <1>5, <1>6 DEF FlushesTo

-----------------------------------------------------------------------------
(* The invariant *)

LEMMA WriterStart == WriterInit => WriterInv
<1> SUFFICES ASSUME WriterInit PROVE WriterInv
  OBVIOUS
<1> USE DEF WriterInit
<1>1. \A S : <<>> \in Seq(S)
  BY EmptySeq
<1>2. DOMAIN <<>> = {} /\ Len(<<>>) = 0
  BY EmptySeq
<1>3. WriterTypeOK
  <2>1. 1 \in 1..NumFiles + 1
    BY BatchWriterAssumption
  <2>2. DOMAIN cache = {}
    BY <1>2
  <2>3. \A m \in DOMAIN cache : cache[m] \in Nat
    BY <2>2
  <2>4. {emitting, dead, parallel, aborted} \subseteq BOOLEAN
    OBVIOUS
  <2>5. /\ handed \in Seq((1..NumFiles) \X ProcessNames)
        /\ committed \in Seq(ProcessNames) /\ table \in Seq(ProcessNames)
        /\ pending \in Seq(WriterRow) /\ stored \in Seq(WriterRow)
    BY <1>1
  <2>6. dropped \subseteq Handed /\ parsed \subseteq 1..NumFiles
    OBVIOUS
  <2> QED
    BY <2>1, <2>2, <2>3, <2>4, <2>5, <2>6 DEF WriterTypeOK
<1>4. QueueIsOfFile
  BY <1>2 DEF QueueIsOfFile
<1>5. LookupHolds
  BY <1>2 DEF LookupHolds, CacheHolds, Extends, NamesHold
<1>6. Booked(<<>>) = {}
  BY <1>2 DEF Booked
<1>7. Books(Len(handed), stored, pending, dropped)
  BY <1>1, <1>2, <1>6 DEF Books, Ordered, Precedes
<1>8. AllBooked(Len(handed), stored, pending, dropped)
  BY <1>2, <1>6 DEF AllBooked
<1> QED
  BY <1>3, <1>4, <1>5, <1>7, <1>8 DEF WriterInv

\* Adding the entry of a process: queued, flushed with its batch, or lost with the
\* transaction by the flush or by the lookup.
LEMMA AddKeepsInv ==
  ASSUME WriterInv, NEW n \in ProcessNames,
         AddQueues(n) \/ AddFlushes(n) \/ AddFlushAborts(n) \/ AddLookupAborts(n)
  PROVE  WriterInv'
<1> DEFINE rs == Append(pending, NextRow(n))
           t  == TableWith(n)
           c  == CacheWith(n)
           k  == Len(handed')
<1>1. CanAdd /\ Hand(n)
  BY DEF AddQueues, AddFlushes, AddFlushAborts, AddLookupAborts
<1>2. /\ handed' \in Seq((1..NumFiles) \X ProcessNames)
      /\ k = Len(handed) + 1 /\ k \in Nat /\ file \in 1..NumFiles
      /\ Books(k, stored, rs, dropped) /\ Books(k, stored, pending, dropped)
      /\ Books(k, stored, <<>>, dropped)
      /\ AllBooked(Len(handed), stored, pending, dropped) => AllBooked(k, stored, rs, dropped)
      /\ t \in Seq(ProcessNames) /\ DOMAIN c \subseteq ProcessNames
      /\ \A m \in DOMAIN c : c[m] \in Nat
      /\ ~aborted => /\ CacheHolds(c, t) /\ Extends(t, committed) /\ NamesHold(t, rs, handed')
      /\ parallel \/ ~aborted => NamesHold(committed, stored, handed')
      /\ \A i \in DOMAIN rs : handed'[rs[i][1]][1] = file
      /\ \A i \in DOMAIN pending : handed'[pending[i][1]][1] = file
  BY <1>1, EntryComes
<1> HIDE DEF rs, t, c
<1>3. /\ committed \in Seq(ProcessNames) /\ table \in Seq(ProcessNames)
      /\ DOMAIN cache \subseteq ProcessNames /\ (\A m \in DOMAIN cache : cache[m] \in Nat)
      /\ file \in 1..NumFiles + 1 /\ parsed \subseteq 1..NumFiles
      /\ {emitting, dead, parallel, aborted} \subseteq BOOLEAN
      /\ parsed \subseteq 1..(file - 1) /\ (~emitting => file <= NumFiles)
      /\ (aborted /\ parallel => dead)
      /\ dead \/ (aborted /\ ~parallel) \/ AllBooked(Len(handed), stored, pending, dropped)
      /\ ~dead /\ emitting
  BY <1>1 DEF WriterInv, WriterTypeOK, QueueIsOfFile, LookupHolds, CanAdd
<1>4. DOMAIN <<>> = {}
  BY EmptySeq
<1>5. CASE AddQueues(n)
  <2>1. /\ pending' = rs /\ table' = t /\ cache' = c
        /\ UNCHANGED <<committed, stored, dropped, file, emitting, parsed, dead, parallel, aborted>>
    BY <1>5 DEF AddQueues, rs, t, c, caller
  <2>2. Books(k, stored', pending', dropped')
    BY <1>2, <2>1
  <2>3. WriterTypeOK'
    BY <1>2, <1>3, <2>1, <2>2 DEF WriterTypeOK, WriterRow, Handed, Books
  <2>4. QueueIsOfFile'
    BY <1>2, <1>3, <2>1 DEF QueueIsOfFile
  <2>5. LookupHolds'
    BY <1>2, <1>3, <2>1 DEF LookupHolds
  <2> QED
    BY <1>2, <1>3, <2>1, <2>2, <2>3, <2>4, <2>5 DEF WriterInv
<1>6. CASE AddFlushes(n)
  <2>1. /\ FlushOutcome(rs, t) /\ cache' = c
        /\ UNCHANGED <<file, emitting, parsed, dead, parallel, aborted>>
    BY <1>6 DEF AddFlushes, rs, t, c, caller
  <2>2. /\ Books(k, stored', pending', dropped')
        /\ AllBooked(k, stored, rs, dropped) => AllBooked(k, stored', pending', dropped')
        /\ table' = t /\ committed' = t /\ pending' = <<>>
        /\ ~aborted => NamesHold(t, stored', handed')
    BY <1>2, <2>1, FlushStep
  <2>3. WriterTypeOK'
    BY <1>2, <1>3, <2>1, <2>2 DEF WriterTypeOK, WriterRow, Handed, Books
  <2>4. QueueIsOfFile'
    BY <1>2, <1>3, <1>4, <2>1, <2>2 DEF QueueIsOfFile
  <2>5. LookupHolds'
    <3>1. Extends(t, t) /\ NamesHold(t, <<>>, handed')
      BY <1>4 DEF Extends, NamesHold
    <3> QED
      BY <1>2, <1>3, <2>1, <2>2, <3>1 DEF LookupHolds
  <2> QED
    BY <1>2, <1>3, <2>1, <2>2, <2>3, <2>4, <2>5 DEF WriterInv
<1>7. CASE AddFlushAborts(n) \/ AddLookupAborts(n)
  <2>1. /\ table' = committed /\ aborted' = TRUE
        /\ UNCHANGED <<committed, stored, dropped, file, parsed, parallel>>
        /\ emitting' \in BOOLEAN /\ dead' \in BOOLEAN /\ (parallel => dead')
        /\ cache' \in {cache, c} /\ pending' \in {pending, <<>>}
    BY <1>3, <1>7 DEF AddFlushAborts, AddLookupAborts, FlushAborted, Raised, c
  <2>2. Books(k, stored', pending', dropped')
    BY <1>2, <2>1
  <2>3. WriterTypeOK'
    BY <1>2, <1>3, <2>1, <2>2 DEF WriterTypeOK, WriterRow, Handed, Books
  <2>4. QueueIsOfFile'
    BY <1>2, <1>3, <1>4, <2>1 DEF QueueIsOfFile
  <2>5. LookupHolds'
    BY <1>2, <2>1 DEF LookupHolds
  <2>6. dead' \/ (aborted' /\ ~parallel')
    BY <1>3, <2>1
  <2> QED
    BY <2>2, <2>3, <2>4, <2>5, <2>6 DEF WriterInv
<1> QED
  BY <1>5, <1>6, <1>7

\* Between files: the last flush, the mark, and a flush that ends the run.
LEMMA FileKeepsInv ==
  ASSUME WriterInv, EndOfFile \/ FlushAndMark \/ FlushDies
  PROVE  WriterInv'
<1>1. /\ handed \in Seq((1..NumFiles) \X ProcessNames) /\ NumFiles \in Nat
      /\ committed \in Seq(ProcessNames) /\ table \in Seq(ProcessNames)
      /\ DOMAIN cache \subseteq ProcessNames /\ (\A m \in DOMAIN cache : cache[m] \in Nat)
      /\ file \in 1..NumFiles + 1 /\ parsed \subseteq 1..NumFiles
      /\ {emitting, dead, parallel, aborted} \subseteq BOOLEAN
      /\ parsed \subseteq 1..(file - 1) /\ (~emitting => file <= NumFiles)
      /\ Books(Len(handed), stored, pending, dropped)
      /\ dead \/ (aborted /\ ~parallel) \/ AllBooked(Len(handed), stored, pending, dropped)
      /\ ~dead
  BY BatchWriterAssumption
     DEF WriterInv, WriterTypeOK, QueueIsOfFile, EndOfFile, FlushAndMark, FlushDies
<1>2. /\ aborted /\ parallel => dead
      /\ ~aborted => /\ CacheHolds(cache, table) /\ Extends(table, committed)
                     /\ NamesHold(table, pending, handed)
      /\ parallel \/ ~aborted => NamesHold(committed, stored, handed)
      /\ \A i \in DOMAIN pending : handed[pending[i][1]][1] = file
  BY DEF WriterInv, LookupHolds, QueueIsOfFile
<1>3. DOMAIN <<>> = {}
  BY EmptySeq
<1>4. CASE EndOfFile
  <2>1. /\ emitting' = FALSE /\ file <= NumFiles
        /\ UNCHANGED <<handed, committed, table, cache, pending, stored, dropped, file, parsed,
                       dead, parallel, aborted>>
    BY <1>1, <1>4 DEF EndOfFile, lookup
  <2>2. WriterTypeOK'
    BY <1>1, <2>1 DEF WriterTypeOK, WriterRow, Handed, Books
  <2>3. QueueIsOfFile'
    BY <1>1, <1>2, <2>1 DEF QueueIsOfFile
  <2>4. LookupHolds'
    BY <1>2, <2>1 DEF LookupHolds
  <2> QED
    BY <1>1, <2>1, <2>2, <2>3, <2>4 DEF WriterInv
<1>5. CASE FlushAndMark
  <2>1. /\ ~emitting /\ parsed' = parsed \cup {file} /\ file' = file + 1 /\ emitting' = TRUE
        /\ UNCHANGED <<handed, cache, dead, parallel, aborted>>
    BY <1>5 DEF FlushAndMark, Mark
  <2>2. /\ Books(Len(handed), stored', pending', dropped')
        /\ AllBooked(Len(handed), stored, pending, dropped)
             => AllBooked(Len(handed), stored', pending', dropped')
        /\ table' = table /\ committed' = table /\ pending' = <<>>
        /\ ~aborted => NamesHold(table, stored', handed)
    <3>1. CASE pending = <<>>
      <4>1. committed' = table /\ UNCHANGED <<table, pending, stored, dropped>>
        BY <1>5, <3>1 DEF FlushAndMark
      <4>2. ~aborted => NamesHold(table, stored, handed)
        BY <1>2 DEF NamesHold, Extends
      <4> QED
        BY <1>1, <3>1, <4>1, <4>2
    <3>2. CASE pending # <<>>
      <4>1. FlushOutcome(pending, table)
        BY <1>5, <3>2 DEF FlushAndMark
      <4> QED
        BY <1>1, <1>2, <4>1, FlushStep
    <3> QED
      BY <3>1, <3>2
  <2>3. WriterTypeOK'
    <3>1. file \in 1..NumFiles /\ file + 1 \in 1..NumFiles + 1
      <4>1. NumFiles \in Nat /\ file \in 1..NumFiles + 1 /\ file <= NumFiles
        BY <1>1, <2>1
      <4> QED
        BY <4>1
    <3>2. parsed' \subseteq 1..NumFiles /\ file' \in 1..NumFiles + 1
      BY <1>1, <2>1, <3>1
    <3> QED
      BY <1>1, <2>1, <2>2, <3>2 DEF WriterTypeOK, WriterRow, Handed, Books
  <2>4. QueueIsOfFile'
    <3>1. parsed' \subseteq 1..(file' - 1)
      BY <1>1, <2>1
    <3> QED
      BY <1>3, <2>1, <2>2, <3>1 DEF QueueIsOfFile
  <2>5. LookupHolds'
    <3>1. Extends(table, table) /\ NamesHold(table, <<>>, handed)
      BY <1>3 DEF Extends, NamesHold
    <3> QED
      BY <1>1, <1>2, <2>1, <2>2, <3>1 DEF LookupHolds
  <2> QED
    BY <1>1, <2>1, <2>2, <2>3, <2>4, <2>5 DEF WriterInv
<1>6. CASE FlushDies
  <2>1. /\ table' = committed /\ pending' = <<>> /\ aborted' = TRUE /\ dead' = TRUE
        /\ UNCHANGED <<handed, committed, cache, stored, dropped, file, emitting, parsed, parallel>>
    BY <1>6 DEF FlushDies, FlushAborted
  <2>2. Len(handed) \in Nat
    BY <1>1, LenProperties
  <2>3. Books(Len(handed), stored, <<>>, dropped)
    BY <1>1, <2>2, BooksGrow
  <2>4. WriterTypeOK'
    BY <1>1, <2>1, <2>3 DEF WriterTypeOK, WriterRow, Handed, Books
  <2>5. QueueIsOfFile'
    BY <1>1, <1>3, <2>1 DEF QueueIsOfFile
  <2>6. LookupHolds'
    BY <1>2, <2>1 DEF LookupHolds
  <2> QED
    BY <2>1, <2>3, <2>4, <2>5, <2>6 DEF WriterInv
<1> QED
  BY <1>4, <1>5, <1>6

LEMMA WriterStep == WriterInv /\ [WriterNext]_writer => WriterInv'
<1> SUFFICES ASSUME WriterInv, [WriterNext]_writer PROVE WriterInv'
  OBVIOUS
<1>1. CASE Add
  BY <1>1, AddKeepsInv DEF Add
<1>2. CASE EndOfFile \/ FlushAndMark \/ FlushDies
  BY <1>2, FileKeepsInv
<1>3. CASE UNCHANGED writer
  BY <1>3 DEF writer, caller, lookup, WriterInv, WriterTypeOK, WriterRow, Handed, QueueIsOfFile, LookupHolds
<1> QED
  BY <1>1, <1>2, <1>3 DEF WriterNext

\* Every entry handed to add() is stored, queued or counted, as EveryEntryAccounted says.
LEMMA BooksBalance == WriterInv => EveryEntryAccounted
<1> SUFFICES ASSUME WriterInv PROVE EveryEntryAccounted
  OBVIOUS
<1> DEFINE n == Len(handed)
<1>1. /\ stored \in Seq((1..n) \X Nat) /\ pending \in Seq((1..n) \X Nat)
      /\ Ordered(stored) /\ Precedes(stored, pending)
      /\ (Booked(stored) \cup Booked(pending)) \cap dropped = {}
  BY DEF WriterInv, Books
<1>2. n \in Nat
  BY LenProperties DEF WriterInv, WriterTypeOK
<1> HIDE DEF n
<1>3. /\ Booked(stored) = { r[1] : r \in ToSet(stored) } /\ Booked(pending) = { r[1] : r \in ToSet(pending) }
      /\ DOMAIN stored = 1..Len(stored) /\ Len(stored) \in Nat
      /\ DOMAIN pending = 1..Len(pending)
      /\ \A i \in DOMAIN stored : stored[i][1] \in 1..n
      /\ \A i \in DOMAIN pending : pending[i][1] \in 1..n
  BY <1>1, <1>2, RowsHaveNumbers
<1>4. MarkedIsFlushed
  <2>1. file \notin parsed
    BY BatchWriterAssumption DEF WriterInv, WriterTypeOK, QueueIsOfFile
  <2> QED
    BY <2>1 DEF MarkedIsFlushed, WriterInv, QueueIsOfFile
<1>5. StoredInFileOrder
  BY <1>1 DEF Ordered, StoredInFileOrder
<1>6. Len(stored) = Cardinality(Booked(stored))
  <2> DEFINE f == [i \in 1..Len(stored) |-> stored[i][1]]
  <2>1. f \in Bijection(1..Len(stored), Booked(stored))
    <3>1. f \in [1..Len(stored) -> Booked(stored)]
      BY <1>3 DEF Booked
    <3>2. \A i, j \in 1..Len(stored) : f[i] = f[j] => i = j
      <4>1. \A i, j \in 1..Len(stored) : i < j => f[i] # f[j]
        <5> SUFFICES ASSUME NEW i \in 1..Len(stored), NEW j \in 1..Len(stored), i < j
                     PROVE  f[i] # f[j]
          OBVIOUS
        <5>1. stored[i][1] < stored[j][1] /\ stored[i][1] \in 1..n /\ stored[j][1] \in 1..n
          BY <1>1, <1>3 DEF Ordered
        <5> QED
          BY <1>2, <5>1
      <4> QED
        BY <1>3, <4>1
    <3>3. \A b \in Booked(stored) : \E i \in 1..Len(stored) : f[i] = b
      BY <1>3 DEF Booked
    <3> HIDE DEF f
    <3> QED
      BY <3>1, <3>2, <3>3 DEF Bijection, Injection, Surjection, IsInjective
  <2>2. IsFiniteSet(1..Len(stored)) /\ Cardinality(1..Len(stored)) = Len(stored)
    <3>1. 1 \in Int /\ Len(stored) \in Int
      BY <1>3
    <3>2. /\ IsFiniteSet(1..Len(stored))
          /\ Cardinality(1..Len(stored)) = IF 1 > Len(stored) THEN 0 ELSE Len(stored) - 1 + 1
      BY <3>1, FS_Interval, Zenon
    <3> QED
      BY <1>3, <3>2
  <2> QED
    BY <2>1, <2>2, FS_Bijection DEF ExistsBijection
<1>7. Booked(stored) \cap Booked(pending) = {}
  BY <1>1, <1>2, <1>3 DEF Booked, Precedes
<1>8. dead \/ (aborted /\ ~parallel) \/ Booked(stored) \cup Booked(pending) \cup dropped = Handed
  BY DEF WriterInv, AllBooked, Handed
<1>9. WriterTypeOK
  BY DEF WriterInv
<1> HIDE DEF WriterInv
<1> QED
  BY <1>1, <1>3, <1>4, <1>5, <1>6, <1>7, <1>8, <1>9 DEF EveryEntryAccounted

-----------------------------------------------------------------------------
(* The theorems *)

\* What the writer keeps: WriterInv holds in every state it reaches.
THEOREM WriterHolds == WriterSpec => []WriterInv
<1> QED
  BY WriterStart, WriterStep, PTL DEF WriterSpec

\* writer.py, _get_or_insert and _flush_batch: whatever rows SQLite rejects and however the
\* entries fall into batches, a stored row names through its id the process its entry
\* carried, for a run that lost no transaction or that ends when it loses one.
THEOREM StoredNamesHold == WriterSpec => []NamesAreTrue
<1>1. WriterInv => NamesAreTrue
  BY DEF WriterInv, LookupHolds, NamesHold, NamesAreTrue, IdsOutliveAborts
<1> QED
  BY <1>1, WriterHolds, PTL

\* writer.py, add and flush, under _run_parse and parallel_parse: no entry handed over is
\* lost silently or stored twice, rows keep the order of their file, and a file is marked
\* parsed only when none of its entries is still queued.
THEOREM NothingLostSilently == WriterSpec => []EveryEntryAccounted
<1> QED
  BY BooksBalance, WriterHolds, PTL

-----------------------------------------------------------------------------
Ranged(f) == f.ranges \in Seq(Range(f.ranges)) /\ \A r \in Range(f.ranges) : r.size \in Nat

SizesOf(b, f) == b = [n \in 0..Len(f.ranges) |-> IF n = 0 THEN 0 ELSE b[n - 1] + f.ranges[n].size]

\* What SizeBefore says is the sum of the sizes before.
LEMMA SizesAreSums ==
  ASSUME NEW f, Ranged(f)
  PROVE  \E b \in [0..Len(f.ranges) -> Nat] :
           /\ b[0] = 0 /\ \A n \in 1..Len(f.ranges) : b[n] = b[n - 1] + f.ranges[n].size
           /\ \A i \in 1..(Len(f.ranges) + 1) : SizeBefore(f, i) = b[i - 1]
<1> DEFINE m == Len(f.ranges)
<1>1. m \in Nat /\ \A n \in 1..m : f.ranges[n].size \in Nat
  BY LenProperties DEF Ranged, Range
<1> DEFINE step == [p \in (1..m) \X Nat |-> p[2] + f.ranges[p[1]].size]
<1>2. step \in [(1..m) \X Nat -> Nat]
  BY <1>1
<1>3. PICK g \in [0..m -> Nat] : g[0] = 0 /\ \A n \in 1..m : g[n] = step[<<n, g[n - 1]>>]
  <2> HIDE DEF step, m
  <2>1. 0 \in Nat /\ m \in Nat
    BY <1>1
  <2>2. \E g : Loops(g, m, Nat, 0, step)
    BY <2>1, <1>2, LoopsEnd
  <2> QED
    BY <2>2 DEF Loops
<1>4. \A n \in 1..m : g[n] = g[n - 1] + f.ranges[n].size
  <2> SUFFICES ASSUME NEW n \in 1..m PROVE g[n] = g[n - 1] + f.ranges[n].size
    OBVIOUS
  <2>1. g[n - 1] \in Nat
    BY <1>1
  <2>2. <<n, g[n - 1]>> \in (1..m) \X Nat
    BY <2>1
  <2> QED
    BY <1>3, <2>2
<1>5. SizesOf(g, f)
  <2>1. g = [n \in 0..m |-> g[n]]
    BY <1>3
  <2>2. \A n \in 0..m : g[n] = IF n = 0 THEN 0 ELSE g[n - 1] + f.ranges[n].size
    <3> HIDE DEF step
    <3> QED
      BY <1>1, <1>3, <1>4
  <2> HIDE DEF step
  <2> QED
    BY <2>1, <2>2 DEF SizesOf
<1> DEFINE b == CHOOSE x : SizesOf(x, f)
<1>6. SizesOf(b, f)
  BY <1>5
<1>7. \A i : SizeBefore(f, i) = b[i - 1]
  BY DEF SizeBefore, SizesOf
<1> HIDE DEF b, step
<1>8. b = [n \in 0..m |-> b[n]] /\ b[0] = 0 /\ \A n \in 1..m : b[n] = b[n - 1] + f.ranges[n].size
  BY <1>1, <1>6 DEF SizesOf
<1>9. \A n \in 0..m : b[n] \in Nat
  <2> DEFINE S == { n \in 0..m : b[n] \in Nat }
  <2>1. 0 \in S
    BY <1>8, <1>1
  <2>2. ASSUME NEW n \in 0..(m - 1), n \in S PROVE n + 1 \in S
    <3>1. n + 1 \in 1..m /\ n + 1 - 1 = n
      BY <1>1
    <3>2. b[n + 1] = b[n] + f.ranges[n + 1].size
      <4>1. \A k \in 1..m : b[k] = b[k - 1] + f.ranges[k].size
        BY <1>8
      <4>2. b[n + 1] = b[n + 1 - 1] + f.ranges[n + 1].size
        BY <4>1, <3>1
      <4> QED
        BY <3>1, <4>2
    <3> QED
      BY <2>2, <3>1, <3>2, <1>1
  <2> HIDE DEF S
  <2>3. \A n \in 0..m : n \in S
    BY <1>1, <2>1, <2>2, CountingUp
  <2> QED
    BY <2>3 DEF S
<1>10. b \in [0..m -> Nat]
  BY <1>8, <1>9
<1> QED
  BY <1>7, <1>8, <1>10

\* The ranges of a UUIDText file lie back to back: before the i-th lie the bytes of those
\* before it.
LEMMA BackToBack ==
  ASSUME NEW f, Ranged(f), NEW i \in 1..(Len(f.ranges) + 1)
  PROVE  /\ IsFiniteSet(Bytes(f, i)) /\ Cardinality(Bytes(f, i)) = SizeBefore(f, i)
         /\ SizeBefore(f, i) \in Nat
<1> DEFINE m == Len(f.ranges)
           Part(j) == { <<j, d>> : d \in 1..f.ranges[j].size }
<1>1. m \in Nat /\ \A n \in 1..m : f.ranges[n].size \in Nat
  BY LenProperties DEF Ranged, Range
<1>2. PICK b \in [0..m -> Nat] :
        /\ b[0] = 0 /\ \A n \in 1..m : b[n] = b[n - 1] + f.ranges[n].size
        /\ \A k \in 1..(m + 1) : SizeBefore(f, k) = b[k - 1]
  BY SizesAreSums
<1>3. ASSUME NEW n \in 1..m
      PROVE  IsFiniteSet(Part(n)) /\ Cardinality(Part(n)) = f.ranges[n].size
  <2> DEFINE q == [d \in 1..f.ranges[n].size |-> <<n, d>>]
  <2>1. q \in Bijection(1..f.ranges[n].size, Part(n))
    <3>1. q \in [1..f.ranges[n].size -> Part(n)]
      OBVIOUS
    <3>2. q \in Surjection(1..f.ranges[n].size, Part(n))
      BY <3>1 DEF Surjection
    <3>3. q \in Injection(1..f.ranges[n].size, Part(n))
      <4>1. \A x, y \in 1..f.ranges[n].size : q[x] = q[y] => x = y
        OBVIOUS
      <4> HIDE DEF q
      <4> QED
        BY <3>1, <4>1 DEF Injection, IsInjective
    <3> QED
      BY <3>2, <3>3 DEF Bijection
  <2>2. ExistsBijection(1..f.ranges[n].size, Part(n))
    BY <2>1 DEF ExistsBijection
  <2>3. f.ranges[n].size \in Nat
    BY <1>1
  <2>4. IsFiniteSet(1..f.ranges[n].size) /\ Cardinality(1..f.ranges[n].size) = f.ranges[n].size
    BY <2>3, NumbersUpTo
  <2> HIDE DEF Part
  <2> QED
    BY <2>2, <2>4, FS_Bijection
<1> DEFINE All(n) == Bytes(f, n + 1)
           S == { n \in 0..m : IsFiniteSet(All(n)) /\ Cardinality(All(n)) = b[n] }
<1>4. 0 \in S
  <2>1. All(0) = {}
    BY DEF Bytes
  <2> QED
    <3>1. IsFiniteSet({}) /\ Cardinality({}) = 0
      BY FS_EmptySet
    <3> HIDE DEF All
    <3>2. IsFiniteSet(All(0)) /\ Cardinality(All(0)) = b[0] /\ 0 \in 0..m
      BY <1>1, <1>2, <2>1, <3>1
    <3> QED
      BY <3>2
<1>5. ASSUME NEW n \in 0..(m - 1), n \in S PROVE n + 1 \in S
  <2>1. n + 1 \in 1..m /\ n + 1 - 1 = n /\ n + 2 - 1 = n + 1
    BY <1>1
  <2>2. All(n + 1) = All(n) \cup Part(n + 1)
    <3>1. 1..(n + 1 + 1 - 1) = (1..(n + 1 - 1)) \cup {n + 1}
      BY <2>1
    <3> QED
      BY <3>1 DEF Bytes
  <2>3. All(n) \cap Part(n + 1) = {}
    <3> SUFFICES ASSUME NEW x \in All(n), x \in Part(n + 1) PROVE FALSE
      OBVIOUS
    <3>1. PICK j \in 1..(n + 1 - 1) : x \in Part(j)
      BY DEF Bytes
    <3>2. x[1] = j /\ x[1] = n + 1
      BY <3>1
    <3> QED
      BY <3>1, <3>2
  <2>4. IsFiniteSet(Part(n + 1)) /\ Cardinality(Part(n + 1)) = f.ranges[n + 1].size
    BY <1>3, <2>1
  <2>5. IsFiniteSet(All(n)) /\ Cardinality(All(n)) = b[n]
    BY <1>5
  <2> HIDE DEF All, Part
  <2>6. IsFiniteSet(All(n) \cup Part(n + 1))
    BY <2>4, <2>5, FS_Union
  <2>7. Cardinality(All(n) \cup Part(n + 1)) = Cardinality(All(n)) + Cardinality(Part(n + 1))
                                                 - Cardinality(All(n) \cap Part(n + 1))
    BY <2>4, <2>5, FS_Union
  <2>8. Cardinality(All(n) \cap Part(n + 1)) = 0
    BY <2>3, FS_EmptySet
  <2>9. b[n + 1] = b[n] + f.ranges[n + 1].size /\ b[n] \in Nat /\ f.ranges[n + 1].size \in Nat
    <3>1. b[n + 1] = b[n + 1 - 1] + f.ranges[n + 1].size
      BY <1>2, <2>1
    <3>2. n \in 0..m
      BY <1>1
    <3> QED
      BY <1>1, <1>2, <2>1, <3>1, <3>2
  <2>10. Cardinality(All(n + 1)) = b[n + 1]
    <3>1. Cardinality(All(n + 1)) = Cardinality(All(n)) + Cardinality(Part(n + 1)) - 0
      BY <2>2, <2>7, <2>8
    <3> QED
      BY <2>4, <2>5, <2>9, <3>1
  <2> QED
    <3>1. n + 1 \in 0..m
      BY <1>1, <2>1
    <3>2. IsFiniteSet(All(n + 1))
      BY <2>2, <2>6
    <3> QED
      BY <2>10, <3>1, <3>2
<1> HIDE DEF S
<1>6. \A n \in 0..m : n \in S
  BY <1>1, <1>4, <1>5, CountingUp
<1>7. i - 1 \in 0..m /\ i - 1 + 1 = i
  BY <1>1
<1>8. i - 1 \in S
  BY <1>6, <1>7
<1>9. IsFiniteSet(Bytes(f, i)) /\ Cardinality(Bytes(f, i)) = b[i - 1] /\ b[i - 1] \in Nat
  BY <1>7, <1>8, <1>2 DEF S
<1> QED
  BY <1>2, <1>9

\* A table's ranges have indexes and sizes.
LEMMA TablesAreRanged ==
  ASSUME NEW f, IsTable(f)
  PROVE  /\ Ranged(f) /\ DOMAIN f.ranges = 1..Len(f.ranges) /\ Len(f.ranges) \in Nat
         /\ \A i \in 1..Len(f.ranges) : /\ f.ranges[i].start \in Nat /\ f.ranges[i].size \in Nat
                                      /\ f.ranges[i].data \in Nat
         /\ Len(f.pool) \in Nat
<1>1. f.ranges \in Seq(Range(f.ranges)) /\ f.pool \in Seq(Range(f.pool))
  BY DEF IsTable, IsText
<1>2. DOMAIN f.ranges = 1..Len(f.ranges) /\ Len(f.ranges) \in Nat /\ Len(f.pool) \in Nat
  BY <1>1, LenProperties
<1>3. \A r \in Range(f.ranges) : r.start \in Nat /\ r.size \in Nat /\ r.data \in Nat
  BY DEF IsTable
<1>4. \A i \in 1..Len(f.ranges) : f.ranges[i] \in Range(f.ranges)
  BY <1>2 DEF Range
<1>5. Ranged(f)
  BY <1>1, <1>3 DEF Ranged
<1> QED
  BY <1>2, <1>3, <1>4, <1>5

\* The empty text is one.
LEMMA NoText == IsText(<<>>)
  BY DEF IsText

\* What is read of a table's pool is a text.
LEMMA CellsAreTexts ==
  ASSUME NEW f, IsTable(f), NEW pos \in Nat
  PROVE  IsText(ReadCstr(f.pool, pos))
<1>1. CASE pos >= Len(f.pool)
  BY <1>1, NoText DEF ReadCstr
<1>2. CASE ~(pos >= Len(f.pool))
  <2>1. f.pool \in Seq(Range(f.pool)) /\ \A t \in Range(f.pool) : IsText(t)
    BY DEF IsTable, IsText
  <2>2. DOMAIN f.pool = 1..Len(f.pool) /\ Len(f.pool) \in Nat
    BY <2>1, LenProperties
  <2>3. pos + 1 \in DOMAIN f.pool
    BY <1>2, <2>2
  <2>4. f.pool[pos + 1] \in Range(f.pool)
    BY <2>3 DEF Range
  <2> QED
    BY <1>2, <2>1, <2>4 DEF ReadCstr
<1> QED
  BY <1>1, <1>2

\* A set of indexes has a first.
LEMMA FirstIndex ==
  ASSUME NEW n \in Nat, NEW S \in SUBSET (1..n), S # {}
  PROVE  /\ (CHOOSE x \in S : \A y \in S : x <= y) \in S
         /\ \A y \in S : (CHOOSE x \in S : \A z \in S : x <= z) <= y
<1>1. IsFiniteSet(S) /\ S \subseteq Nat
  <2>1. IsFiniteSet(1..n)
    BY NumbersUpTo
  <2>2. IsFiniteSet(S)
    BY <2>1, FS_Subset
  <2>3. S \subseteq Nat
    OBVIOUS
  <2> QED
    BY <2>2, <2>3
<1>2. \E x \in S : \A y \in S : x <= y
  BY <1>1, LeastMember
<1> QED
  BY <1>2

\* _lookup_format_string_uncached finds the string that is on disk at the offset, and a text.
LEMMA UuidtextTells ==
  ASSUME NEW f, NEW offset \in Nat, offset # DynamicOffset, IsTable(f), ~IsDsc(f.path)
  PROVE  UuidtextLookup(f, offset) = TextOnDisk(f, offset) /\ IsText(TextOnDisk(f, offset))
<1> DEFINE m == Len(f.ranges)
           in == { i \in DOMAIN f.ranges :
                     f.ranges[i].start <= offset /\ offset < f.ranges[i].start + f.ranges[i].size }
           i == CHOOSE x \in in : \A y \in in : x <= y
<1>1. /\ Ranged(f) /\ DOMAIN f.ranges = 1..m /\ m \in Nat /\ Len(f.pool) \in Nat
      /\ \A k \in 1..m : f.ranges[k].start \in Nat /\ f.ranges[k].size \in Nat
  BY TablesAreRanged
<1>2. Holders(f, offset) = in
  <2>1. ASSUME NEW k \in 1..m
        PROVE  (\E d \in 0..(f.ranges[k].size - 1) : f.ranges[k].start + d = offset)
               <=> (f.ranges[k].start <= offset /\ offset < f.ranges[k].start + f.ranges[k].size)
    <3>1. f.ranges[k].start \in Nat /\ f.ranges[k].size \in Nat
      BY <1>1
    <3>2. ASSUME f.ranges[k].start <= offset, offset < f.ranges[k].start + f.ranges[k].size
          PROVE  \E d \in 0..(f.ranges[k].size - 1) : f.ranges[k].start + d = offset
      <4>1. /\ offset - f.ranges[k].start \in 0..(f.ranges[k].size - 1)
            /\ f.ranges[k].start + (offset - f.ranges[k].start) = offset
        BY <3>1, <3>2
      <4> QED
        BY <4>1
    <3> QED
      BY <3>1, <3>2
  <2> QED
    BY <1>1, <2>1 DEF Holders
<1>3. CASE in = {}
  <2>1. TextOnDisk(f, offset) = <<>>
    BY <1>2, <1>3 DEF TextOnDisk
  <2>2. UuidtextLookup(f, offset) = <<>>
    BY <1>3 DEF UuidtextLookup
  <2> QED
    BY <2>1, <2>2, NoText
<1>4. CASE in # {}
  <2>1. UuidtextLookup(f, offset) = ReadCstr(f.pool, SizeBefore(f, i) + offset - f.ranges[i].start)
    BY <1>4 DEF UuidtextLookup
  <2>2. in \in SUBSET (1..m)
    BY <1>1
  <2> HIDE DEF in
  <2>3. i \in in
    BY <1>1, <1>4, <2>2, FirstIndex
  <2>4. i \in 1..m
    BY <2>2, <2>3
  <2>5. f.ranges[i].start <= offset
    BY <2>3 DEF in
  <2>6. CellOf(f, offset) = Cardinality(Bytes(f, i)) + offset - f.ranges[i].start + 1
    BY <1>2 DEF CellOf
  <2> HIDE DEF i
  <2>7. SizeBefore(f, i) \in Nat /\ Cardinality(Bytes(f, i)) = SizeBefore(f, i)
    <3>1. i \in 1..(m + 1)
      BY <1>1, <2>4
    <3> QED
      BY <1>1, <3>1, BackToBack
  <2> DEFINE pos == SizeBefore(f, i) + offset - f.ranges[i].start
  <2>8. pos \in Nat /\ CellOf(f, offset) = pos + 1
    <3>1. f.ranges[i].start \in Nat
      BY <1>1, <2>4
    <3> QED
      BY <2>5, <2>6, <2>7, <3>1
  <2>9. TextOnDisk(f, offset) = IF pos + 1 > Len(f.pool) THEN <<>> ELSE f.pool[pos + 1]
    BY <1>2, <1>4, <2>8 DEF TextOnDisk
  <2> HIDE DEF pos
  <2>10. (pos + 1 > Len(f.pool)) <=> (pos >= Len(f.pool))
    BY <1>1, <2>8
  <2>11. ReadCstr(f.pool, pos) = TextOnDisk(f, offset)
    BY <2>9, <2>10 DEF ReadCstr
  <2>12. IsText(ReadCstr(f.pool, pos))
    BY <2>8, CellsAreTexts
  <2> QED
    BY <2>1, <2>11, <2>12 DEF pos
<1> QED
  BY <1>3, <1>4

\* The binary search finds the range that holds the offset, and only then finds one.
LEMMA OwnerIsFound ==
  ASSUME NEW f, NEW offset \in Nat, IsTable(f),
         \A i, j \in DOMAIN f.ranges : i # j => Apart(f.ranges[i], f.ranges[j])
  PROVE  LET in == { i \in DOMAIN f.ranges :
                       f.ranges[i].start <= offset /\ offset < f.ranges[i].start + f.ranges[i].size }
         IN  /\ in = {} => FindRange(f, offset) = <<>>
             /\ \A i \in in : in = {i} /\ FindRange(f, offset) = << f.ranges[i] >>
<1> DEFINE m == Len(f.ranges)
           From(k) == f.ranges[k].start
           Size(k) == f.ranges[k].size
           in == { k \in DOMAIN f.ranges : From(k) <= offset /\ offset < From(k) + Size(k) }
           below == { k \in DOMAIN f.ranges : From(k) <= offset }
           last == CHOOSE k \in below : \A j \in below : From(j) <= From(k)
<1>1. DOMAIN f.ranges = 1..m /\ m \in Nat /\ \A k \in 1..m : From(k) \in Nat /\ Size(k) \in Nat
  BY TablesAreRanged
<1>2. below # {} => last \in below /\ \A j \in below : From(j) <= From(last)
  <2> SUFFICES ASSUME below # {}
               PROVE  \E k \in below : \A j \in below : From(j) <= From(k)
    OBVIOUS
  <2> DEFINE gaps == { offset - From(k) : k \in below }
  <2>0. \A k \in below : offset - From(k) \in 0..offset
    <3> SUFFICES ASSUME NEW k \in below PROVE offset - From(k) \in 0..offset
      OBVIOUS
    <3>1. From(k) \in Nat /\ From(k) <= offset
      BY <1>1
    <3> HIDE DEF From
    <3> QED
      BY <3>1
  <2>1. gaps \in SUBSET (0..offset) /\ gaps # {}
    <3> HIDE DEF below, From
    <3> QED
      BY <2>0
  <2> HIDE DEF gaps, below, last
  <2>2. IsFiniteSet(gaps) /\ gaps \subseteq Nat
    <3>1. IsFiniteSet(0..offset)
      BY FS_Interval
    <3>2. IsFiniteSet(gaps)
      BY <2>1, <3>1, FS_Subset
    <3> QED
      BY <2>1, <3>2
  <2>3. PICK g \in gaps : \A h \in gaps : g <= h
    BY <2>1, <2>2, LeastMember
  <2> USE DEF gaps
  <2>4. PICK k \in below : g = offset - From(k)
    BY <2>3
  <2>5. \A j \in below : From(j) <= From(k)
    <3> SUFFICES ASSUME NEW j \in below PROVE From(j) <= From(k)
      OBVIOUS
    <3>1. offset - From(j) \in gaps
      OBVIOUS
    <3>2. offset - From(k) <= offset - From(j)
      BY <2>3, <2>4, <3>1
    <3>3. From(j) \in Nat /\ From(k) \in Nat
      BY <1>1 DEF below
    <3> HIDE DEF From
    <3> QED
      BY <3>2, <3>3
  <2> QED
    BY <2>5
<1>3. FindRange(f, offset) =
        IF below = {} THEN <<>>
        ELSE IF offset >= From(last) + Size(last) THEN <<>> ELSE << f.ranges[last] >>
  BY DEF FindRange
<1>4. ASSUME NEW k \in in, NEW j \in below, From(k) <= From(j)
      PROVE  j = k
  <2> SUFFICES ASSUME j # k PROVE FALSE
    OBVIOUS
  <2>1. Apart(f.ranges[k], f.ranges[j])
    BY <1>4
  <2>2. From(k) # From(j) /\ (From(k) + Size(k) <= From(j) \/ From(j) + Size(j) <= From(k))
    BY <2>1 DEF Apart
  <2>3. From(k) \in Nat /\ From(j) \in Nat /\ Size(k) \in Nat /\ Size(j) \in Nat
    BY <1>1
  <2>4. From(k) < From(j)
    BY <1>4, <2>2, <2>3
  <2>5. offset < From(k) + Size(k) /\ From(j) <= offset
    OBVIOUS
  <2> HIDE DEF From, Size
  <2> QED
    BY <2>2, <2>3, <2>4, <2>5
<1>5. ASSUME NEW k \in in PROVE last = k /\ below # {}
  <2>1. k \in below
    OBVIOUS
  <2>2. last \in below /\ From(k) <= From(last)
    BY <1>2, <2>1
  <2> HIDE DEF last, below, in
  <2> QED
    BY <1>4, <2>1, <2>2
<1>6. ASSUME in = {} PROVE FindRange(f, offset) = <<>>
  <2>1. CASE below = {}
    BY <1>3, <2>1
  <2>2. CASE below # {}
    <3>1. last \in below
      BY <1>2, <2>2
    <3>2. last \notin in
      BY <1>6
    <3> HIDE DEF last
    <3>3. ~(offset < From(last) + Size(last)) /\ last \in 1..m
      BY <1>1, <3>1, <3>2
    <3>4. From(last) + Size(last) \in Nat
      BY <1>1, <3>3
    <3>5. offset >= From(last) + Size(last)
      <4> HIDE DEF From, Size
      <4> QED
        BY <3>3, <3>4
    <3> QED
      BY <1>3, <2>2, <3>5
  <2> QED
    BY <2>1, <2>2
<1>7. ASSUME NEW k \in in PROVE in = {k} /\ FindRange(f, offset) = << f.ranges[k] >>
  <2>1. in = {k}
    <3>1. \A j \in in : last = j
      BY <1>5
    <3> HIDE DEF last, in
    <3> QED
      BY <3>1
  <2>2. last = k /\ below # {}
    BY <1>5
  <2>3. ~(offset >= From(k) + Size(k))
    <3>1. offset < From(k) + Size(k) /\ From(k) + Size(k) \in Nat
      BY <1>1
    <3> HIDE DEF From, Size
    <3> QED
      BY <3>1
  <2> HIDE DEF last, below
  <2> QED
    BY <1>3, <2>1, <2>2, <2>3
<1> HIDE DEF in, below, last
<1>8. in = { i \in DOMAIN f.ranges :
               f.ranges[i].start <= offset /\ offset < f.ranges[i].start + f.ranges[i].size }
  BY DEF in
<1> QED
  BY <1>6, <1>7, <1>8

\* An offset inside a range whose data are there is inside the file.
LEMMA InsideTheRange ==
  ASSUME NEW start \in Nat, NEW size \in Nat, NEW data \in Nat, NEW offset \in Nat, NEW n \in Nat,
         start <= offset, offset < start + size, data + size <= n
  PROVE  data + offset - start \in Nat /\ data + offset - start < n
OBVIOUS

\* _lookup_dsc_string_uncached, the same through the binary search and the data offsets.
LEMMA DscTells ==
  ASSUME NEW f, NEW offset \in Nat, offset # DynamicOffset, IsTable(f), IsDsc(f.path),
         \A i, j \in DOMAIN f.ranges : i # j => Apart(f.ranges[i], f.ranges[j])
  PROVE  DscLookup(f, offset) = TextOnDisk(f, offset) /\ IsText(TextOnDisk(f, offset))
<1> DEFINE m == Len(f.ranges)
           in == { i \in DOMAIN f.ranges :
                     f.ranges[i].start <= offset /\ offset < f.ranges[i].start + f.ranges[i].size }
           There(k) == f.ranges[k].data + f.ranges[k].size <= Len(f.pool)
           r == FindRange(f, offset)
           bounded == IF r # <<>> THEN r[1].data + r[1].size <= Len(f.pool) ELSE FALSE
<1>1. /\ DOMAIN f.ranges = 1..m /\ m \in Nat /\ Len(f.pool) \in Nat
      /\ \A k \in 1..m : f.ranges[k].start \in Nat /\ f.ranges[k].size \in Nat /\ f.ranges[k].data \in Nat
  BY TablesAreRanged
<1>2. Holders(f, offset) = { k \in in : There(k) }
  <2>1. ASSUME NEW k \in 1..m
        PROVE  (\E d \in 0..(f.ranges[k].size - 1) : f.ranges[k].start + d = offset)
               <=> (f.ranges[k].start <= offset /\ offset < f.ranges[k].start + f.ranges[k].size)
    <3>1. f.ranges[k].start \in Nat /\ f.ranges[k].size \in Nat
      BY <1>1
    <3>2. ASSUME f.ranges[k].start <= offset, offset < f.ranges[k].start + f.ranges[k].size
          PROVE  \E d \in 0..(f.ranges[k].size - 1) : f.ranges[k].start + d = offset
      <4>1. /\ offset - f.ranges[k].start \in 0..(f.ranges[k].size - 1)
            /\ f.ranges[k].start + (offset - f.ranges[k].start) = offset
        BY <3>1, <3>2
      <4> QED
        BY <4>1
    <3> QED
      BY <3>1, <3>2
  <2> QED
    BY <1>1, <2>1 DEF Holders
<1>3. /\ in = {} => r = <<>>
      /\ \A k \in in : in = {k} /\ r = << f.ranges[k] >>
  BY OwnerIsFound
<1>4. DscLookup(f, offset) =
        IF bounded THEN ReadCstr(f.pool, r[1].data + offset - r[1].start) ELSE <<>>
  BY DEF DscLookup
<1> HIDE DEF r
<1>5. CASE in = {}
  <2>1. ~bounded /\ Holders(f, offset) = {}
    BY <1>2, <1>3, <1>5
  <2> HIDE DEF bounded
  <2> QED
    BY <1>4, <2>1, NoText DEF TextOnDisk
<1>6. CASE in # {}
  <2>1. PICK k \in in : TRUE
    BY <1>6
  <2>2. in = {k} /\ r = << f.ranges[k] >> /\ k \in 1..m
    BY <1>1, <1>3, <2>1
  <2>3. r # <<>> /\ r[1] = f.ranges[k]
    BY <2>2
  <2>4. bounded = There(k)
    BY <2>3
  <2>5. CASE ~There(k)
    <3>1. Holders(f, offset) = {}
      BY <1>2, <2>2, <2>5
    <3> HIDE DEF bounded
    <3> QED
      BY <1>4, <2>4, <2>5, <3>1, NoText DEF TextOnDisk
  <2>6. CASE There(k)
    <3>1. Holders(f, offset) = {k}
      BY <1>2, <2>2, <2>6
    <3> DEFINE pos == f.ranges[k].data + offset - f.ranges[k].start
    <3>2. pos \in Nat /\ pos < Len(f.pool)
      <4>1. /\ f.ranges[k].start \in Nat /\ f.ranges[k].size \in Nat /\ f.ranges[k].data \in Nat
        BY <1>1, <2>2
      <4>2. f.ranges[k].start <= offset /\ offset < f.ranges[k].start + f.ranges[k].size
        BY <2>1
      <4>3. f.ranges[k].data + f.ranges[k].size <= Len(f.pool)
        BY <2>6
      <4> HIDE DEF in, There, bounded
      <4> QED
        BY <1>1, <4>1, <4>2, <4>3, InsideTheRange
    <3>3. CellOf(f, offset) = pos + 1
      <4>1. (CHOOSE x \in {k} : \A y \in {k} : x <= y) = k
        BY <1>1, <2>2
      <4>2. CellOf(f, offset) = f.ranges[k].data + offset - f.ranges[k].start + 1
        BY <3>1, <4>1 DEF CellOf
      <4> QED
        BY <4>2
    <3>4. DscLookup(f, offset) = ReadCstr(f.pool, pos)
      BY <1>4, <2>3, <2>4, <2>6
    <3> HIDE DEF pos
    <3>5. ~(pos + 1 > Len(f.pool)) /\ ~(pos >= Len(f.pool))
      BY <1>1, <3>2
    <3>6. IsText(ReadCstr(f.pool, pos))
      BY <3>2, CellsAreTexts
    <3>7. ReadCstr(f.pool, pos) = TextOnDisk(f, offset)
      BY <3>1, <3>3, <3>5 DEF TextOnDisk, ReadCstr
    <3> QED
      BY <3>4, <3>6, <3>7
  <2> QED
    BY <2>5, <2>6
<1> QED
  BY <1>5, <1>6

-----------------------------------------------------------------------------
(* The strings.  What each process has read and remembers is a matter of   *)
(* what is on disk.                                                        *)

Content ==
  [uuidtext |-> [u \in Uuids(shelf.uuidtexts) |-> LastOf(shelf.uuidtexts, u)],
   dsc      |-> [u \in Uuids(shelf.dscs) |-> FirstOf(shelf.dscs, u)]]
FileIds ==
  [u \in Uuids(shelf.uuidtexts) \cup Uuids(shelf.dscs) |->
     IF u \in Uuids(shelf.dscs) THEN FirstOf(shelf.dscs, u).path ELSE LastOf(shelf.uuidtexts, u).path]

StringAt(path, offset) ==
  IF IsDsc(path) THEN DscLookup(FileAt2(path), offset) ELSE UuidtextLookup(FileAt2(path), offset)

\* What a row of an entry names.
NamesItsTable(e, r) ==
  IF r.file = 0 THEN r.fmt = <<>>
  ELSE /\ FileAt2(r.file).uuid = r.uuid
       /\ IsDsc(r.file) = (e.place \in {"cache", "bigcache"})
       /\ Meant(e) # DynamicOffset => r.fmt = TextOnDisk(FileAt2(r.file), Meant(e))

RowHolds(e, row) ==
  /\ ~IsDynamic(e) => NamesItsTable(e, row.found) /\ IsText(row.found.fmt)
  /\ row.message = FormatMessage(row.found.fmt, e.items)

ReadersAgree ==
  \A p \in Readers : /\ loaded[p] = <<>> \/ loaded[p] = << Content >>
                     /\ ids[p] = <<>> \/ ids[p] = << FileIds >>
MemosHold == \A p \in Readers : \A k \in DOMAIN memo[p] : memo[p][k] = StringAt(k[1], k[2])
ShelfRowsHold == \A i \in DOMAIN rows : rows[i] = <<>> \/ (rows[i] = << rows[i][1] >> /\ RowHolds(shelf.entries[i], rows[i][1]))

StringsInv ==
  /\ shelf \in Shelves
  /\ DOMAIN loaded = Readers /\ DOMAIN ids = Readers /\ DOMAIN memo = Readers
  /\ DOMAIN rows = DOMAIN shelf.entries
  /\ ReadersAgree /\ MemosHold /\ ShelfRowsHold

\* A text, or any such sequence, has indexes.
LEMMA IndexesOf ==
  ASSUME NEW s, IsText(s)
  PROVE  /\ Len(s) \in Nat /\ DOMAIN s = 1..Len(s)
         /\ \A i \in DOMAIN s : s[i] \in Range(s)
<1>1. Len(s) \in Nat /\ DOMAIN s = 1..Len(s)
  BY LenProperties DEF IsText
<1> QED
  BY <1>1 DEF Range

\* The last of several files and the first are among them.
LEMMA OneOfThem ==
  ASSUME NEW s, IsText(s), NEW u \in Uuids(s)
  PROVE  /\ LastOf(s, u) \in Range(s) /\ LastOf(s, u).uuid = u
         /\ FirstOf(s, u) \in Range(s) /\ FirstOf(s, u).uuid = u
<1> DEFINE n == Len(s)
           U == Under(s, u)
<1>1. n \in Nat /\ DOMAIN s = 1..n /\ \A i \in 1..n : s[i] \in Range(s)
  BY IndexesOf
<1>2. U \in SUBSET (1..n) /\ U # {} /\ \A i \in U : s[i].uuid = u
  BY <1>1 DEF Under, Loaded, Uuids
<1> HIDE DEF U
<1>3. (CHOOSE i \in U : \A j \in U : i <= j) \in U
  BY <1>1, <1>2, FirstIndex
<1>4. (CHOOSE i \in U : \A j \in U : j <= i) \in U
  <2> DEFINE back == { n - i : i \in U }
  <2>1. back \in SUBSET (0..n) /\ back # {}
    <3>1. \A i \in U : n - i \in 0..n
      BY <1>1, <1>2
    <3> QED
      BY <1>2, <3>1
  <2>2. IsFiniteSet(0..n)
    BY <1>1, FS_Interval
  <2> HIDE DEF back
  <2>3. IsFiniteSet(back) /\ back \subseteq Nat
    <3>1. IsFiniteSet(back)
      BY <2>1, <2>2, FS_Subset
    <3> QED
      BY <2>1, <3>1
  <2>4. PICK g \in back : \A h \in back : g <= h
    BY <2>1, <2>3, LeastMember
  <2>5. PICK i \in U : g = n - i
    BY <2>4 DEF back
  <2>6. \A j \in U : j <= i
    <3> SUFFICES ASSUME NEW j \in U PROVE j <= i
      OBVIOUS
    <3>1. n - j \in back
      BY DEF back
    <3>2. n - i <= n - j
      BY <2>4, <2>5, <3>1
    <3>3. i \in 1..n /\ j \in 1..n
      BY <1>2
    <3> QED
      BY <1>1, <3>2, <3>3
  <2> QED
    BY <2>6
<1> QED
  BY <1>1, <1>2, <1>3, <1>4 DEF LastOf, FirstOf, U

\* A file is the one at its path.
LEMMA FileAtItsPath ==
  ASSUME shelf \in Shelves, NEW f \in Tables(shelf)
  PROVE  /\ FileAt2(f.path) = f /\ IsTable(f) /\ f.path \in Nat \ {0}
         /\ IsDsc(f.path) <=> f \in Range(shelf.dscs)
<1>1. \A g \in Tables(shelf) : IsTable(g) /\ \A h \in Tables(shelf) : g.path = h.path => g = h
  BY ShelvesAssumption
<1>2. FileAt2(f.path) = f
  BY <1>1 DEF FileAt2
<1>3. IsDsc(f.path) <=> f \in Range(shelf.dscs)
  BY <1>1 DEF IsDsc, Tables
<1> QED
  BY <1>1, <1>2, <1>3 DEF IsTable

\* A lookup finds what is on disk.
LEMMA LookupTells ==
  ASSUME shelf \in Shelves, NEW f \in Tables(shelf), NEW offset \in Nat
  PROVE  /\ IsText(StringAt(f.path, offset))
         /\ offset # DynamicOffset => StringAt(f.path, offset) = TextOnDisk(f, offset)
<1>1. FileAt2(f.path) = f /\ IsTable(f) /\ (IsDsc(f.path) <=> f \in Range(shelf.dscs))
  BY FileAtItsPath
<1>2. CASE offset = DynamicOffset
  <2>1. StringAt(f.path, offset) = << <<"spec", "s", "">> >>
    BY <1>1, <1>2 DEF StringAt, DscLookup, UuidtextLookup, Percent
  <2>2. IsText(<< <<"spec", "s", "">> >>)
    <3> DEFINE w == <<"spec", "s", "">>
    <3> HIDE DEF w
    <3>1. Range(<< w >>) = {w}
      BY DEF Range
    <3>2. << w >> \in Seq({w})
      OBVIOUS
    <3>3. IsText(<< w >>)
      BY <3>1, <3>2 DEF IsText
    <3> QED
      BY <3>3 DEF w
  <2> QED
    BY <1>2, <2>1, <2>2
<1>3. CASE offset # DynamicOffset
  <2>1. CASE IsDsc(f.path)
    <3>1. \A i, j \in DOMAIN f.ranges : i # j => Apart(f.ranges[i], f.ranges[j])
      BY <1>1, <2>1, ShelvesAssumption
    <3>2. DscLookup(f, offset) = TextOnDisk(f, offset) /\ IsText(TextOnDisk(f, offset))
      BY <1>1, <1>3, <2>1, <3>1, DscTells
    <3> QED
      BY <1>1, <2>1, <3>2 DEF StringAt
  <2>2. CASE ~IsDsc(f.path)
    <3>1. UuidtextLookup(f, offset) = TextOnDisk(f, offset) /\ IsText(TextOnDisk(f, offset))
      BY <1>1, <1>3, <2>2, UuidtextTells
    <3> QED
      BY <1>1, <2>2, <3>1 DEF StringAt
  <2> QED
    BY <2>1, <2>2
<1> QED
  BY <1>2, <1>3

\* The uuid of the file an entry's string is in.
UuidOf(e) ==
  CASE e.place = "uuid" -> e.uuid
    [] e.place \in {"cache", "bigcache"} -> shelf.process.dsc
    [] e.place = "absolute" -> AbsoluteImage(e)
    [] e.place \in {"main", "none"} -> shelf.process.main
InCache(e) == e.place \in {"cache", "bigcache"}

\* _dsc_effective_offset gives the offset the entry means.
LEMMA MeantIsRead ==
  ASSUME NEW e, IsEntry(e)
  PROVE  OffsetIn(e) = Meant(e) /\ OffsetIn(e) \in Nat
<1>1. /\ e.offset \in Nat /\ e.large \in Nat /\ e.bigcache \in Nat
      /\ Word \in Nat /\ Word \div 2 \in Nat /\ e.bigcache \div 2 \in Nat
  BY StringsAssumption DEF IsEntry
<1> DEFINE half == e.bigcache \div 2
           high == half * Word
           own == e.large * Word
<1>2. high \in Nat /\ own \in Nat /\ (e.large = half => own = high)
  <2>1. half \in Nat
    BY <1>1
  <2> HIDE DEF half
  <2> QED
    BY <1>1, <2>1
<1>3. EffectiveOffset(e) =
        IF e.large = 0 THEN e.offset
        ELSE IF e.place = "cache" THEN e.offset + Word \div 2
        ELSE IF e.large # half THEN high + e.offset ELSE own + e.offset
  <2> HIDE DEF high, own
  <2>1. CASE e.large = 0
    BY <2>1 DEF EffectiveOffset
  <2>2. CASE e.large # 0 /\ e.place = "cache"
    BY <2>2 DEF EffectiveOffset
  <2>3. CASE e.large # 0 /\ e.place # "cache" /\ e.large # half
    BY <2>3 DEF EffectiveOffset, high
  <2>4. CASE e.large # 0 /\ e.place # "cache" /\ e.large = half
    BY <2>4 DEF EffectiveOffset, own
  <2> QED
    BY <2>1, <2>2, <2>3, <2>4
<1>4. Meant(e) =
        IF ~InCache(e) \/ e.large = 0 THEN e.offset
        ELSE IF e.place = "cache" THEN e.offset + Word \div 2
        ELSE high + e.offset
  <2>0. half \in Nat
    BY <1>1
  <2> HIDE DEF high, half
  <2>1. half # -1
    BY <2>0
  <2> QED
    BY <2>1 DEF Meant, InCache, DynamicOffset, high, half
<1> HIDE DEF high, own, half
<1>5. OffsetIn(e) = IF InCache(e) THEN EffectiveOffset(e) ELSE e.offset
  BY DEF OffsetIn, InCache
<1> QED
  BY <1>1, <1>2, <1>3, <1>4, <1>5

\* The uuid of an entry that is not in the cache is that of a binary.
LEMMA EntriesAreEntries ==
  ASSUME shelf \in Shelves, NEW e \in Range(shelf.entries)
  PROVE  /\ IsEntry(e)
         /\ ~InCache(e) /\ e.place # "none" => UuidOf(e) \in Binaries(shelf)
<1>1. IsEntry(e)
  BY ShelvesAssumption
<1> SUFFICES ASSUME ~InCache(e), e.place # "none" PROVE UuidOf(e) \in Binaries(shelf)
  BY <1>1
<1>2. CASE e.place = "uuid"
  <2>1. UuidOf(e) = e.uuid
    BY <1>2 DEF UuidOf
  <2>2. e \in { x \in Range(shelf.entries) : x.place = "uuid" }
    BY <1>2
  <2>3. e.uuid \in { x.uuid : x \in { y \in Range(shelf.entries) : y.place = "uuid" } }
    BY <2>2
  <2> QED
    BY <2>1, <2>3 DEF Binaries
<1>3. CASE e.place = "main"
  <2>1. UuidOf(e) = shelf.process.main
    BY <1>3 DEF UuidOf
  <2> QED
    BY <2>1 DEF Binaries
<1>4. CASE e.place = "absolute"
  <2> DEFINE images == shelf.process.images
             at == e.alt * Word + e.pc
             in == { i \in DOMAIN images : images[i].load <= at /\ at <= images[i].load + images[i].size }
             i == CHOOSE x \in in : \A y \in in : x <= y
  <2>1. UuidOf(e) = IF in = {} THEN "" ELSE images[i].uuid
    BY <1>4 DEF UuidOf, AbsoluteImage
  <2>2. IsText(images)
    BY ShelvesAssumption
  <2>3. Len(images) \in Nat /\ DOMAIN images = 1..Len(images) /\ \A j \in DOMAIN images : images[j] \in Range(images)
    <3> HIDE DEF images
    <3> QED
      BY <2>2, IndexesOf
  <2>4. in \in SUBSET (1..Len(images))
    BY <2>3
  <2> HIDE DEF in
  <2>5. in # {} => i \in DOMAIN images
    BY <2>3, <2>4, FirstIndex
  <2>6. in # {} => images[i] \in Range(images)
    BY <2>3, <2>5
  <2>7. UuidOf(e) \in {""} \cup { x.uuid : x \in Range(images) }
    <3> HIDE DEF i, images
    <3> QED
      BY <2>1, <2>6
  <2> QED
    BY <2>7 DEF Binaries
<1> QED
  BY <1>1, <1>2, <1>3, <1>4 DEF IsEntry, InCache

\* The table a process finds for an entry, if any, is one of the disk, with the uuid and of
\* the kind the entry names; the file id is that of this table.
LEMMA TableOnDisk ==
  ASSUME StringsInv, NEW p \in Readers, loaded[p] # <<>>, ids[p] # <<>>, NEW e \in Range(shelf.entries)
  PROVE  /\ TableOf(p, e) # <<>> =>
              /\ TableOf(p, e) = << TableOf(p, e)[1] >> /\ TableOf(p, e)[1] \in Tables(shelf)
              /\ TableOf(p, e)[1].uuid = UuidOf(e)
              /\ IsDsc(TableOf(p, e)[1].path) <=> InCache(e)
              /\ FileId(p, UuidOf(e)) = TableOf(p, e)[1].path
         /\ TableOf(p, e) = <<>> /\ ~InCache(e) /\ e.place # "none" => FileId(p, UuidOf(e)) = 0
<1> DEFINE us == shelf.uuidtexts
           ds == shelf.dscs
           u == UuidOf(e)
           t == TableOf(p, e)
<1>1. shelf \in Shelves /\ IsEntry(e) /\ IsText(us) /\ IsText(ds)
  BY EntriesAreEntries, ShelvesAssumption DEF StringsInv
<1>2. loaded[p][1] = Content /\ ids[p][1] = FileIds
  <2>1. loaded[p] = << Content >> /\ ids[p] = << FileIds >>
    BY DEF StringsInv, ReadersAgree
  <2> QED
    BY <2>1
<1>3. t = CASE e.place = "none" -> <<>>
            [] e.place # "none" /\ InCache(e) -> IF u \in Uuids(ds) THEN << FirstOf(ds, u) >> ELSE <<>>
            [] e.place # "none" /\ ~InCache(e) -> IF u \in Uuids(us) THEN << LastOf(us, u) >> ELSE <<>>
  <2>1. \A v : Uuidtext(p, v) = IF v \in Uuids(us) THEN << LastOf(us, v) >> ELSE <<>>
    BY <1>2 DEF Uuidtext, Content
  <2>2. \A v : Dsc(p, v) = IF v \in Uuids(ds) THEN << FirstOf(ds, v) >> ELSE <<>>
    BY <1>2 DEF Dsc, Content
  <2> HIDE DEF us, ds
  <2>3. CASE e.place = "none"
    BY <2>3 DEF TableOf
  <2>4. CASE e.place = "uuid"
    BY <2>1, <2>4 DEF TableOf, InCache, UuidOf
  <2>5. CASE e.place \in {"cache", "bigcache"}
    BY <2>2, <2>5 DEF TableOf, InCache, UuidOf
  <2>6. CASE e.place = "absolute"
    BY <2>1, <2>6 DEF TableOf, InCache, UuidOf
  <2>7. CASE e.place = "main"
    BY <2>1, <2>7 DEF TableOf, InCache, UuidOf
  <2> QED
    BY <1>1, <2>3, <2>4, <2>5, <2>6, <2>7 DEF IsEntry
<1>4. FileId(p, u) = IF u \in Uuids(ds) THEN FirstOf(ds, u).path
                     ELSE IF u \in Uuids(us) THEN LastOf(us, u).path ELSE 0
  <2> HIDE DEF u
  <2> QED
    BY <1>2 DEF FileId, FileIds
<1>5. ~InCache(e) /\ e.place # "none" => u \notin Uuids(ds)
  <2> SUFFICES ASSUME ~InCache(e), e.place # "none", u \in Uuids(ds) PROVE FALSE
    OBVIOUS
  <2>1. FirstOf(ds, u) \in Range(ds) /\ FirstOf(ds, u).uuid = u
    BY <1>1, OneOfThem
  <2>2. u \in Binaries(shelf)
    BY <1>1, EntriesAreEntries
  <2>3. \A f \in Range(ds) : f.uuid \notin Binaries(shelf)
    BY <1>1, ShelvesAssumption
  <2> QED
    BY <2>1, <2>2, <2>3
<1>6. \A f \in Tables(shelf) : f.path \in Nat \ {0} /\ (IsDsc(f.path) <=> f \in Range(ds))
  BY <1>1, FileAtItsPath
<1>7. CASE e.place = "none"
  <2>1. t = <<>>
    BY <1>3, <1>7
  <2> HIDE DEF t
  <2> QED
    BY <1>7, <2>1 DEF t
<1>8. CASE e.place # "none" /\ InCache(e)
  <2>1. CASE u \in Uuids(ds)
    <3>1. t = << FirstOf(ds, u) >>
      BY <1>3, <1>8, <2>1
    <3>2. FirstOf(ds, u) \in Range(ds) /\ FirstOf(ds, u).uuid = u
      BY <1>1, <2>1, OneOfThem
    <3>3. t[1] = FirstOf(ds, u) /\ t[1] \in Tables(shelf)
      BY <3>1, <3>2 DEF Tables
    <3>4. IsDsc(t[1].path)
      BY <1>6, <3>2, <3>3
    <3> HIDE DEF t, u
    <3> QED
      BY <1>4, <1>8, <2>1, <3>1, <3>2, <3>3, <3>4 DEF t, u
  <2>2. CASE u \notin Uuids(ds)
    <3>1. t = <<>>
      BY <1>3, <1>8, <2>2
    <3> HIDE DEF t
    <3> QED
      BY <1>8, <3>1 DEF t
  <2> QED
    BY <2>1, <2>2
<1>9. CASE e.place # "none" /\ ~InCache(e)
  <2>1. CASE u \in Uuids(us)
    <3>1. t = << LastOf(us, u) >>
      BY <1>3, <1>9, <2>1
    <3>2. LastOf(us, u) \in Range(us) /\ LastOf(us, u).uuid = u
      BY <1>1, <2>1, OneOfThem
    <3>3. t[1] = LastOf(us, u) /\ t[1] \in Tables(shelf)
      BY <3>1, <3>2 DEF Tables
    <3>4. ~IsDsc(t[1].path)
      <4>1. \A f \in Range(ds) : f.uuid \notin { g.uuid : g \in Range(us) }
        BY <1>1, ShelvesAssumption DEF Binaries
      <4>2. LastOf(us, u) \notin Range(ds)
        BY <3>2, <4>1
      <4> QED
        BY <1>6, <3>3, <4>2
    <3> HIDE DEF t, u
    <3> QED
      BY <1>4, <1>5, <1>9, <2>1, <3>1, <3>2, <3>3, <3>4 DEF t, u
  <2>2. CASE u \notin Uuids(us)
    <3>1. t = <<>>
      BY <1>3, <1>9, <2>2
    <3>2. FileId(p, u) = 0
      BY <1>4, <1>5, <1>9, <2>2
    <3> HIDE DEF t
    <3> QED
      BY <1>9, <3>1, <3>2 DEF t
  <2> QED
    BY <2>1, <2>2
<1> QED
  BY <1>7, <1>8, <1>9

\* What the memo of a process says, or the lookup it saves, is what is in the file.
LEMMA TextIsOfTheFile ==
  ASSUME StringsInv, NEW p \in Readers, loaded[p] # <<>>, ids[p] # <<>>, NEW e \in Range(shelf.entries),
         TableOf(p, e) # <<>>
  PROVE  LET f == TableOf(p, e)[1]
         IN  /\ TextIn(f, e) = StringAt(f.path, OffsetIn(e))
             /\ LookedUp(p, f, OffsetIn(e), TextIn(f, e)) = StringAt(f.path, OffsetIn(e))
             /\ FileAt2(f.path) = f
<1> DEFINE f == TableOf(p, e)[1]
           k == <<f.path, OffsetIn(e)>>
<1>1. f \in Tables(shelf) /\ (IsDsc(f.path) <=> InCache(e)) /\ shelf \in Shelves
  BY TableOnDisk DEF StringsInv
<1>2. FileAt2(f.path) = f
  BY <1>1, FileAtItsPath
<1> HIDE DEF f
<1>3. TextIn(f, e) = StringAt(f.path, OffsetIn(e))
  BY <1>1, <1>2 DEF TextIn, StringAt, InCache
<1>4. LookedUp(p, f, OffsetIn(e), TextIn(f, e)) = StringAt(f.path, OffsetIn(e))
  <2>1. k \in DOMAIN memo[p] => memo[p][k] = StringAt(k[1], k[2])
    BY DEF StringsInv, MemosHold
  <2>2. k[1] = f.path /\ k[2] = OffsetIn(e)
    OBVIOUS
  <2> QED
    BY <1>3, <2>1, <2>2 DEF LookedUp
<1> QED
  BY <1>2, <1>3, <1>4 DEF f

\* resolve_format_string: format string, uuid and file id are of one table.
LEMMA ResolveNamesTheTable ==
  ASSUME StringsInv, NEW p \in Readers, loaded[p] # <<>>, ids[p] # <<>>, NEW e \in Range(shelf.entries),
         ~IsDynamic(e)
  PROVE  NamesItsTable(e, Resolve2(p, e)) /\ IsText(Resolve2(p, e).fmt)
<1> DEFINE t == TableOf(p, e)
           f == t[1]
           u == UuidOf(e)
           r == Resolve2(p, e)
           fmt == LookedUp(p, f, OffsetIn(e), TextIn(f, e))
<1>1. IsEntry(e) /\ OffsetIn(e) = Meant(e) /\ OffsetIn(e) \in Nat /\ shelf \in Shelves
  BY EntriesAreEntries, MeantIsRead DEF StringsInv
<1>2. t # <<>> => /\ f \in Tables(shelf) /\ f.uuid = u /\ FileId(p, u) = f.path
                  /\ IsDsc(f.path) <=> InCache(e)
  BY TableOnDisk
<1>3. t = <<>> /\ ~InCache(e) /\ e.place # "none" => FileId(p, u) = 0
  BY TableOnDisk
<1>4. t # <<>> => fmt = StringAt(f.path, OffsetIn(e)) /\ FileAt2(f.path) = f
  BY TextIsOfTheFile
<1>5. t # <<>> => /\ r.fmt = fmt /\ r.uuid = u /\ r.file = FileId(p, u) /\ e.place # "none"
  <2> SUFFICES ASSUME t # <<>> PROVE r.fmt = fmt /\ r.uuid = u /\ r.file = FileId(p, u) /\ e.place # "none"
    OBVIOUS
  <2>1. e.place # "none"
    BY DEF TableOf
  <2> HIDE DEF fmt
  <2>2. CASE e.place = "uuid"
    BY <2>2 DEF Resolve2, Found, UuidOf, fmt
  <2>3. CASE e.place \in {"cache", "bigcache"}
    BY <2>3 DEF Resolve2, Found, UuidOf, fmt
  <2>4. CASE e.place = "absolute"
    BY <2>4 DEF Resolve2, Found, UuidOf, fmt
  <2>5. CASE e.place = "main"
    BY <2>5 DEF Resolve2, Found, UuidOf, fmt
  <2> QED
    BY <1>1, <2>1, <2>2, <2>3, <2>4, <2>5 DEF IsEntry
<1>6. t = <<>> => r.fmt = <<>> /\ r.file \in {0} \cup (IF InCache(e) \/ e.place = "none" THEN {} ELSE {FileId(p, u)})
  <2> SUFFICES ASSUME t = <<>>
               PROVE  r.fmt = <<>> /\ r.file \in {0} \cup (IF InCache(e) \/ e.place = "none" THEN {} ELSE {FileId(p, u)})
    OBVIOUS
  <2>2. CASE e.place = "uuid"
    BY <2>2 DEF Resolve2, Found, UuidOf, InCache
  <2>3. CASE e.place \in {"cache", "bigcache"}
    BY <2>3 DEF Resolve2, Found, UuidOf, InCache
  <2>4. CASE e.place = "absolute"
    BY <2>4 DEF Resolve2, Found, UuidOf, InCache
  <2>5. CASE e.place = "main"
    BY <2>5 DEF Resolve2, Found, UuidOf, InCache
  <2>6. CASE e.place = "none"
    BY <2>6 DEF Resolve2, Found, InCache
  <2> QED
    BY <1>1, <2>2, <2>3, <2>4, <2>5, <2>6 DEF IsEntry
<1> HIDE DEF r, t, u, fmt
<1>7. CASE t = <<>>
  <2>1. r.file = 0 /\ r.fmt = <<>>
    BY <1>3, <1>6, <1>7
  <2>2. NamesItsTable(e, r) /\ IsText(r.fmt)
    BY <2>1, NoText DEF NamesItsTable
  <2> QED
    BY <2>2 DEF r
<1>8. CASE t # <<>>
  <2>1. r.file = f.path /\ r.uuid = f.uuid /\ r.fmt = StringAt(f.path, OffsetIn(e)) /\ FileAt2(f.path) = f
    BY <1>2, <1>4, <1>5, <1>8
  <2>2. f.path # 0
    BY <1>1, <1>2, <1>8, FileAtItsPath
  <2>3. /\ IsText(StringAt(f.path, OffsetIn(e)))
        /\ OffsetIn(e) # DynamicOffset => StringAt(f.path, OffsetIn(e)) = TextOnDisk(f, OffsetIn(e))
    BY <1>1, <1>2, <1>8, LookupTells
  <2>4. IsDsc(r.file) = (e.place \in {"cache", "bigcache"})
    <3>1. IsDsc(f.path) <=> InCache(e)
      BY <1>2, <1>8
    <3>2. IsDsc(f.path) \in BOOLEAN
      BY DEF IsDsc
    <3> QED
      BY <2>1, <3>1, <3>2 DEF InCache
  <2>5. NamesItsTable(e, r) /\ IsText(r.fmt)
    BY <1>1, <2>1, <2>2, <2>3, <2>4 DEF NamesItsTable
  <2> QED
    BY <2>5 DEF r
<1> QED
  BY <1>7, <1>8

\* No process has read anything at first.
LEMMA StringsStart == StringsInit => StringsInv
<1> SUFFICES ASSUME StringsInit PROVE StringsInv
  OBVIOUS
<1>1. /\ shelf \in Shelves /\ loaded = [p \in Readers |-> <<>>] /\ ids = [p \in Readers |-> <<>>]
      /\ memo = [p \in Readers |-> <<>>] /\ rows = [i \in DOMAIN shelf.entries |-> <<>>]
  BY DEF StringsInit
<1>2. ReadersAgree
  BY <1>1 DEF ReadersAgree
<1>3. MemosHold
  <2>1. DOMAIN <<>> = {}
    OBVIOUS
  <2> QED
    BY <1>1, <2>1 DEF MemosHold
<1>4. ShelfRowsHold
  BY <1>1 DEF ShelfRowsHold
<1> QED
  BY <1>1, <1>2, <1>3, <1>4 DEF StringsInv

\* What is on disk stays what it is.
LEMMA DiskStays ==
  ASSUME shelf' = shelf
  PROVE  /\ Content' = Content /\ FileIds' = FileIds
         /\ \A path, offset : StringAt(path, offset)' = StringAt(path, offset)
         /\ \A e, row : RowHolds(e, row)' <=> RowHolds(e, row)
<1>1. \A path : FileAt2(path)' = FileAt2(path) /\ (IsDsc(path)' <=> IsDsc(path))
  BY DEF FileAt2, IsDsc
<1>2. \A f, offset : Holders(f, offset)' = Holders(f, offset)
  BY <1>1 DEF Holders
<1>3. ASSUME NEW f, NEW offset PROVE CellOf(f, offset)' = CellOf(f, offset)
  <2>1. Holders(f, offset)' = Holders(f, offset) /\ (IsDsc(f.path)' <=> IsDsc(f.path))
    BY <1>1, <1>2
  <2>2. \A i : Bytes(f, i)' = Bytes(f, i)
    BY DEF Bytes
  <2> QED
    BY <2>1, <2>2 DEF CellOf
<1>4. \A f, offset : TextOnDisk(f, offset)' = TextOnDisk(f, offset)
  BY <1>2, <1>3 DEF TextOnDisk
<1>5. \A e, r : NamesItsTable(e, r)' <=> NamesItsTable(e, r)
  BY <1>1, <1>4 DEF NamesItsTable
<1>6. \A e, row : RowHolds(e, row)' <=> RowHolds(e, row)
  BY <1>5 DEF RowHolds
<1>7. \A path, offset : StringAt(path, offset)' = StringAt(path, offset)
  BY <1>1 DEF StringAt
<1> QED
  BY <1>6, <1>7 DEF Content, FileIds

\* An entry resolved in any process, with whatever is in its memos, keeps all this.
LEMMA ResolveKeeps ==
  ASSUME StringsInv, NEW p \in Readers, NEW i \in DOMAIN rows, ResolveEntry(p, i)
  PROVE  StringsInv'
<1> DEFINE e == shelf.entries[i]
           t == TableOf(p, e)
           f == t[1]
           k == <<f.path, OffsetIn(e)>>
           row == [found |-> Resolve2(p, e), name |-> ProcessName(p, Resolve2(p, e)),
                   message |-> FormatMessage(Resolve2(p, e).fmt, e.items)]
           next == IF IsDynamic(e) \/ t = <<>> THEN memo[p] ELSE Remember(p, f, OffsetIn(e), TextIn(f, e))
<1>1. /\ loaded[p] # <<>> /\ ids[p] # <<>> /\ shelf' = shelf /\ loaded' = loaded /\ ids' = ids
      /\ rows' = [rows EXCEPT ![i] = << row >>] /\ memo' = [memo EXCEPT ![p] = next]
  BY DEF ResolveEntry
<1>2. /\ shelf \in Shelves /\ DOMAIN loaded = Readers /\ DOMAIN ids = Readers /\ DOMAIN memo = Readers
      /\ DOMAIN rows = DOMAIN shelf.entries
      /\ ReadersAgree /\ MemosHold /\ ShelfRowsHold
  BY DEF StringsInv
<1>3. e \in Range(shelf.entries)
  BY <1>2 DEF Range
<1>4. RowHolds(e, row)
  <2>1. row.found = Resolve2(p, e) /\ row.message = FormatMessage(Resolve2(p, e).fmt, e.items)
    OBVIOUS
  <2>2. ~IsDynamic(e) => NamesItsTable(e, Resolve2(p, e)) /\ IsText(Resolve2(p, e).fmt)
    BY <1>1, <1>3, ResolveNamesTheTable
  <2> HIDE DEF row
  <2> QED
    BY <2>1, <2>2 DEF RowHolds
<1>5. \A x \in DOMAIN next : next[x] = StringAt(x[1], x[2])
  <2>1. \A x \in DOMAIN memo[p] : memo[p][x] = StringAt(x[1], x[2])
    BY <1>2 DEF MemosHold
  <2>2. CASE next = memo[p]
    BY <2>1, <2>2
  <2>3. CASE next # memo[p]
    <3>1. t # <<>> /\ next = [x \in DOMAIN memo[p] \cup {k} |-> IF x \in DOMAIN memo[p] THEN memo[p][x] ELSE TextIn(f, e)]
      BY <2>3 DEF Remember
    <3>2. TextIn(f, e) = StringAt(k[1], k[2])
      <4>1. TextIn(f, e) = StringAt(f.path, OffsetIn(e))
        BY <1>1, <1>3, <3>1, TextIsOfTheFile
      <4> QED
        BY <4>1
    <3> HIDE DEF k, next
    <3>3. DOMAIN next = {k} \cup DOMAIN memo[p]
      BY <3>1 
    <3>4. \A x \in DOMAIN next : next[x] = IF x \in DOMAIN memo[p] THEN memo[p][x] ELSE TextIn(f, e)
      BY <3>1 
    <3> HIDE DEF f
    <3> QED
      BY <2>1, <3>2, <3>3, <3>4
  <2> QED
    BY <2>2, <2>3
<1> HIDE DEF row, next, e
<1>6. ReadersAgree'
  BY <1>1, <1>2, DiskStays DEF ReadersAgree
<1>7. MemosHold'
  <2> SUFFICES ASSUME NEW q \in Readers, NEW x \in DOMAIN (memo'[q]) PROVE memo'[q][x] = StringAt(x[1], x[2])
    BY <1>1, DiskStays DEF MemosHold
  <2>1. memo'[q] = IF q = p THEN next ELSE memo[q]
    BY <1>1, <1>2
  <2> QED
    BY <1>2, <1>5, <2>1 DEF MemosHold
<1>8. ShelfRowsHold'
  <2> SUFFICES ASSUME NEW j \in DOMAIN rows
               PROVE  rows'[j] = <<>> \/ (rows'[j] = << rows'[j][1] >> /\ RowHolds(shelf.entries[j], rows'[j][1]))
    BY <1>1, DiskStays DEF ShelfRowsHold
  <2>1. CASE j = i
    <3>1. rows'[j] = << row >> /\ rows'[j][1] = row
      BY <1>1, <2>1
    <3> QED
      BY <1>4, <2>1, <3>1 DEF e
  <2>2. CASE j # i
    <3>1. rows'[j] = rows[j]
      BY <1>1, <2>2
    <3> QED
      BY <1>2, <3>1 DEF ShelfRowsHold
  <2> QED
    BY <2>1, <2>2
<1>9. DOMAIN rows' = DOMAIN rows /\ DOMAIN memo' = DOMAIN memo
  BY <1>1
<1> QED
  BY <1>1, <1>2, <1>6, <1>7, <1>8, <1>9 DEF StringsInv

\* So does every other step.
LEMMA StringsStep == StringsInv /\ [StringsNext]_strings => StringsInv'
<1> SUFFICES ASSUME StringsInv, [StringsNext]_strings PROVE StringsInv'
  OBVIOUS
<1>1. /\ shelf \in Shelves /\ DOMAIN loaded = Readers /\ DOMAIN ids = Readers /\ DOMAIN memo = Readers
      /\ DOMAIN rows = DOMAIN shelf.entries
      /\ ReadersAgree /\ MemosHold /\ ShelfRowsHold
  BY DEF StringsInv
<1>2. ASSUME shelf' = shelf, memo' = memo, rows' = rows,
             DOMAIN loaded' = Readers, DOMAIN ids' = Readers, ReadersAgree'
      PROVE  StringsInv'
  <2>1. MemosHold'
    BY <1>1, <1>2, DiskStays DEF MemosHold
  <2>2. ShelfRowsHold'
    BY <1>1, <1>2, DiskStays DEF ShelfRowsHold
  <2> QED
    BY <1>1, <1>2, <2>1, <2>2 DEF StringsInv
<1>3. ASSUME NEW p \in Readers, LoadContent(p) PROVE StringsInv'
  <2>1. /\ shelf' = shelf /\ memo' = memo /\ rows' = rows /\ ids' = ids
        /\ loaded' = [loaded EXCEPT ![p] = << Content >>]
    BY <1>3 DEF LoadContent, Content
  <2>2. ReadersAgree'
    BY <1>1, <2>1, DiskStays DEF ReadersAgree
  <2> QED
    BY <1>1, <1>2, <2>1, <2>2
<1>4. ASSUME RegisterSources PROVE StringsInv'
  <2>1. loaded["main"] = << Content >>
    BY <1>1, <1>4 DEF RegisterSources, ReadersAgree, Readers
  <2>2. FileIds = [u \in DOMAIN Content.uuidtext \cup DOMAIN Content.dsc |->
                     IF u \in DOMAIN Content.dsc THEN Content.dsc[u].path ELSE Content.uuidtext[u].path]
    <3>1. /\ DOMAIN Content.uuidtext = Uuids(shelf.uuidtexts) /\ DOMAIN Content.dsc = Uuids(shelf.dscs)
          /\ \A u \in Uuids(shelf.uuidtexts) : Content.uuidtext[u] = LastOf(shelf.uuidtexts, u)
          /\ \A u \in Uuids(shelf.dscs) : Content.dsc[u] = FirstOf(shelf.dscs, u)
      BY DEF Content
    <3> QED
      BY <3>1 DEF FileIds
  <2>3. /\ shelf' = shelf /\ memo' = memo /\ rows' = rows /\ loaded' = loaded
        /\ ids' = [ids EXCEPT !["main"] = << FileIds >>]
    <3>1. loaded["main"][1] = Content
      BY <2>1
    <3> QED
      BY <1>4, <2>2, <3>1 DEF RegisterSources
  <2>4. ReadersAgree'
    BY <1>1, <2>3, DiskStays DEF ReadersAgree
  <2> QED
    BY <1>1, <1>2, <2>3, <2>4
<1>5. ASSUME AdoptIds PROVE StringsInv'
  <2>1. /\ shelf' = shelf /\ memo' = memo /\ rows' = rows /\ loaded' = loaded
        /\ ids' = [ids EXCEPT !["worker"] = ids["main"]]
    BY <1>5 DEF AdoptIds
  <2>2. ReadersAgree'
    BY <1>1, <2>1, DiskStays DEF ReadersAgree, Readers
  <2> QED
    BY <1>1, <1>2, <2>1, <2>2
<1>6. ASSUME NEW p \in Readers, NEW i \in DOMAIN rows, ResolveEntry(p, i) PROVE StringsInv'
  BY <1>6, ResolveKeeps
<1>7. ASSUME UNCHANGED strings PROVE StringsInv'
  <2>1. shelf' = shelf /\ memo' = memo /\ rows' = rows /\ loaded' = loaded /\ ids' = ids
    BY <1>7 DEF strings
  <2>2. ReadersAgree'
    BY <1>1, <2>1, DiskStays DEF ReadersAgree
  <2> QED
    BY <1>1, <1>2, <2>1, <2>2
<1> QED
  BY <1>3, <1>4, <1>5, <1>6, <1>7 DEF StringsNext

-----------------------------------------------------------------------------
(* The messages.  The loop that fills a format gives its pieces in order.  *)

\* One token is a text.
LEMMA OneToken == \A tok : IsText(<< tok >>)
<1> SUFFICES ASSUME NEW tok PROVE IsText(<< tok >>)
  OBVIOUS
<1>1. Range(<< tok >>) = {tok}
  BY DEF Range
<1>2. << tok >> \in Seq({tok})
  OBVIOUS
<1> QED
  BY <1>1, <1>2 DEF IsText

\* Two texts in a row are one.
LEMMA JoinedTexts ==
  ASSUME NEW s, IsText(s), NEW t, IsText(t)
  PROVE  IsText(s \o t)
<1> DEFINE T == Range(s) \cup Range(t)
<1>1. s \in Seq(Range(s)) /\ t \in Seq(Range(t)) /\ Range(s) \subseteq T /\ Range(t) \subseteq T
  BY DEF IsText
<1> HIDE DEF T
<1>2. s \in Seq(T)
  BY <1>1, SeqMonotonic
<1>3. t \in Seq(T)
  BY <1>1, SeqMonotonic
<1>4. s \o t \in Seq(T)
  BY <1>2, <1>3, ConcatProperties
<1> QED
  BY <1>4, SeqOfItsRange DEF IsText

\* What is shown for an item is a text.
LEMMA ShownIsText ==
  ASSUME NEW it, IsText(it.text), NEW spec
  PROVE  IsText(RenderItem(it, spec))
<1>1. \A how, n : IsText(Shown(how, n)) /\ IsText(Decimal(n))
  BY OneToken DEF Shown, Decimal
<1>2. IsText(Raw(it))
  BY <1>1 DEF Raw
<1>3. \A conv : IsText(Printf(it, conv))
  BY <1>1, <1>2 DEF Printf
<1>4. \A how : IsText(Decoded(it, how))
  BY <1>1 DEF Decoded
<1>5. IsText(Redacted2)
  BY OneToken DEF Redacted2
<1>6. IsText(<< <<"shown", "?", spec[3]>> >> \o Raw(it))
  BY <1>2, OneToken, JoinedTexts
<1> QED
  BY <1>3, <1>4, <1>5, <1>6 DEF RenderItem

\* The pieces of a format.
Pieces2(fmt, its) == [t \in DOMAIN fmt |-> Piece2(fmt, its, t)]
TokensOf(fmt, its) == UNION { Range(Piece2(fmt, its, t)) : t \in DOMAIN fmt }

\* The specifiers up to a token.
LEMMA SpecsCounted ==
  ASSUME NEW fmt, IsText(fmt)
  PROVE  /\ SpecsBefore(fmt, 0) = 0
         /\ \A t \in 1..Len(fmt) :
              /\ SpecsBefore(fmt, t - 1) \in Nat
              /\ SpecsBefore(fmt, t) = SpecsBefore(fmt, t - 1) + (IF fmt[t][1] = "spec" THEN 1 ELSE 0)
<1> DEFINE Specs(t) == { j \in 1..t : fmt[j][1] = "spec" }
<1>1. SpecsBefore(fmt, 0) = 0
  <2>1. Specs(0) = {}
    OBVIOUS
  <2> QED
    BY <2>1, FS_EmptySet DEF SpecsBefore
<1>2. ASSUME NEW t \in 1..Len(fmt)
      PROVE  /\ SpecsBefore(fmt, t - 1) \in Nat
             /\ SpecsBefore(fmt, t) = SpecsBefore(fmt, t - 1) + (IF fmt[t][1] = "spec" THEN 1 ELSE 0)
  <2>1. Len(fmt) \in Nat
    BY IndexesOf
  <2>2. IsFiniteSet(Specs(t - 1)) /\ Cardinality(Specs(t - 1)) \in Nat
    <3>1. IsFiniteSet(1..(t - 1))
      BY <2>1, NumbersUpTo
    <3>2. Specs(t - 1) \in SUBSET (1..(t - 1))
      OBVIOUS
    <3> HIDE DEF Specs
    <3>3. IsFiniteSet(Specs(t - 1))
      BY <3>1, <3>2, FS_Subset
    <3> QED
      BY <3>3, FS_CardinalityType
  <2>3. t \notin Specs(t - 1)
    OBVIOUS
  <2>4. Specs(t) = IF fmt[t][1] = "spec" THEN Specs(t - 1) \cup {t} ELSE Specs(t - 1)
    <3>1. 1..t = (1..(t - 1)) \cup {t}
      BY <2>1
    <3> QED
      BY <3>1
  <2>5. SpecsBefore(fmt, t) = Cardinality(Specs(t)) /\ SpecsBefore(fmt, t - 1) = Cardinality(Specs(t - 1))
    BY DEF SpecsBefore
  <2> HIDE DEF Specs
  <2>6. Cardinality(Specs(t - 1) \cup {t}) = Cardinality(Specs(t - 1)) + 1
    BY <2>2, <2>3, FS_AddElement
  <2> QED
    BY <2>2, <2>4, <2>5, <2>6
<1> QED
  BY <1>1, <1>2

\* Each piece of a message is a text.
LEMMA PiecesAreTexts ==
  ASSUME NEW fmt, IsText(fmt), NEW its, IsText(its), \A it \in Range(its) : IsText(it.text)
  PROVE  \A t \in 1..Len(fmt) : Piece2(fmt, its, t) \in Seq(TokensOf(fmt, its))
<1> SUFFICES ASSUME NEW t \in 1..Len(fmt) PROVE Piece2(fmt, its, t) \in Seq(TokensOf(fmt, its))
  OBVIOUS
<1>1. DOMAIN fmt = 1..Len(fmt) /\ DOMAIN its = 1..Len(its) /\ Len(its) \in Nat /\ Len(fmt) \in Nat
  BY IndexesOf
<1>2. SpecsBefore(fmt, t) \in Nat /\ (fmt[t][1] = "spec" => SpecsBefore(fmt, t) \in 1..SpecsBefore(fmt, t))
  BY SpecsCounted
<1>3. IsText(Piece2(fmt, its, t))
  <2>1. CASE fmt[t][1] = "pct"
    BY <2>1, OneToken DEF Piece2
  <2>2. CASE fmt[t][1] = "spec" /\ SpecsBefore(fmt, t) <= Len(its)
    <3>1. SpecsBefore(fmt, t) \in DOMAIN its
      BY <1>1, <1>2, <2>2
    <3>2. IsText(its[SpecsBefore(fmt, t)].text)
      BY <3>1 DEF Range
    <3> QED
      BY <2>2, <3>2, ShownIsText DEF Piece2
  <2>3. CASE fmt[t][1] # "pct" /\ ~(fmt[t][1] = "spec" /\ SpecsBefore(fmt, t) <= Len(its))
    BY <2>3, OneToken DEF Piece2
  <2> QED
    BY <2>1, <2>2, <2>3
<1>4. Range(Piece2(fmt, its, t)) \subseteq TokensOf(fmt, its)
  BY <1>1 DEF TokensOf
<1> QED
  BY <1>3, <1>4, SeqMonotonic DEF IsText

\* q has what the loop of format_message has after each token.
FillsUpTo(q, fmt, its) ==
  q = [n \in 0..Len(fmt) |->
        IF n = 0 THEN [next |-> 1, out |-> <<>>] ELSE Fill(q[n - 1], fmt[n], its)]

\* The specifier at t takes the item whose number is that of the specifiers so far.
LEMMA FormatIsFilled ==
  ASSUME NEW fmt, IsText(fmt), NEW its, IsText(its), \A it \in Range(its) : IsText(it.text)
  PROVE  FormatMessage(fmt, its) = FlattenSeq([t \in DOMAIN fmt |-> Piece2(fmt, its, t)])
<1> DEFINE m == Len(fmt)
           T == TokensOf(fmt, its)
           P == Pieces2(fmt, its)
           taken(n) == IF SpecsBefore(fmt, n) <= Len(its) THEN SpecsBefore(fmt, n) ELSE Len(its)
<1>1. m \in Nat /\ DOMAIN fmt = 1..m /\ Len(its) \in Nat
  BY IndexesOf
<1>2. \A t \in 1..m : P[t] = Piece2(fmt, its, t) /\ P[t] \in Seq(T)
  BY <1>1, PiecesAreTexts DEF Pieces2
<1>3. Len(P) = m
  <2>1. P \in Seq(Seq(T))
    <3>1. P = [t \in 1..m |-> P[t]]
      BY <1>1 DEF Pieces2
    <3> QED
      BY <1>1, <1>2, <3>1
  <2>2. DOMAIN P = 1..m
    BY <1>1 DEF Pieces2
  <2> HIDE DEF P
  <2>3. DOMAIN P = 1..Len(P) /\ Len(P) \in Nat
    BY <2>1, LenProperties
  <2> QED
    BY <1>1, <2>2, <2>3
<1> HIDE DEF P, T, m
<1>4. PICK g \in [0..m -> Seq(T)] :
        /\ g[0] = <<>> /\ \A i \in 1..m : g[i] = g[i - 1] \o P[i]
        /\ m > 0 => FlattenSeq(P) = g[m]
  <2>1. \E g : Joined(g, m, T, P)
    BY <1>1, <1>2, <1>3, Flattened
  <2> QED
    BY <2>1 DEF Joined
<1>5. /\ SpecsBefore(fmt, 0) = 0
      /\ \A t \in 1..m : /\ SpecsBefore(fmt, t - 1) \in Nat
                         /\ SpecsBefore(fmt, t) = SpecsBefore(fmt, t - 1) + (IF fmt[t][1] = "spec" THEN 1 ELSE 0)
  BY SpecsCounted DEF m
<1>6. ASSUME NEW t \in 1..m, NEW out \in Seq(T)
      PROVE  Fill([next |-> taken(t - 1) + 1, out |-> out], fmt[t], its)
               = [next |-> taken(t) + 1, out |-> out \o P[t]]
  <2> DEFINE before == SpecsBefore(fmt, t - 1)
             s == [next |-> taken(t - 1) + 1, out |-> out]
  <2>1. before \in Nat /\ SpecsBefore(fmt, t) = before + (IF fmt[t][1] = "spec" THEN 1 ELSE 0)
    BY <1>5
  <2>2. \A tok : P[t] = << tok >> => Append(out, tok) = out \o P[t]
    <3> SUFFICES ASSUME NEW tok, P[t] = << tok >> PROVE Append(out, tok) = out \o P[t]
      OBVIOUS
    <3>1. << tok >> \in Seq(T)
      BY <1>2
    <3>2. tok \in T
      BY <3>1
    <3> QED
      BY <3>2, AppendIsConcat
  <2>3. CASE fmt[t][1] = "spec" /\ before < Len(its)
    <3>1. SpecsBefore(fmt, t) = before + 1 /\ before + 1 <= Len(its)
      BY <1>1, <2>1, <2>3
    <3>2. taken(t - 1) + 1 = before + 1 /\ taken(t) + 1 = before + 1 + 1 /\ taken(t - 1) + 1 + 1 = taken(t) + 1
      BY <1>1, <2>1, <3>1
    <3>3. P[t] = RenderItem(its[before + 1], fmt[t])
      BY <1>2, <2>3, <3>1 DEF Piece2
    <3> HIDE DEF taken, before
    <3>4. Fill(s, fmt[t], its) = [next |-> before + 1 + 1, out |-> out \o RenderItem(its[before + 1], fmt[t])]
      BY <2>3, <3>1, <3>2 DEF Fill
    <3> QED
      BY <3>2, <3>3, <3>4
  <2>4. CASE fmt[t][1] = "spec" /\ ~(before < Len(its))
    <3>1. SpecsBefore(fmt, t) = before + 1 /\ ~(before + 1 <= Len(its)) /\ before >= Len(its)
      BY <1>1, <2>1, <2>4
    <3>2. taken(t - 1) = Len(its) /\ taken(t) = Len(its)
      BY <1>1, <2>1, <3>1
    <3>3. P[t] = << fmt[t] >>
      BY <1>2, <2>4, <3>1 DEF Piece2
    <3>4. ~(Len(its) + 1 <= Len(its))
      BY <1>1
    <3> HIDE DEF taken
    <3>5. Fill(s, fmt[t], its) = [next |-> Len(its) + 1, out |-> Append(out, fmt[t])]
      BY <2>4, <3>2, <3>4 DEF Fill
    <3>6. Append(out, fmt[t]) = out \o P[t]
      BY <2>2, <3>3
    <3> QED
      BY <3>2, <3>5, <3>6
  <2>5. CASE fmt[t][1] = "pct"
    <3>1. taken(t) = taken(t - 1)
      BY <1>1, <2>1, <2>5
    <3>2. P[t] = << <<"lit", "%", "">> >>
      BY <1>2, <2>5 DEF Piece2
    <3> HIDE DEF taken
    <3>3. Fill(s, fmt[t], its) = [next |-> taken(t - 1) + 1, out |-> Append(out, <<"lit", "%", "">>)]
      BY <2>5 DEF Fill
    <3>4. Append(out, <<"lit", "%", "">>) = out \o P[t]
      BY <2>2, <3>2
    <3> QED
      BY <3>1, <3>3, <3>4
  <2>6. CASE fmt[t][1] \notin {"spec", "pct"}
    <3>1. taken(t) = taken(t - 1)
      BY <1>1, <2>1, <2>6
    <3>2. P[t] = << fmt[t] >>
      BY <1>2, <2>6 DEF Piece2
    <3> HIDE DEF taken
    <3>3. Fill(s, fmt[t], its) = [next |-> taken(t - 1) + 1, out |-> Append(out, fmt[t])]
      BY <2>6 DEF Fill
    <3>4. Append(out, fmt[t]) = out \o P[t]
      BY <2>2, <3>2
    <3> QED
      BY <3>1, <3>3, <3>4
  <2> QED
    BY <2>3, <2>4, <2>5, <2>6
<1> DEFINE h == [n \in 0..m |-> [next |-> taken(n) + 1, out |-> g[n]]]
<1>7. h[0] = [next |-> 1, out |-> <<>>]
  <2>1. taken(0) = 0 /\ 0 \in 0..m
    BY <1>1, <1>5
  <2> HIDE DEF taken
  <2> QED
    BY <1>4, <2>1
<1>8. \A n \in 1..m : h[n] = Fill(h[n - 1], fmt[n], its)
  <2> SUFFICES ASSUME NEW n \in 1..m PROVE h[n] = Fill(h[n - 1], fmt[n], its)
    OBVIOUS
  <2>1. n - 1 \in 0..m /\ n \in 0..m
    BY <1>1
  <2>2. g[n - 1] \in Seq(T) /\ g[n] = g[n - 1] \o P[n]
    BY <1>4, <2>1
  <2> HIDE DEF taken
  <2>3. h[n - 1] = [next |-> taken(n - 1) + 1, out |-> g[n - 1]] /\ h[n] = [next |-> taken(n) + 1, out |-> g[n]]
    BY <2>1
  <2> HIDE DEF h
  <2> QED
    BY <1>6, <2>2, <2>3
<1>9. FillsUpTo(h, fmt, its)
  <2>1. h = [n \in 0..m |-> h[n]]
    OBVIOUS
  <2> HIDE DEF h
  <2>2. \A n \in 0..m : h[n] = IF n = 0 THEN [next |-> 1, out |-> <<>>] ELSE Fill(h[n - 1], fmt[n], its)
    BY <1>1, <1>7, <1>8
  <2> QED
    BY <2>1, <2>2 DEF FillsUpTo, m
<1> DEFINE q == CHOOSE x : FillsUpTo(x, fmt, its)
<1>10. FillsUpTo(q, fmt, its)
  <2> HIDE DEF h
  <2> QED
    BY <1>9
<1>11. FormatMessage(fmt, its) = q[m].out
  BY DEF FormatMessage, FillsUpTo, m
<1> HIDE DEF q, h, taken
<1>12. \A n \in 0..m : q[n] = IF n = 0 THEN [next |-> 1, out |-> <<>>] ELSE Fill(q[n - 1], fmt[n], its)
  BY <1>10 DEF FillsUpTo, m
<1> DEFINE S == { n \in 0..m : q[n] = h[n] }
<1>13. 0 \in S
  BY <1>1, <1>7, <1>12
<1>14. ASSUME NEW n \in 0..(m - 1), n \in S PROVE n + 1 \in S
  <2>1. n + 1 \in 1..m /\ n + 1 \in 0..m /\ n + 1 # 0 /\ n + 1 - 1 = n /\ q[n] = h[n]
    BY <1>1, <1>14
  <2>2. q[n + 1] = Fill(q[n + 1 - 1], fmt[n + 1], its) /\ h[n + 1] = Fill(h[n + 1 - 1], fmt[n + 1], its)
    BY <1>8, <1>12, <2>1
  <2> QED
    BY <2>1, <2>2
<1> HIDE DEF S
<1>15. \A n \in 0..m : n \in S
  BY <1>1, <1>13, <1>14, CountingUp
<1>16. q[m] = h[m] /\ h[m].out = g[m]
  <2>1. m \in 0..m
    BY <1>1
  <2> QED
    BY <1>15, <2>1 DEF S, h
<1>17. g[m] = FlattenSeq(P)
  <2>1. CASE m > 0
    BY <1>4, <2>1
  <2>2. CASE ~(m > 0)
    <3>1. m = 0 /\ Len(P) = 0
      BY <1>1, <1>3, <2>2
    <3>2. FlattenSeq(P) = P
      BY <3>1 DEF FlattenSeq
    <3>3. P = <<>>
      <4>1. P = [t \in {} |-> Piece2(fmt, its, t)]
        BY <1>1, <3>1 DEF P, Pieces2
      <4> QED
        BY <4>1
    <3> QED
      BY <1>4, <3>1, <3>2, <3>3
  <2> QED
    BY <2>1, <2>2
<1> QED
  BY <1>11, <1>16, <1>17 DEF P, Pieces2

\* The invariant gives the property.
LEMMA RowsAreTheirs == StringsInv => StringsAreSound
<1> SUFFICES ASSUME StringsInv PROVE StringsAreSound
  OBVIOUS
<1>1. shelf \in Shelves /\ DOMAIN rows = DOMAIN shelf.entries /\ ShelfRowsHold
  BY DEF StringsInv
<1>2. ASSUME NEW i \in DOMAIN rows, rows[i] # <<>>, ~IsDynamic(shelf.entries[i])
      PROVE  /\ NamesItsTable(shelf.entries[i], rows[i][1].found)
             /\ rows[i][1].message = FlattenSeq([t \in DOMAIN rows[i][1].found.fmt |->
                   Piece2(rows[i][1].found.fmt, shelf.entries[i].items, t)])
  <2> DEFINE e == shelf.entries[i]
             fmt == rows[i][1].found.fmt
  <2>1. RowHolds(e, rows[i][1])
    BY <1>1, <1>2 DEF ShelfRowsHold
  <2>2. NamesItsTable(e, rows[i][1].found) /\ IsText(fmt) /\ rows[i][1].message = FormatMessage(fmt, e.items)
    BY <1>2, <2>1 DEF RowHolds
  <2>3. e \in Range(shelf.entries)
    BY <1>1 DEF Range
  <2>4. IsText(e.items) /\ \A it \in Range(e.items) : IsText(it.text)
    BY <1>1, <2>3, EntriesAreEntries DEF IsEntry
  <2> HIDE DEF e, fmt
  <2>5. FormatMessage(fmt, e.items) = FlattenSeq([t \in DOMAIN fmt |-> Piece2(fmt, e.items, t)])
    BY <2>2, <2>4, FormatIsFilled
  <2> QED
    BY <2>2, <2>5 DEF e, fmt
<1>3. RowsNameTheirTable
  BY <1>2 DEF RowsNameTheirTable, NamesItsTable
<1>4. MessagesAreFilled
  BY <1>2 DEF MessagesAreFilled
<1> QED
  BY <1>3, <1>4 DEF StringsAreSound

\* uuidtext.py, dsc.py, format_string.py and message.py, in the main process and in the
\* workers: for any files, entries and room in the memos, in whatever order the processes
\* read, register, adopt and resolve, a row's format string, uuid and file id are of one
\* table, the string that file holds where the entry points, and its message is the literal
\* text of that format with the k-th item for the k-th specifier.
THEOREM StringsAreTheirs == StringsSpec => []StringsAreSound
<1> QED
  BY StringsStart, StringsStep, RowsAreTheirs, PTL DEF StringsSpec

-----------------------------------------------------------------------------
(* The chunks: what is told of the records and of the damage up to a place   *)
(* of the archive.                                                           *)

\* The parts of an archive a place can name: file, chunk, sub-chunk, entry.
Quads == Nat \X Nat \X Nat \X Nat

LEMMA QuadsAreOrdered ==
  /\ \A p \in Quads : p = <<p[1], p[2], p[3], p[4]>> /\ ~Ahead(p, p)
  /\ \A p, q \in Quads : p # q => Ahead(p, q) \/ Ahead(q, p)
  /\ \A p, q, r \in Quads : Ahead(p, q) /\ Ahead(q, r) => Ahead(p, r)
<1>1. \A p \in Quads : /\ p = <<p[1], p[2], p[3], p[4]>>
                       /\ p[1] \in Nat /\ p[2] \in Nat /\ p[3] \in Nat /\ p[4] \in Nat
  BY DEF Quads
<1>2. \A p, q \in Quads : p # q => p[1] # q[1] \/ p[2] # q[2] \/ p[3] # q[3] \/ p[4] # q[4]
  BY DEF Quads
<1>3. ASSUME NEW p \in Quads, NEW q \in Quads, p # q PROVE Ahead(p, q) \/ Ahead(q, p)
  BY <1>1, <1>2, <1>3 DEF Ahead
<1>4. ASSUME NEW p \in Quads, NEW q \in Quads, NEW r \in Quads, Ahead(p, q), Ahead(q, r)
      PROVE  Ahead(p, r)
  BY <1>1, <1>4 DEF Ahead
<1>5. ASSUME NEW p \in Quads PROVE ~Ahead(p, p)
  BY <1>1 DEF Ahead
<1> QED
  BY <1>1, <1>3, <1>4, <1>5

AheadIn(S) == { pq \in S \X S : Ahead(pq[1], pq[2]) }

LEMMA AheadOrders ==
  ASSUME NEW S, S \subseteq Quads
  PROVE  Orders(AheadIn(S), S) /\ \A x, y \in S : <<x, y>> \in AheadIn(S) <=> Ahead(x, y)
<1>1. \A x, y \in S : <<x, y>> \in AheadIn(S) <=> Ahead(x, y)
  BY DEF AheadIn
<1>2. \A x \in S : x \in Quads
  OBVIOUS
<1>3. \A x, y \in S : x # y => <<x, y>> \in AheadIn(S) \/ <<y, x>> \in AheadIn(S)
  BY <1>1, <1>2, QuadsAreOrdered
<1>4. \A x, y, z \in S : <<x, y>> \in AheadIn(S) /\ <<y, z>> \in AheadIn(S) => <<x, z>> \in AheadIn(S)
  BY <1>1, <1>2, QuadsAreOrdered
<1>5. \A x \in S : <<x, x>> \notin AheadIn(S)
  BY <1>1, <1>2, QuadsAreOrdered
<1> QED
  BY <1>1, <1>3, <1>4, <1>5 DEF Orders

\* told are those R has for the places P ahead of q, in their order, and n the number of the
\* places D ahead of q.
RowsTold(P, R, told, q) ==
  /\ told \in Seq({ R[p] : p \in P })
  /\ \A i \in 1..Len(told) : told[i].at \in P /\ Ahead(told[i].at, q) /\ told[i] = R[told[i].at]
  /\ \A i, j \in 1..Len(told) : i < j => Ahead(told[i].at, told[j].at)
  /\ \A p \in P : Ahead(p, q) => \E i \in 1..Len(told) : told[i].at = p

DamageTold(D, n, q) == n = Cardinality({ d \in D : Ahead(d, q) })

Told(P, R, D, told, n, q) == q \in Quads /\ RowsTold(P, R, told, q) /\ DamageTold(D, n, q)

\* Between q and r there is no record and no damage.
Quiet(P, D, q, r) == \A p \in P \cup D : Ahead(p, q) <=> Ahead(p, r)
\* Between q and r there is q and nothing else.
Single(P, D, q, r) == \A p \in P \cup D : Ahead(p, r) <=> Ahead(p, q) \/ p = q

LEMMA NothingPassed ==
  ASSUME NEW P, NEW R, NEW D, NEW told, NEW n, NEW q, NEW r \in Quads,
         Told(P, R, D, told, n, q), Quiet(P, D, q, r)
  PROVE  Told(P, R, D, told, n, r)
<1>1. RowsTold(P, R, told, r)
  <2>1. \A p \in P : Ahead(p, q) <=> Ahead(p, r)
    BY DEF Quiet
  <2> QED
    BY <2>1 DEF Told, RowsTold
<1>2. DamageTold(D, n, r)
  <2>1. { d \in D : Ahead(d, q) } = { d \in D : Ahead(d, r) }
    BY DEF Quiet
  <2> QED
    BY <2>1 DEF Told, DamageTold
<1> QED
  BY <1>1, <1>2 DEF Told

LEMMA RecordPassed ==
  ASSUME NEW P, NEW R, NEW D, NEW told, NEW n, NEW q, NEW r \in Quads,
         P \subseteq Quads, \A p \in P : R[p].at = p,
         Told(P, R, D, told, n, q), Single(P, D, q, r), q \in P, q \notin D
  PROVE  Told(P, R, D, Append(told, R[q]), n, r)
<1> DEFINE T == { R[p] : p \in P }
           all == Append(told, R[q])
           k == Len(told)
<1>1. /\ told \in Seq(T) /\ q \in Quads
      /\ \A i \in 1..k : told[i].at \in P /\ Ahead(told[i].at, q) /\ told[i] = R[told[i].at]
      /\ \A i, j \in 1..k : i < j => Ahead(told[i].at, told[j].at)
      /\ \A p \in P : Ahead(p, q) => \E i \in 1..k : told[i].at = p
  BY DEF Told, RowsTold
<1>2. R[q] \in T /\ R[q].at = q
  OBVIOUS
<1>3. /\ \A p \in P : Ahead(p, r) <=> Ahead(p, q) \/ p = q
      /\ \A d \in D : Ahead(d, r) <=> Ahead(d, q)
  BY DEF Single
<1>4. /\ all \in Seq(T) /\ Len(all) = k + 1 /\ all[k + 1] = R[q] /\ k \in Nat
      /\ \A i \in 1..k : all[i] = told[i]
  <2> HIDE DEF T
  <2> QED
    BY <1>1, <1>2, AppendProperties, LenProperties
<1> HIDE DEF all
<1>5. \A i \in 1..Len(all) : i \in 1..k \/ i = k + 1
  BY <1>4
<1>6. ASSUME NEW i \in 1..Len(all)
      PROVE  all[i].at \in P /\ Ahead(all[i].at, r) /\ all[i] = R[all[i].at]
  <2>1. CASE i \in 1..k
    BY <2>1, <1>1, <1>3, <1>4
  <2>2. CASE i = k + 1
    BY <2>2, <1>2, <1>3, <1>4
  <2> QED
    BY <1>5, <2>1, <2>2
<1>7. ASSUME NEW i \in 1..Len(all), NEW j \in 1..Len(all), i < j
      PROVE  Ahead(all[i].at, all[j].at)
  <2>1. i \in 1..k
    BY <1>4, <1>7
  <2>2. CASE j \in 1..k
    BY <2>1, <2>2, <1>1, <1>4, <1>7
  <2>3. CASE j = k + 1
    BY <2>1, <2>3, <1>1, <1>2, <1>4
  <2> QED
    BY <1>5, <2>2, <2>3
<1>8. ASSUME NEW p \in P, Ahead(p, r) PROVE \E i \in 1..Len(all) : all[i].at = p
  <2>1. k + 1 \in 1..Len(all) /\ \A i \in 1..k : i \in 1..Len(all)
    BY <1>4
  <2>2. CASE Ahead(p, q)
    <3>1. PICK i \in 1..k : told[i].at = p
      BY <2>2, <1>1
    <3> QED
      BY <3>1, <2>1, <1>4
  <2>3. CASE p = q
    BY <2>1, <2>3, <1>2, <1>4
  <2> QED
    BY <1>3, <1>8, <2>2, <2>3
<1>9. RowsTold(P, R, all, r)
  BY <1>4, <1>6, <1>7, <1>8 DEF RowsTold
<1>10. DamageTold(D, n, r)
  <2>1. { d \in D : Ahead(d, q) } = { d \in D : Ahead(d, r) }
    BY <1>3
  <2> QED
    BY <2>1 DEF Told, DamageTold
<1> QED
  BY <1>9, <1>10 DEF Told, all

LEMMA DamagePassed ==
  ASSUME NEW P, NEW R, NEW D, NEW told, NEW n, NEW q, NEW r \in Quads,
         IsFiniteSet(D), D \subseteq Quads,
         Told(P, R, D, told, n, q), Single(P, D, q, r), q \notin P, q \in D
  PROVE  Told(P, R, D, told, n + 1, r)
<1>1. /\ \A p \in P : Ahead(p, r) <=> Ahead(p, q)
      /\ \A d \in D : Ahead(d, r) <=> Ahead(d, q) \/ d = q
  BY DEF Single
<1>2. RowsTold(P, R, told, r)
  BY <1>1 DEF Told, RowsTold
<1>3. DamageTold(D, n + 1, r)
  <2> DEFINE A == { d \in D : Ahead(d, q) }
  <2>1. A \in SUBSET D /\ q \notin A
    BY QuadsAreOrdered
  <2>2. { d \in D : Ahead(d, r) } = A \cup {q}
    BY <1>1
  <2>3. IsFiniteSet(A)
    BY <2>1, FS_Subset
  <2>4. Cardinality(A \cup {q}) = Cardinality(A) + 1
    BY <2>1, <2>3, FS_AddElement
  <2>5. n = Cardinality(A)
    BY DEF Told, DamageTold
  <2> QED
    BY <2>2, <2>4, <2>5 DEF DamageTold
<1> QED
  BY <1>2, <1>3 DEF Told

\* What is told up to any place is the beginning of the whole listing; up to the end it is
\* the whole, and every damage is counted.
LEMMA ToldIsBeginning ==
  ASSUME NEW P, NEW R, NEW D, NEW told, NEW n, NEW q, P \subseteq Quads, IsFiniteSet(P),
         Told(P, R, D, told, n, q)
  PROVE  LET e == ListedBy(P, AheadIn(P))
         IN  /\ Len(told) \in Nat /\ Len(told) <= Cardinality(P)
             /\ \A i \in 1..Len(told) : told[i] = R[e[i]]
             /\ (\A p \in P \cup D : Ahead(p, q)) => Len(told) = Cardinality(P) /\ n = Cardinality(D)
<1> DEFINE k == Len(told)
           f == [i \in 1..k |-> told[i].at]
           B == { p \in P : Ahead(p, q) }
           e == ListedBy(P, AheadIn(P))
<1>1. /\ told \in Seq({ R[p] : p \in P }) /\ q \in Quads
      /\ \A i \in 1..k : told[i].at \in P /\ Ahead(told[i].at, q) /\ told[i] = R[told[i].at]
      /\ \A i, j \in 1..k : i < j => Ahead(told[i].at, told[j].at)
      /\ \A p \in P : Ahead(p, q) => \E i \in 1..k : told[i].at = p
  BY DEF Told, RowsTold
<1>2. k \in Nat
  BY <1>1, LenProperties
<1>3. Orders(AheadIn(P), P) /\ \A x, y \in P : <<x, y>> \in AheadIn(P) <=> Ahead(x, y)
  BY AheadOrders
<1> HIDE DEF k
<1>4. B \in SUBSET P /\ \A x \in B, y \in P : <<y, x>> \in AheadIn(P) => y \in B
  <2>1. \A x \in P : x \in Quads
    OBVIOUS
  <2> QED
    BY <1>1, <1>3, <2>1, QuadsAreOrdered
<1>5. Lists(f, k, B, AheadIn(P))
  <2>1. f \in [1..k -> B] /\ \A i \in 1..k : f[i] = told[i].at
    BY <1>1
  <2> HIDE DEF f
  <2>2. \A i, j \in 1..k : i < j => <<f[i], f[j]>> \in AheadIn(P)
    BY <1>1, <1>3, <2>1
  <2>3. \A x \in B : \E i \in 1..k : f[i] = x
    BY <1>1, <2>1
  <2> QED
    BY <1>2, <2>1, <2>2, <2>3 DEF Lists
<1>6. k <= Cardinality(P) /\ (\A i \in 1..k : f[i] = e[i]) /\ (B = P => k = Cardinality(P))
  <2> HIDE DEF f, B
  <2> QED
    BY <1>3, <1>4, <1>5, BeginningOfListing
<1>7. \A i \in 1..k : told[i] = R[e[i]]
  BY <1>1, <1>6
<1>8. ASSUME \A p \in P \cup D : Ahead(p, q) PROVE k = Cardinality(P) /\ n = Cardinality(D)
  <2>1. B = P /\ { d \in D : Ahead(d, q) } = D
    BY <1>8
  <2> QED
    BY <1>6, <2>1 DEF Told, DamageTold
<1> QED
  BY <1>2, <1>6, <1>7, <1>8 DEF k


-----------------------------------------------------------------------------
(* The archive: its files, their chunks and sub-chunks, and where the records *)
(* and the damage of it lie.                                                  *)

LEMMA TracesAreFiles ==
  ASSUME NEW t \in Trees
  PROVE  FindTracev3Files(t) \in Seq(TraceFiles)
<1> DEFINE files == { f \in t : ~f.double }
           upTo == { p \in files \X files :
                        \/ DirRank(p[1].dir) < DirRank(p[2].dir)
                        \/ DirRank(p[1].dir) = DirRank(p[2].dir) /\ p[1].path < p[2].path }
<1>1. /\ IsFiniteSet(files) /\ files \subseteq TraceFiles
      /\ \A f, g \in files : f.path = g.path => f = g
  <2>1. IsFiniteSet(t) /\ t \subseteq TraceFiles /\ \A f, g \in t : f.path = g.path => f = g
    BY TreesAssumption
  <2>2. files \in SUBSET t
    OBVIOUS
  <2>3. IsFiniteSet(files)
    BY <2>1, <2>2, FS_Subset
  <2> QED
    BY <2>1, <2>2, <2>3
<1>2. \A f \in files : DirRank(f.dir) \in Nat /\ f.path \in Nat
  BY <1>1 DEF TraceFiles, DirRank
<1>3. \A f, g \in files : <<f, g>> \in upTo <=>
        \/ DirRank(f.dir) < DirRank(g.dir)
        \/ DirRank(f.dir) = DirRank(g.dir) /\ f.path < g.path
  OBVIOUS
<1> HIDE DEF files, upTo
<1>4. Orders(upTo, files)
  <2>1. \A f, g \in files : f # g => f.path # g.path
    BY <1>1
  <2>2. \A f \in files : <<f, f>> \notin upTo
    BY <1>2, <1>3
  <2>3. \A f, g \in files : f # g => <<f, g>> \in upTo \/ <<g, f>> \in upTo
    BY <1>2, <1>3, <2>1
  <2>4. \A f, g, h \in files : <<f, g>> \in upTo /\ <<g, h>> \in upTo => <<f, h>> \in upTo
    BY <1>2, <1>3
  <2> QED
    BY <2>2, <2>3, <2>4 DEF Orders
<1>5. ListedBy(files, upTo) \in Seq(files)
  BY <1>1, <1>4, ListedListsAll
<1>6. ListedBy(files, upTo) \in Seq(TraceFiles)
  BY <1>1, <1>5, SeqMonotonic
<1> QED
  BY <1>6 DEF FindTracev3Files, files, upTo

LEMMA ChunksOfFiles ==
  ASSUME traces \in Seq(TraceFiles)
  PROVE  /\ FileCount \in Nat
         /\ \A f \in 1..FileCount :
              /\ Len(FileAt(f)) \in Nat /\ DOMAIN FileAt(f) = 1..Len(FileAt(f))
              /\ \A k \in 1..Len(FileAt(f)) : Chunk(f, k) \in ChunkRecords
<1>1. FileCount \in Nat /\ \A f \in 1..FileCount : traces[f] \in TraceFiles
  BY LenProperties, ElementOfSeq DEF FileCount
<1>2. \A f \in 1..FileCount : FileAt(f) \in Seq(ChunkRecords)
  BY <1>1 DEF FileAt, TraceFiles
<1>3. ASSUME NEW f \in 1..FileCount
      PROVE  /\ Len(FileAt(f)) \in Nat /\ DOMAIN FileAt(f) = 1..Len(FileAt(f))
             /\ \A k \in 1..Len(FileAt(f)) : Chunk(f, k) \in ChunkRecords
  <2>1. Len(FileAt(f)) \in Nat /\ DOMAIN FileAt(f) = 1..Len(FileAt(f))
    BY <1>2, LenProperties
  <2>2. \A k \in 1..Len(FileAt(f)) : FileAt(f)[k] \in ChunkRecords
    BY <1>2, ElementOfSeq
  <2> QED
    BY <2>1, <2>2 DEF Chunk
<1> QED
  BY <1>1, <1>3

LEMMA KindsOfChunks ==
  ASSUME NEW c \in ChunkRecords
  PROVE  /\ c.is \in {"header", "catalog", "chunkset", "other", "cut"} /\ c.whole \in BOOLEAN
         /\ c.is = "catalog" => c.procs \in Seq(ProcessRecords)
         /\ c.is = "chunkset" => c.subs \in Seq(SubRecords)
<1>1. CASE c \in [is : {"header"}, boot : STRING, whole : BOOLEAN]
  BY <1>1
<1>2. CASE c \in [is : {"catalog"}, whole : BOOLEAN, uuids : Seq(STRING), procs : Seq(ProcessRecords)]
  BY <1>2
<1>3. CASE c \in [is : {"chunkset"}, whole : {TRUE}, coding : STRING,
                  claim : {"fits", "cap", "ratio", "differs", "short"}, subs : Seq(SubRecords)]
  BY <1>3
<1>4. CASE c \in [is : {"other", "cut"}, whole : BOOLEAN]
  BY <1>4
<1> QED
  BY <1>1, <1>2, <1>3, <1>4 DEF ChunkRecords

\* The first and the last of some numbers.
LEMMA EndsOfNumbers ==
  ASSUME NEW n \in Nat, NEW S, S \subseteq 1..n, S # {}
  PROVE  /\ Min(S) \in S /\ \A x \in S : Min(S) <= x
         /\ Max(S) \in S /\ \A x \in S : x <= Max(S)
<1>1. IsFiniteSet(S) /\ S \subseteq Nat
  <2>1. IsFiniteSet(1..n)
    BY FS_Interval
  <2>2. IsFiniteSet(S)
    BY <2>1, FS_Subset
  <2> QED
    BY <2>2
<1>2. \E x \in S : \A y \in S : x =< y
  BY <1>1, LeastMember
<1>3. Min(S) \in S /\ \A y \in S : Min(S) =< y
  BY <1>2, Zenon DEF Min
<1> DEFINE T == { n - x : x \in S }
<1>4. T \subseteq 0..n /\ T # {}
  <2>1. \A x \in S : n - x \in 0..n
    OBVIOUS
  <2> QED
    BY <2>1
<1>5. IsFiniteSet(T) /\ T \subseteq Nat
  <2>1. IsFiniteSet(0..n)
    BY FS_Interval
  <2>2. IsFiniteSet(T)
    BY <1>4, <2>1, FS_Subset
  <2> QED
    BY <1>4, <2>2
<1>6. PICK u \in T : \A v \in T : u <= v
  <2> HIDE DEF T
  <2> QED
    BY <1>4, <1>5, LeastMember
<1>7. PICK x \in S : u = n - x
  BY <1>6
<1>8. \A y \in S : x >= y
  <2> TAKE y \in S
  <2>1. u <= n - y /\ y \in Nat /\ x \in Nat
    BY <1>1, <1>6
  <2> QED
    BY <1>7, <2>1
<1>9. \E z \in S : \A y \in S : z >= y
  BY <1>8
<1>10. Max(S) \in S /\ \A y \in S : Max(S) >= y
  BY <1>9, Zenon DEF Max
<1>11. \A y \in S : y <= Max(S)
  BY <1>1, <1>10
<1> QED
  BY <1>3, <1>10, <1>11

\* What comes first of a sequence, up to the numbers that end it.
LEMMA BeginningIsRead ==
  ASSUME NEW T, NEW s \in Seq(T), NEW m \in 0..Len(s)
  PROVE  /\ SubSeq(s, 1, m) \in Seq(T) /\ Len(SubSeq(s, 1, m)) = m
         /\ \A i \in 1..m : SubSeq(s, 1, m)[i] = s[i] /\ i \in DOMAIN s /\ s[i] \in T
<1>1. Len(s) \in Nat /\ DOMAIN s = 1..Len(s) /\ m \in Int /\ 1 \in Int
  BY LenProperties
<1>2. \A i \in 1..m : s[i] \in T /\ i \in DOMAIN s
  BY <1>1, ElementOfSeq
<1>3. /\ SubSeq(s, 1, m) \in Seq(T)
      /\ Len(SubSeq(s, 1, m)) = IF 1 <= m THEN m - 1 + 1 ELSE 0
      /\ \A i \in 1..(m - 1 + 1) : SubSeq(s, 1, m)[i] = s[1 + i - 1]
  BY <1>1, <1>2, SubSeqProperties
<1>4. (IF 1 <= m THEN m - 1 + 1 ELSE 0) = m /\ m - 1 + 1 = m
  OBVIOUS
<1>5. \A i \in 1..m : SubSeq(s, 1, m)[i] = s[i]
  BY <1>3, <1>4
<1> QED
  BY <1>2, <1>3, <1>4, <1>5

\* iter_subchunks hands over the sub-chunks before the one that is cut.
LEMMA SubChunksAreSubs ==
  ASSUME NEW c, c.subs \in Seq(SubRecords)
  PROVE  LET s == SubChunks(c)
         IN  /\ s \in Seq(SubRecords) /\ Len(s) \in Nat
             /\ \A i \in 1..Len(s) : s[i] = c.subs[i] /\ s[i] \in SubRecords /\ s[i].is # "cut"
             /\ \A i : (i \in DOMAIN c.subs /\ \A j \in 1..i : c.subs[j].is # "cut") <=> i \in 1..Len(s)
<1> DEFINE all == c.subs
           n == Len(all)
           cuts == { i \in DOMAIN all : all[i].is = "cut" }
           m == IF cuts = {} THEN n ELSE Min(cuts) - 1
           s == SubChunks(c)
<1>1. s = SubSeq(all, 1, m)
  BY DEF SubChunks
<1>2. n \in Nat /\ DOMAIN all = 1..n
  BY LenProperties
<1>3. /\ m \in 0..n /\ \A i \in 1..m : all[i].is # "cut"
      /\ m < n => m + 1 \in 1..n /\ all[m + 1].is = "cut"
  <2>1. CASE cuts = {}
    BY <1>2, <2>1
  <2>2. CASE cuts # {}
    <3>1. cuts \subseteq 1..n
      BY <1>2
    <3>2. Min(cuts) \in cuts /\ \A x \in cuts : Min(cuts) <= x
      <4> HIDE DEF cuts
      <4> QED
        BY <1>2, <2>2, <3>1, EndsOfNumbers
    <3>3. m = Min(cuts) - 1 /\ Min(cuts) \in 1..n
      BY <2>2, <3>1, <3>2
    <3>4. m \in 0..n /\ m + 1 = Min(cuts)
      BY <1>2, <3>3
    <3>5. \A i \in 1..m : i \in 1..n /\ ~(Min(cuts) <= i)
      BY <1>2, <3>3
    <3>6. \A i \in 1..m : all[i].is # "cut"
      BY <1>2, <3>2, <3>5
    <3> QED
      BY <3>2, <3>3, <3>4, <3>6
  <2> QED
    BY <2>1, <2>2
<1> HIDE DEF m, cuts, n
<1>4. /\ s \in Seq(SubRecords) /\ Len(s) = m
      /\ \A i \in 1..m : s[i] = all[i] /\ i \in DOMAIN all /\ all[i] \in SubRecords
  <2>1. m \in 0..Len(all)
    BY <1>3 DEF n
  <2> QED
    BY <1>1, <2>1, BeginningIsRead
<1> HIDE DEF s
<1>5. ASSUME NEW i, i \in DOMAIN all, \A j \in 1..i : all[j].is # "cut" PROVE i \in 1..m
  <2>1. i \in 1..n
    BY <1>2, <1>5
  <2>2. ~(m < i)
    <3> SUFFICES ASSUME m < i PROVE FALSE
      OBVIOUS
    <3>1. m < n /\ m + 1 \in 1..i
      BY <1>2, <1>3, <2>1
    <3> QED
      BY <1>3, <1>5, <3>1
  <2> QED
    BY <1>2, <1>3, <2>1, <2>2
<1>6. ASSUME NEW i \in 1..m PROVE i \in DOMAIN all /\ \A j \in 1..i : all[j].is # "cut"
  <2>1. \A j \in 1..i : j \in 1..m
    BY <1>2, <1>3
  <2> QED
    BY <1>3, <1>4, <2>1
<1>7. /\ s \in Seq(SubRecords) /\ Len(s) \in Nat
      /\ \A i \in 1..Len(s) : s[i] = all[i] /\ s[i] \in SubRecords /\ s[i].is # "cut"
  BY <1>2, <1>3, <1>4
<1> QED
  BY <1>4, <1>5, <1>6, <1>7 DEF s

\* _parse_firehose_entries hands over the entries of the block.
LEMMA EntriesAreInBlock ==
  ASSUME NEW sub, sub.entries \in Seq(EntryRecords)
  PROVE  LET es == Entries(sub)
         IN  /\ es \in Seq(EntryRecords) /\ Len(es) \in Nat
             /\ \A i \in 1..Len(es) : es[i] = sub.entries[i] /\ es[i] \in EntryRecords
             /\ InBlock(sub.entries) = 1..Len(es)
<1> DEFINE all == sub.entries
           n == Len(all)
           stops == { i \in DOMAIN all : all[i].act \in {"truncated", "alien"} }
           m == CASE stops = {}                                      -> n
                  [] stops # {} /\ all[Min(stops)].act = "truncated" -> Min(stops) - 1
                  [] OTHER                                           -> Min(stops)
           es == Entries(sub)
<1>1. es = SubSeq(all, 1, m)
  BY DEF Entries
<1>2. n \in Nat /\ DOMAIN all = 1..n
  BY LenProperties, SMTT(30)
<1>3. m \in 0..n /\ \A i \in 1..n : i \in 1..m <=>
        all[i].act # "truncated" /\ \A j \in 1 .. i - 1 : all[j].act \notin {"alien", "truncated"}
  <2>1. CASE stops = {}
    <3>1. m = n /\ \A i \in 1..n : all[i].act \notin {"alien", "truncated"}
      BY <1>2, <2>1
    <3>2. \A i \in 1..n : \A j \in 1 .. i - 1 : j \in 1..n
      BY <1>2
    <3> HIDE DEF m
    <3> QED
      BY <1>2, <3>1, <3>2
  <2>2. CASE stops # {}
    <3> DEFINE l == Min(stops)
    <3>1. l \in stops /\ \A x \in stops : l <= x
      <4>1. stops \subseteq 1..n
        BY <1>2
      <4> HIDE DEF stops
      <4> QED
        BY <1>2, <2>2, <4>1, EndsOfNumbers
    <3>2. l \in 1..n /\ all[l].act \in {"truncated", "alien"}
      BY <1>2, <3>1
    <3>3. \A i \in 1..n : i < l => all[i].act \notin {"truncated", "alien"}
      <4>1. \A i \in 1..n : i < l => ~(l <= i)
        BY <3>2
      <4> QED
        BY <1>2, <3>1, <4>1
    <3>4. m = IF all[l].act = "truncated" THEN l - 1 ELSE l
      BY <2>2
    <3> HIDE DEF l, m, stops
    <3>5. m \in 0..n
      BY <1>2, <3>2, <3>4
    <3>6. ASSUME NEW i \in 1..n, i \in 1..m
          PROVE  all[i].act # "truncated" /\ \A j \in 1 .. i - 1 : all[j].act \notin {"alien", "truncated"}
      <4>1. \A j \in 1 .. i - 1 : j \in 1..n /\ j < l
        BY <1>2, <3>2, <3>4, <3>5, <3>6
      <4>2. i < l \/ (i = l /\ all[l].act # "truncated")
        BY <1>2, <3>2, <3>4, <3>6
      <4> QED
        BY <3>3, <4>1, <4>2
    <3>7. ASSUME NEW i \in 1..n, i \notin 1..m, all[i].act # "truncated",
                 \A j \in 1 .. i - 1 : all[j].act \notin {"alien", "truncated"}
          PROVE  FALSE
      <4>1. l <= i
        BY <1>2, <3>2, <3>4, <3>5, <3>7
      <4>2. l = i
        <5> SUFFICES ASSUME l # i PROVE FALSE
          OBVIOUS
        <5>1. l \in 1 .. i - 1
          BY <1>2, <3>2, <4>1
        <5> QED
          BY <3>2, <3>7, <5>1
      <4>3. all[l].act # "truncated"
        BY <3>7, <4>2
      <4>4. i \in 1..m
        BY <3>2, <3>4, <4>2, <4>3
      <4> QED
        BY <3>7, <4>4
    <3> QED
      BY <3>5, <3>6, <3>7
  <2> QED
    BY <2>1, <2>2
<1> HIDE DEF m, stops, n
<1>4. /\ es \in Seq(EntryRecords) /\ Len(es) = m
      /\ \A i \in 1..m : es[i] = all[i] /\ i \in DOMAIN all /\ all[i] \in EntryRecords
  <2>1. m \in 0..Len(all)
    BY <1>3 DEF n
  <2> QED
    BY <1>1, <2>1, BeginningIsRead
<1> HIDE DEF es
<1>5. InBlock(all) = 1..m
  <2>1. \A i : i \in InBlock(all) <=> i \in 1..n /\ all[i].act # "truncated"
                                      /\ \A j \in 1 .. i - 1 : all[j].act \notin {"alien", "truncated"}
    BY <1>2 DEF InBlock
  <2>2. \A i \in 1..m : i \in 1..n
    BY <1>2, <1>3
  <2>3. \A i : i \in InBlock(all) <=> i \in 1..m
    BY <1>3, <2>1, <2>2
  <2> QED
    BY <2>3
<1>6. /\ es \in Seq(EntryRecords) /\ Len(es) \in Nat
      /\ \A i \in 1..Len(es) : es[i] = all[i] /\ es[i] \in EntryRecords
  BY <1>2, <1>3, <1>4
<1> QED
  BY <1>4, <1>5, <1>6 DEF es


LEMMA KindsOfSubs ==
  ASSUME NEW s \in SubRecords
  PROVE  /\ s.is \in {"firehose", "statedump", "simpledump", "oversize", "unknown", "padding", "cut"}
         /\ s.whole \in BOOLEAN /\ s.key \in Ids /\ s.ref \in Nat /\ s.entries \in Seq(EntryRecords)
BY DEF SubRecords

\* The slots of a sub-chunk: the records of it and the damage of it.
LEMMA SlotsOfSub ==
  ASSUME NEW s \in SubRecords
  PROVE  LET n == Len(Entries(s))
         IN  /\ n \in Nat /\ Len(s.entries) \in Nat
             /\ Records(s) \subseteq 0..(Len(s.entries) + 1) /\ Damaged(s) \subseteq 0..(Len(s.entries) + 1)
             /\ s.is \in Dumps /\ s.whole => Records(s) = {1} /\ Damaged(s) = {}
             /\ s.is \in Dumps \cup {"firehose"} /\ ~s.whole => Records(s) = {} /\ Damaged(s) = {0}
             /\ s.is \notin Dumps \cup {"firehose"} => Records(s) = {} /\ Damaged(s) = {}
             /\ s.is = "firehose" /\ s.whole =>
                  \A i : /\ i \in Records(s) <=> i \in 1..n /\ s.entries[i].whole
                         /\ i \in Damaged(s) <=> i \in 1..n /\ ~s.entries[i].whole
<1> DEFINE n == Len(Entries(s))
           m == Len(s.entries)
<1>1. s.entries \in Seq(EntryRecords) /\ s.whole \in BOOLEAN
  BY KindsOfSubs
<1>2. n \in Nat /\ InBlock(s.entries) = 1..n
  BY <1>1, EntriesAreInBlock
<1>3. m \in Nat /\ DOMAIN s.entries = 1..m
  BY <1>1, LenProperties
<1>4. \A i \in 1..n : i \in 0..(m + 1)
  <2>1. \A i \in 1..n : i \in 1..m
    BY <1>2, <1>3 DEF InBlock
  <2> QED
    BY <1>3, <2>1
<1> HIDE DEF n, m
<1>5. "firehose" \notin Dumps
  BY DEF Dumps
<1>6. CASE s.is \in Dumps /\ s.whole
  <2>1. Records(s) = {1} /\ Damaged(s) = {}
    BY <1>5, <1>6 DEF Records, Damaged
  <2>2. 1 \in 0..(m + 1)
    BY <1>3
  <2> QED
    BY <1>2, <1>3, <1>5, <1>6, <2>1, <2>2 DEF n, m
<1>7. CASE s.is \in Dumps \cup {"firehose"} /\ ~s.whole
  <2>1. Records(s) = {} /\ Damaged(s) = {0}
    BY <1>5, <1>7 DEF Records, Damaged
  <2>2. 0 \in 0..(m + 1)
    BY <1>3
  <2> QED
    BY <1>2, <1>3, <1>7, <2>1, <2>2 DEF n, m
<1>8. CASE s.is \notin Dumps \cup {"firehose"}
  <2>1. Records(s) = {} /\ Damaged(s) = {}
    BY <1>8 DEF Records, Damaged
  <2> QED
    BY <1>2, <1>3, <1>8, <2>1 DEF n, m
<1>9. CASE s.is = "firehose" /\ s.whole
  <2>1. /\ Records(s) = { i \in InBlock(s.entries) : s.entries[i].whole }
        /\ Damaged(s) = { i \in InBlock(s.entries) : ~s.entries[i].whole }
    BY <1>5, <1>9 DEF Records, Damaged
  <2>2. \A i : /\ i \in Records(s) <=> i \in 1..n /\ s.entries[i].whole
               /\ i \in Damaged(s) <=> i \in 1..n /\ ~s.entries[i].whole
    BY <1>2, <2>1
  <2>3. Records(s) \subseteq 0..(m + 1) /\ Damaged(s) \subseteq 0..(m + 1)
    BY <1>4, <2>2
  <2> QED
    BY <1>2, <1>3, <1>5, <1>9, <2>2, <2>3 DEF n, m
<1> QED
  BY <1>1, <1>6, <1>7, <1>8, <1>9

LEMMA WhereSubsAre ==
  \A p : p \in AllSubs <=> \E f \in 1..FileCount : \E k \in Sets(f) : \E s \in Subs(f, k) : p = <<f, k, s>>
BY DEF AllSubs

LEMMA WhereRecordsAre ==
  \A p : p \in Places <=>
    \E f \in 1..FileCount : \E k \in Sets(f) : \E s \in Subs(f, k) :
      \E i \in Records(Chunk(f, k).subs[s]) : p = <<f, k, s, i>>
<1>1. \A p : p \in Places <=> \E a \in AllSubs : \E i \in Records(SubAt(a)) : p = Within(a, i)
  BY DEF Places
<1>2. \A f, k, s, i : /\ SubAt(<<f, k, s>>) = Chunk(f, k).subs[s]
                      /\ Within(<<f, k, s>>, i) = <<f, k, s, i>>
  BY DEF SubAt, Within
<1>3. ASSUME NEW p, NEW f \in 1..FileCount, NEW k \in Sets(f), NEW s \in Subs(f, k),
             NEW i \in Records(Chunk(f, k).subs[s]), p = <<f, k, s, i>>
      PROVE  p \in Places
  <2>1. <<f, k, s>> \in AllSubs
    BY WhereSubsAre
  <2>2. i \in Records(SubAt(<<f, k, s>>)) /\ p = Within(<<f, k, s>>, i)
    BY <1>2, <1>3
  <2> QED
    BY <1>1, <2>1, <2>2
<1>4. ASSUME NEW p, NEW a \in AllSubs, NEW i \in Records(SubAt(a)), p = Within(a, i)
      PROVE  \E f \in 1..FileCount : \E k \in Sets(f) : \E s \in Subs(f, k) :
               \E j \in Records(Chunk(f, k).subs[s]) : p = <<f, k, s, j>>
  <2>1. PICK f \in 1..FileCount : \E k \in Sets(f) : \E s \in Subs(f, k) : a = <<f, k, s>>
    BY WhereSubsAre
  <2>2. PICK k \in Sets(f) : \E s \in Subs(f, k) : a = <<f, k, s>>
    BY <2>1
  <2>3. PICK s \in Subs(f, k) : a = <<f, k, s>>
    BY <2>2
  <2>4. i \in Records(Chunk(f, k).subs[s]) /\ p = <<f, k, s, i>>
    BY <1>2, <1>4, <2>3
  <2> QED
    BY <2>4
<1> QED
  BY <1>1, <1>3, <1>4, Zenon

LEMMA WhereDamageIs ==
  \A p : p \in Damages <=>
    \/ \E f \in 1..FileCount : \E k \in DamagedChunks(f) : p = <<f, k, 0, 0>>
    \/ \E f \in 1..FileCount : \E k \in Sets(f) : \E s \in Subs(f, k) :
         \E i \in Damaged(Chunk(f, k).subs[s]) : p = <<f, k, s, i>>
<1>1. \A p : p \in Damages <=>
        \/ \E f \in 1..FileCount : \E k \in DamagedChunks(f) : p = <<f, k, 0, 0>>
        \/ \E a \in AllSubs : \E i \in Damaged(SubAt(a)) : p = Within(a, i)
  <2> DEFINE X == UNION { { <<f, k, 0, 0>> : k \in DamagedChunks(f) } : f \in 1 .. FileCount }
             Y == UNION { { Within(p, i) : i \in Damaged(SubAt(p)) } : p \in AllSubs }
  <2>1. \A p : p \in X <=> \E f \in 1..FileCount : \E k \in DamagedChunks(f) : p = <<f, k, 0, 0>>
    OBVIOUS
  <2>2. \A p : p \in Y <=> \E a \in AllSubs : \E i \in Damaged(SubAt(a)) : p = Within(a, i)
    OBVIOUS
  <2>3. Damages = X \cup Y
    BY Zenon DEF Damages
  <2> HIDE DEF X, Y
  <2> QED
    BY <2>1, <2>2, <2>3, Zenon
<1>2. \A f, k, s, i : /\ SubAt(<<f, k, s>>) = Chunk(f, k).subs[s]
                      /\ Within(<<f, k, s>>, i) = <<f, k, s, i>>
  BY DEF SubAt, Within
<1>3. ASSUME NEW p, NEW f \in 1..FileCount, NEW k \in Sets(f), NEW s \in Subs(f, k),
             NEW i \in Damaged(Chunk(f, k).subs[s]), p = <<f, k, s, i>>
      PROVE  \E a \in AllSubs : \E j \in Damaged(SubAt(a)) : p = Within(a, j)
  <2>1. <<f, k, s>> \in AllSubs
    BY WhereSubsAre
  <2>2. i \in Damaged(SubAt(<<f, k, s>>)) /\ p = Within(<<f, k, s>>, i)
    BY <1>2, <1>3
  <2> QED
    BY <2>1, <2>2
<1>4. ASSUME NEW p, NEW a \in AllSubs, NEW i \in Damaged(SubAt(a)), p = Within(a, i)
      PROVE  \E f \in 1..FileCount : \E k \in Sets(f) : \E s \in Subs(f, k) :
               \E j \in Damaged(Chunk(f, k).subs[s]) : p = <<f, k, s, j>>
  <2>1. PICK f \in 1..FileCount : \E k \in Sets(f) : \E s \in Subs(f, k) : a = <<f, k, s>>
    BY WhereSubsAre
  <2>2. PICK k \in Sets(f) : \E s \in Subs(f, k) : a = <<f, k, s>>
    BY <2>1
  <2>3. PICK s \in Subs(f, k) : a = <<f, k, s>>
    BY <2>2
  <2>4. i \in Damaged(Chunk(f, k).subs[s]) /\ p = <<f, k, s, i>>
    BY <1>2, <1>4, <2>3
  <2> QED
    BY <2>4
<1> QED
  BY <1>1, <1>3, <1>4, Zenon

\* The sub-chunks of a chunkset that can be read are those iter_subchunks hands over.
LEMMA SetsAreRead ==
  ASSUME traces \in Seq(TraceFiles), NEW f \in 1..FileCount, NEW k \in Sets(f)
  PROVE  LET s == SubChunks(Chunk(f, k))
         IN  /\ k \in 1..Len(FileAt(f)) /\ k \in Nat /\ k \in Reached(f) /\ k \notin DamagedChunks(f)
             /\ Len(s) \in Nat /\ Subs(f, k) = 1..Len(s)
             /\ \A i \in 1..Len(s) : s[i] = Chunk(f, k).subs[i] /\ s[i] \in SubRecords /\ s[i].is # "cut"
<1> DEFINE c == Chunk(f, k)
           s == SubChunks(c)
<1>1. k \in Reached(f) /\ c.is = "chunkset" /\ Decompress(c) = "ok"
  BY DEF Sets
<1>2. k \in 1..Len(FileAt(f)) /\ k \in Nat
  BY <1>1, ChunksOfFiles DEF Reached
<1>3. c.subs \in Seq(SubRecords)
  BY <1>1, <1>2, ChunksOfFiles, KindsOfChunks
<1>4. /\ Len(s) \in Nat
      /\ \A i \in 1..Len(s) : s[i] = c.subs[i] /\ s[i] \in SubRecords /\ s[i].is # "cut"
      /\ \A i : (i \in DOMAIN c.subs /\ \A j \in 1..i : c.subs[j].is # "cut") <=> i \in 1..Len(s)
  BY <1>3, SubChunksAreSubs
<1>5. \A i : i \in Subs(f, k) <=> i \in 1..Len(s)
  BY <1>4 DEF Subs
<1>6. k \notin DamagedChunks(f)
  BY <1>1 DEF DamagedChunks
<1> QED
  BY <1>1, <1>2, <1>4, <1>5, <1>6

\* Where a record or a damage can be, with what is there.
LEMMA MarksAreInside ==
  ASSUME traces \in Seq(TraceFiles), NEW p \in Places \cup Damages
  PROVE  /\ p \in Quads /\ p[1] \in 1..FileCount /\ p[2] \in Reached(p[1])
         /\ p[2] \in 1..Len(FileAt(p[1]))
         /\ \/ p[3] = 0 /\ p[4] = 0 /\ p[2] \in DamagedChunks(p[1])
            \/ /\ p[2] \in Sets(p[1]) /\ p[3] \in 1..Len(SubChunks(Chunk(p[1], p[2])))
               /\ p[4] \in Records(SubAt(p)) \cup Damaged(SubAt(p))
<1>1. CASE \E f \in 1..FileCount : \E k \in DamagedChunks(f) : p = <<f, k, 0, 0>>
  <2>0. PICK f \in 1..FileCount : \E k \in DamagedChunks(f) : p = <<f, k, 0, 0>>
    BY <1>1
  <2>1. PICK k \in DamagedChunks(f) : p = <<f, k, 0, 0>>
    BY <2>0
  <2>2. k \in Reached(f) /\ f \in Nat
    BY ChunksOfFiles DEF DamagedChunks
  <2>3. k \in 1..Len(FileAt(f)) /\ k \in Nat
    BY <2>2, ChunksOfFiles DEF Reached
  <2>4. p[1] = f /\ p[2] = k /\ p[3] = 0 /\ p[4] = 0 /\ p \in Quads
    BY <2>1, <2>2, <2>3 DEF Quads
  <2> QED
    BY <2>2, <2>3, <2>4
<1>2. CASE \E f \in 1..FileCount : \E k \in Sets(f) : \E s \in Subs(f, k) :
             \E i \in Records(Chunk(f, k).subs[s]) \cup Damaged(Chunk(f, k).subs[s]) : p = <<f, k, s, i>>
  <2>a. PICK f \in 1..FileCount : \E k \in Sets(f) : \E s \in Subs(f, k) :
               \E i \in Records(Chunk(f, k).subs[s]) \cup Damaged(Chunk(f, k).subs[s]) : p = <<f, k, s, i>>
    BY <1>2
  <2>b. PICK k \in Sets(f) : \E s \in Subs(f, k) :
               \E i \in Records(Chunk(f, k).subs[s]) \cup Damaged(Chunk(f, k).subs[s]) : p = <<f, k, s, i>>
    BY <2>a
  <2>c. PICK s \in Subs(f, k) :
               \E i \in Records(Chunk(f, k).subs[s]) \cup Damaged(Chunk(f, k).subs[s]) : p = <<f, k, s, i>>
    BY <2>b
  <2>1. PICK i \in Records(Chunk(f, k).subs[s]) \cup Damaged(Chunk(f, k).subs[s]) : p = <<f, k, s, i>>
    BY <2>c
  <2>2. /\ k \in Reached(f) /\ k \in Nat /\ k \in 1..Len(FileAt(f)) /\ f \in Nat
        /\ s \in 1..Len(SubChunks(Chunk(f, k))) /\ s \in Nat
        /\ Chunk(f, k).subs[s] \in SubRecords
    BY SetsAreRead, ChunksOfFiles
  <2>3. i \in Nat
    <3>1. i \in 0..(Len(Chunk(f, k).subs[s].entries) + 1) /\ Len(Chunk(f, k).subs[s].entries) \in Nat
      BY <2>2, SlotsOfSub
    <3> QED
      BY <3>1
  <2>4. p[1] = f /\ p[2] = k /\ p[3] = s /\ p[4] = i /\ p \in Quads
    BY <2>1, <2>2, <2>3 DEF Quads
  <2>5. SubAt(p) = Chunk(f, k).subs[s]
    BY <2>4 DEF SubAt
  <2> QED
    BY <2>1, <2>2, <2>4, <2>5
<1> QED
  BY <1>1, <1>2, WhereRecordsAre, WhereDamageIs

\* What is at a slot of a sub-chunk, and at that of a chunk.
LEMMA MarksAtSlots ==
  ASSUME traces \in Seq(TraceFiles), NEW f \in 1..FileCount, NEW k, NEW s, NEW i
  PROVE  /\ k \in Sets(f) /\ s \in 1..Len(SubChunks(Chunk(f, k))) =>
              /\ <<f, k, s, i>> \in Places <=> i \in Records(Chunk(f, k).subs[s])
              /\ <<f, k, s, i>> \in Damages <=> i \in Damaged(Chunk(f, k).subs[s])
         /\ <<f, k, 0, 0>> \notin Places
         /\ k \in DamagedChunks(f) => <<f, k, 0, 0>> \in Damages
<1>1. ASSUME k \in Sets(f), s \in 1..Len(SubChunks(Chunk(f, k)))
      PROVE  /\ <<f, k, s, i>> \in Places <=> i \in Records(Chunk(f, k).subs[s])
             /\ <<f, k, s, i>> \in Damages <=> i \in Damaged(Chunk(f, k).subs[s])
  <2>1. s \in Subs(f, k) /\ s # 0
    BY <1>1, SetsAreRead
  <2>2. \A g, l, t, j : <<f, k, s, i>> = <<g, l, t, j>> => f = g /\ k = l /\ s = t /\ i = j
    OBVIOUS
  <2>3. <<f, k, s, i>> \in Places <=> i \in Records(Chunk(f, k).subs[s])
    BY <1>1, <2>1, <2>2, WhereRecordsAre
  <2>4. <<f, k, s, i>> \in Damages <=> i \in Damaged(Chunk(f, k).subs[s])
    BY <1>1, <2>1, <2>2, WhereDamageIs
  <2> QED
    BY <2>3, <2>4
<1>2. <<f, k, 0, 0>> \notin Places
  <2> SUFFICES ASSUME <<f, k, 0, 0>> \in Places PROVE FALSE
    OBVIOUS
  <2>0. PICK g \in 1..FileCount : \E l \in Sets(g) : \E t \in Subs(g, l) :
               \E j \in Records(Chunk(g, l).subs[t]) : <<f, k, 0, 0>> = <<g, l, t, j>>
    BY WhereRecordsAre
  <2>1. PICK l \in Sets(g) : \E t \in Subs(g, l) :
               \E j \in Records(Chunk(g, l).subs[t]) : <<f, k, 0, 0>> = <<g, l, t, j>>
    BY <2>0
  <2>3. PICK t \in Subs(g, l) : \E j \in Records(Chunk(g, l).subs[t]) : <<f, k, 0, 0>> = <<g, l, t, j>>
    BY <2>1
  <2>2. t \in 1..Len(SubChunks(Chunk(g, l))) /\ t = 0
    BY <2>3, SetsAreRead
  <2> QED
    BY <2>2
<1>3. k \in DamagedChunks(f) => <<f, k, 0, 0>> \in Damages
  BY WhereDamageIs
<1> QED
  BY <1>1, <1>2, <1>3

SubSlots(f, k, s) == { <<f, k, s, i>> : i \in 0..(Len(Chunk(f, k).subs[s].entries) + 1) }
ChunkSlots(f, k) ==
  {<<f, k, 0, 0>>} \cup (IF k \in Sets(f)
                         THEN UNION { SubSlots(f, k, s) : s \in 1..Len(SubChunks(Chunk(f, k))) } ELSE {})
FileSlots(f) == UNION { ChunkSlots(f, k) : k \in 1..Len(FileAt(f)) }

LEMMA MarksAreFinite ==
  ASSUME traces \in Seq(TraceFiles)
  PROVE  IsFiniteSet(Places) /\ IsFiniteSet(Damages)
<1>1. ASSUME NEW f \in 1..FileCount, NEW k \in Sets(f), NEW s \in 1..Len(SubChunks(Chunk(f, k)))
      PROVE  IsFiniteSet(SubSlots(f, k, s))
  <2> DEFINE m == Len(Chunk(f, k).subs[s].entries) + 1
             S == SubSlots(f, k, s)
             g == [i \in 0..m |-> <<f, k, s, i>>]
  <2>1. m \in Nat
    BY SetsAreRead, SlotsOfSub
  <2>2. S = { <<f, k, s, i>> : i \in 0..m }
    BY DEF SubSlots
  <2> HIDE DEF m, S
  <2>3. g \in [0..m -> S] /\ \A x \in S : \E i \in 0..m : g[i] = x
    BY <2>2
  <2>4. IsFiniteSet(0..m)
    BY <2>1, FS_Interval
  <2> HIDE DEF g
  <2>5. g \in Surjection(0..m, S)
    BY <2>3 DEF Surjection
  <2> QED
    BY <2>4, <2>5, FS_Surjection DEF S
<1>2. ASSUME NEW f \in 1..FileCount, NEW k \in 1..Len(FileAt(f)) PROVE IsFiniteSet(ChunkSlots(f, k))
  <2>1. IsFiniteSet({<<f, k, 0, 0>>}) /\ IsFiniteSet({})
    BY FS_Singleton, FS_EmptySet
  <2>2. CASE k \notin Sets(f)
    <3>1. ChunkSlots(f, k) = {<<f, k, 0, 0>>}
      BY <2>2 DEF ChunkSlots
    <3> QED
      BY <2>1, <3>1
  <2>3. CASE k \in Sets(f)
    <3> DEFINE n == Len(SubChunks(Chunk(f, k)))
               F == [s \in 1..n |-> SubSlots(f, k, s)]
    <3>1. n \in Nat
      BY <2>3, SetsAreRead
    <3>2. \A s \in 1..n : F[s] = SubSlots(f, k, s) /\ IsFiniteSet(F[s])
      BY <1>1, <2>3
    <3>3. UNION { F[s] : s \in 1..n } = UNION { SubSlots(f, k, s) : s \in 1..n }
      BY <3>2
    <3>4. ChunkSlots(f, k) = {<<f, k, 0, 0>>} \cup UNION { SubSlots(f, k, s) : s \in 1..n }
      BY <2>3 DEF ChunkSlots
    <3> HIDE DEF F, n
    <3>5. IsFiniteSet(UNION { F[s] : s \in 1..n })
      BY <3>1, <3>2, UnionUpTo
    <3> DEFINE U == UNION { F[s] : s \in 1..n }
    <3>6. ChunkSlots(f, k) = {<<f, k, 0, 0>>} \cup U
      BY <3>3, <3>4
    <3> HIDE DEF U
    <3>7. IsFiniteSet(U)
      BY <3>5 DEF U
    <3> QED
      BY <2>1, <3>6, <3>7, FS_Union
  <2> QED
    BY <2>2, <2>3
<1>3. ASSUME NEW f \in 1..FileCount PROVE IsFiniteSet(FileSlots(f))
  <2> DEFINE n == Len(FileAt(f))
             F == [k \in 1..n |-> ChunkSlots(f, k)]
  <2>1. n \in Nat
    BY ChunksOfFiles
  <2>2. \A k \in 1..n : F[k] = ChunkSlots(f, k) /\ IsFiniteSet(F[k])
    BY <1>2
  <2>3. UNION { F[k] : k \in 1..n } = FileSlots(f)
    BY <2>2 DEF FileSlots
  <2> HIDE DEF F, n
  <2>4. IsFiniteSet(UNION { F[k] : k \in 1..n })
    BY <2>1, <2>2, UnionUpTo
  <2> QED
    BY <2>3, <2>4
<1> DEFINE F == [f \in 1..FileCount |-> FileSlots(f)]
           All == UNION { F[f] : f \in 1..FileCount }
<1>4. IsFiniteSet(All)
  <2>1. FileCount \in Nat /\ \A f \in 1..FileCount : IsFiniteSet(F[f])
    BY <1>3, ChunksOfFiles
  <2> HIDE DEF F
  <2> QED
    BY <2>1, UnionUpTo
<1>5. \A f \in 1..FileCount : \A x \in FileSlots(f) : x \in All
  OBVIOUS
<1>6. ASSUME NEW p \in Places \cup Damages PROVE p \in All
  <2>1. /\ p \in Quads /\ p[1] \in 1..FileCount /\ p[2] \in 1..Len(FileAt(p[1]))
        /\ \/ p[3] = 0 /\ p[4] = 0
           \/ /\ p[2] \in Sets(p[1]) /\ p[3] \in 1..Len(SubChunks(Chunk(p[1], p[2])))
              /\ p[4] \in Records(SubAt(p)) \cup Damaged(SubAt(p))
    BY MarksAreInside
  <2>2. p = <<p[1], p[2], p[3], p[4]>>
    BY <2>1, QuadsAreOrdered
  <2>3. p \in ChunkSlots(p[1], p[2])
    <3>1. CASE p[3] = 0 /\ p[4] = 0
      BY <2>2, <3>1 DEF ChunkSlots
    <3>2. CASE /\ p[2] \in Sets(p[1]) /\ p[3] \in 1..Len(SubChunks(Chunk(p[1], p[2])))
               /\ p[4] \in Records(SubAt(p)) \cup Damaged(SubAt(p))
      <4>1. SubAt(p) \in SubRecords
        BY <2>1, <3>2, SetsAreRead DEF SubAt
      <4>2. p[4] \in 0..(Len(SubAt(p).entries) + 1)
        BY <3>2, <4>1, SlotsOfSub
      <4>3. <<p[1], p[2], p[3], p[4]>> \in SubSlots(p[1], p[2], p[3])
        BY <4>2 DEF SubSlots, SubAt
      <4> QED
        BY <2>2, <3>2, <4>3 DEF ChunkSlots
    <3> QED
      BY <2>1, <3>1, <3>2
  <2>4. p \in FileSlots(p[1])
    BY <2>1, <2>3 DEF FileSlots
  <2> QED
    BY <1>5, <2>1, <2>4
<1> HIDE DEF All
<1>7. Places \in SUBSET All /\ Damages \in SUBSET All
  BY <1>6
<1> QED
  BY <1>4, <1>7, FS_Subset


-----------------------------------------------------------------------------
(* The rows: what the parse pass builds from a record is the row expected of   *)
(* it, under the catalog and the boot in force.                                *)

RowTable == [p \in Places |-> ExpectedRow(p)]
RowSet   == { RowTable[p] : p \in Places }

LEMMA RowsAreOfPlaces ==
  /\ \A p : ExpectedRow(p).at = p
  /\ \A p \in Places : RowTable[p] = ExpectedRow(p) /\ RowTable[p].at = p /\ ExpectedRow(p) \in RowSet
<1>1. \A p : ExpectedRow(p).at = p
  BY DEF ExpectedRow, RowOf
<1>2. \A p \in Places : RowTable[p] = ExpectedRow(p)
  BY DEF RowTable
<1> QED
  BY <1>1, <1>2 DEF RowSet

\* The process a catalog has under a key is the last it lists with it.
LEMMA CatalogAnswers ==
  ASSUME NEW cat, NEW key
  PROVE  LET listed == { i \in DOMAIN cat.procs : cat.procs[i].key = key }
         IN  /\ HasProcess(ParseCatalog(cat), key) <=> listed # {}
             /\ listed # {} => ParseCatalog(cat)[key] = ParseProcess(cat.procs[Max(listed)], cat.uuids)
<1> DEFINE listed == { i \in DOMAIN cat.procs : cat.procs[i].key = key }
           keys == { cat.procs[i].key : i \in DOMAIN cat.procs }
<1>1. DOMAIN ParseCatalog(cat) = keys
  BY DEF ParseCatalog
<1>2. key \in keys <=> listed # {}
  OBVIOUS
<1>3. key \in keys => ParseCatalog(cat)[key] = ParseProcess(cat.procs[Max(listed)], cat.uuids)
  BY DEF ParseCatalog
<1> QED
  BY <1>1, <1>2, <1>3 DEF HasProcess

\* Each reference has the newest text of the archive.
AllGathered ==
  \A key, ref :
    /\ <<key, ref>> \in DOMAIN oversize <=> Oversized(key, ref) # {}
    /\ <<key, ref>> \in DOMAIN oversize =>
         oversize[<<key, ref>>] = SubAt(NewestOf(Oversized(key, ref))).text

\* The catalog and the boot of the parse pass are those in force at the chunk.
InForce(f, k) ==
  /\ catalog = IF Preceding(f, k, "catalog") = {} THEN <<>> ELSE << ParseCatalog(CatalogIn(f, k)) >>
  /\ bootUuid = BootIn(f, k)

LEMMA FirehoseRowsAreExpected ==
  ASSUME NEW f, NEW k, NEW s, NEW i, AllGathered, InForce(f, k), Preceding(f, k, "catalog") # {},
         Chunk(f, k).subs[s].is = "firehose"
  PROVE  FirehoseRow(Chunk(f, k).subs[s].entries[i], Chunk(f, k).subs[s], <<f, k, s, i>>)
           = ExpectedRow(<<f, k, s, i>>)
<1> DEFINE sub == Chunk(f, k).subs[s]
           e   == sub.entries[i]
           p   == <<f, k, s, i>>
           cat == CatalogIn(f, k)
           pc  == ParseCatalog(cat)
           listed == { j \in DOMAIN cat.procs : cat.procs[j].key = sub.key }
           proc == cat.procs[Max(listed)]
           of == IF e.act \in {"log", "signpost"} THEN e.sub ELSE 0
<1>1. catalog[1] = pc /\ bootUuid = BootIn(f, k)
  BY DEF InForce
<1>2. SubAt(p) = sub /\ p[1] = f /\ p[2] = k /\ p[4] = i
  BY DEF SubAt
<1>3. ExpectedRow(p) = RowOf(p, sub, cat, BootIn(f, k), TextAt(p))
  BY <1>2 DEF ExpectedRow
<1>4. MessageOf(e, sub.key) = TextAt(p)
  <2>1. "firehose" \notin Dumps
    BY DEF Dumps
  <2>2. TextAt(p) = IF e.act \in {"log", "signpost"} /\ e.ref # 0 /\ Oversized(sub.key, e.ref) # {}
                    THEN SubAt(NewestOf(Oversized(sub.key, e.ref))).text ELSE e.text
    BY <1>2, <2>1 DEF TextAt
  <2> HIDE DEF e, sub
  <2> QED
    BY <2>2 DEF MessageOf, AllGathered
<1>5. /\ HasProcess(pc, sub.key) <=> listed # {}
      /\ listed # {} => pc[sub.key] = ParseProcess(proc, cat.uuids)
  BY CatalogAnswers
<1>6. LET pp == ParseProcess(proc, cat.uuids)
      IN  /\ pp.pid = proc.pid /\ pp.euid = proc.euid /\ pp.subsystems = proc.subsystems
          /\ pp.main = IF proc.main < Len(cat.uuids) THEN cat.uuids[proc.main + 1] ELSE ""
  BY DEF ParseProcess
<1>7. SubsystemOf(pc, sub.key, of) = IF listed # {} THEN SubsystemIn(proc, e) ELSE ""
  <2>1. CASE listed # {}
    <3>1. pc[sub.key].subsystems = proc.subsystems /\ HasProcess(pc, sub.key)
      <4> HIDE DEF pc, proc, listed, sub, cat
      <4> QED
        BY <1>5, <1>6, <2>1
    <3> HIDE DEF pc, proc, listed, e, sub
    <3> QED
      BY <2>1, <3>1 DEF SubsystemOf, SubsystemIn
  <2>2. CASE listed = {}
    <3>1. ~HasProcess(pc, sub.key)
      BY <1>5, <2>2
    <3> HIDE DEF pc, listed, sub
    <3> QED
      BY <2>2, <3>1 DEF SubsystemOf
  <2> QED
    BY <2>1, <2>2
<1>8. /\ PidOf(pc, sub.key) = IF listed # {} THEN proc.pid ELSE 0
      /\ EuidOf(pc, sub.key) = IF listed # {} THEN proc.euid ELSE 0
      /\ MainOf(pc, sub.key) = IF listed # {}
                               THEN IF proc.main < Len(cat.uuids) THEN cat.uuids[proc.main + 1] ELSE "" ELSE ""
  <2> HIDE DEF pc, listed, proc, sub, cat, e, p, of
  <2>1. CASE listed # {}
    <3>1. /\ HasProcess(pc, sub.key) /\ pc[sub.key].pid = proc.pid /\ pc[sub.key].euid = proc.euid
          /\ pc[sub.key].main = IF proc.main < Len(cat.uuids) THEN cat.uuids[proc.main + 1] ELSE ""
      BY <1>5, <1>6, <2>1
    <3> QED
      BY <2>1, <3>1 DEF PidOf, EuidOf, MainOf
  <2>2. CASE listed = {}
    <3>1. ~HasProcess(pc, sub.key)
      BY <1>5, <2>2
    <3> QED
      BY <2>2, <3>1 DEF PidOf, EuidOf, MainOf
  <2> QED
    BY <2>1, <2>2
<1>9. FirehoseRow(e, sub, p) =
        [at |-> p, boot |-> bootUuid, pid |-> PidOf(pc, sub.key), euid |-> EuidOf(pc, sub.key),
         main |-> MainOf(pc, sub.key), subsystem |-> SubsystemOf(pc, sub.key, of),
         text |-> MessageOf(e, sub.key)]
  BY <1>1 DEF FirehoseRow
<1>10. RowOf(p, sub, cat, BootIn(f, k), TextAt(p)) =
        [at |-> p, boot |-> BootIn(f, k), pid |-> IF listed # {} THEN proc.pid ELSE 0,
         euid |-> IF listed # {} THEN proc.euid ELSE 0,
         main |-> IF listed # {}
                  THEN IF proc.main < Len(cat.uuids) THEN cat.uuids[proc.main + 1] ELSE "" ELSE "",
         subsystem |-> IF listed # {} THEN SubsystemIn(proc, e) ELSE "",
         text |-> TextAt(p)]
  <2>1. sub.is = "firehose"
    OBVIOUS
  <2>2. sub.entries[p[4]] = e
    BY <1>2
  <2> HIDE DEF p, cat, e, sub
  <2> QED
    BY <2>1, <2>2 DEF RowOf
<1> HIDE DEF sub, e, p, cat, pc, listed, proc, of
<1>11. FirehoseRow(e, sub, p) = ExpectedRow(p)
  BY <1>1, <1>3, <1>4, <1>7, <1>8, <1>9, <1>10
<1> QED
  BY <1>11 DEF e, sub, p

LEMMA DumpRowsAreExpected ==
  ASSUME NEW f, NEW k, NEW s, NEW i, InForce(f, k), Preceding(f, k, "catalog") # {},
         Chunk(f, k).subs[s].is \in Dumps, Chunk(f, k).subs[s].whole
  PROVE  DumpRow(Chunk(f, k).subs[s], <<f, k, s, i>>) = ExpectedRow(<<f, k, s, i>>)
<1> DEFINE sub == Chunk(f, k).subs[s]
           p   == <<f, k, s, i>>
           cat == CatalogIn(f, k)
           pc  == ParseCatalog(cat)
           listed == { j \in DOMAIN cat.procs : cat.procs[j].key = sub.key }
           proc == cat.procs[Max(listed)]
<1>1. catalog[1] = pc /\ bootUuid = BootIn(f, k)
  BY DEF InForce
<1>2. SubAt(p) = sub /\ p[1] = f /\ p[2] = k
  BY DEF SubAt
<1>3. ExpectedRow(p) = RowOf(p, sub, cat, BootIn(f, k), TextAt(p))
  BY <1>2 DEF ExpectedRow
<1>4. TextAt(p) = ParseDump(sub)[1]
  BY <1>2 DEF TextAt
<1>5. EuidOf(pc, sub.key) = IF listed # {} THEN proc.euid ELSE 0
  <2>1. /\ HasProcess(pc, sub.key) <=> listed # {}
        /\ listed # {} => pc[sub.key] = ParseProcess(proc, cat.uuids)
    BY CatalogAnswers
  <2>2. ParseProcess(proc, cat.uuids).euid = proc.euid
    BY DEF ParseProcess
  <2> HIDE DEF pc, listed, proc, sub, cat
  <2> QED
    BY <2>1, <2>2 DEF EuidOf
<1>6. StatedumpRow(sub, p) =
        [at |-> p, boot |-> bootUuid, pid |-> sub.key[1], euid |-> EuidOf(pc, sub.key),
         main |-> "", subsystem |-> "", text |-> ParseStatedump(sub)[1]]
  BY <1>1 DEF StatedumpRow, RowOfDump
<1>a. SimpledumpRow(sub, p) =
        [at |-> p, boot |-> bootUuid, pid |-> sub.key[1], euid |-> EuidOf(pc, sub.key),
         main |-> sub.dsc, subsystem |-> sub.own, text |-> ParseSimpledump(sub)[1]]
  BY <1>1 DEF SimpledumpRow, RowOfDump
<1>7. sub.is \in {"statedump", "simpledump"} /\ sub.is # "firehose" /\ sub.whole
  BY DEF Dumps
<1>8. RowOf(p, sub, cat, BootIn(f, k), TextAt(p)) =
        [at |-> p, boot |-> BootIn(f, k), pid |-> sub.key[1],
         euid |-> IF listed # {} THEN proc.euid ELSE 0,
         main |-> IF sub.is = "simpledump" THEN sub.dsc ELSE "",
         subsystem |-> IF sub.is = "simpledump" THEN sub.own ELSE "",
         text |-> TextAt(p)]
  <2> HIDE DEF p, cat, sub
  <2> QED
    BY <1>7 DEF RowOf
<1> HIDE DEF sub, p, cat, pc, listed, proc
<1>9. CASE sub.is = "statedump"
  <2>1. DumpRow(sub, p) = StatedumpRow(sub, p) /\ ParseDump(sub) = ParseStatedump(sub)
    BY <1>9 DEF DumpRow, ParseDump
  <2>2. DumpRow(sub, p) = ExpectedRow(p)
    BY <1>1, <1>3, <1>4, <1>5, <1>6, <1>8, <1>9, <2>1
  <2> QED
    BY <2>2 DEF sub, p
<1>10. CASE sub.is = "simpledump"
  <2>1. DumpRow(sub, p) = SimpledumpRow(sub, p) /\ ParseDump(sub) = ParseSimpledump(sub)
    BY <1>10 DEF DumpRow, ParseDump
  <2>2. SimpledumpRow(sub, p) =
          [at |-> p, boot |-> bootUuid, pid |-> sub.key[1], euid |-> EuidOf(pc, sub.key),
           main |-> sub.dsc, subsystem |-> sub.own, text |-> ParseSimpledump(sub)[1]]
    BY <1>a
  <2>3. DumpRow(sub, p) = ExpectedRow(p)
    BY <1>1, <1>3, <1>4, <1>5, <1>8, <1>10, <2>1, <2>2
  <2> QED
    BY <2>3 DEF sub, p
<1> QED
  BY <1>7, <1>9, <1>10

-----------------------------------------------------------------------------
(* The loops over the sub-chunks of a chunkset and the entries of a block.     *)

NextSlot(q) == <<q[1], q[2], q[3], q[4] + 1>>
NextSub(q)  == <<q[1], q[2], q[3] + 1, 0>>
NextSet(q)  == <<q[1], q[2] + 1, 0, 0>>
NextFile(q) == <<q[1] + 1, 1, 0, 0>>

LEMMA NextPlaces ==
  ASSUME NEW p \in Quads, NEW q \in Quads
  PROVE  /\ Ahead(p, NextSlot(q)) <=> Ahead(p, q) \/ p = q
         /\ Ahead(p, NextSub(q)) <=>
              Ahead(p, q) \/ (p[1] = q[1] /\ p[2] = q[2] /\ p[3] = q[3] /\ p[4] >= q[4])
         /\ Ahead(p, NextSet(q)) <=> Ahead(p, q) \/ (p[1] = q[1] /\ p[2] = q[2])
         /\ Ahead(p, NextFile(q)) <=> Ahead(p, q) \/ p[1] = q[1] \/ (p[1] = q[1] + 1 /\ p[2] = 0)
         /\ {NextSlot(q), NextSub(q), NextSet(q), NextFile(q)} \subseteq Quads
<1>1. /\ p[1] \in Nat /\ p[2] \in Nat /\ p[3] \in Nat /\ p[4] \in Nat
      /\ q[1] \in Nat /\ q[2] \in Nat /\ q[3] \in Nat /\ q[4] \in Nat
  BY DEF Quads
<1>2. p = <<p[1], p[2], p[3], p[4]>> /\ q = <<q[1], q[2], q[3], q[4]>>
  BY QuadsAreOrdered
<1>3. p = q <=> p[1] = q[1] /\ p[2] = q[2] /\ p[3] = q[3] /\ p[4] = q[4]
  BY <1>2
<1>4. {NextSlot(q), NextSub(q), NextSet(q), NextFile(q)} \subseteq Quads
  BY <1>1 DEF Quads, NextSlot, NextSub, NextSet, NextFile
<1>5. Ahead(p, NextSlot(q)) <=> Ahead(p, q) \/ p = q
  BY <1>1, <1>3 DEF Ahead, NextSlot
<1>6. Ahead(p, NextSub(q)) <=>
        Ahead(p, q) \/ (p[1] = q[1] /\ p[2] = q[2] /\ p[3] = q[3] /\ p[4] >= q[4])
  BY <1>1 DEF Ahead, NextSub
<1>7. Ahead(p, NextSet(q)) <=> Ahead(p, q) \/ (p[1] = q[1] /\ p[2] = q[2])
  BY <1>1 DEF Ahead, NextSet
<1>8. Ahead(p, NextFile(q)) <=> Ahead(p, q) \/ p[1] = q[1] \/ (p[1] = q[1] + 1 /\ p[2] = 0)
  BY <1>1 DEF Ahead, NextFile
<1> QED
  BY <1>4, <1>5, <1>6, <1>7, <1>8

Accs == [rows : Seq(RowSet), errors : Nat]
JoinTold(B, b, acc, q) == Told(Places, RowTable, Damages, B \o acc.rows, b + acc.errors, q)

LEMMA EmitAndCount ==
  ASSUME NEW acc \in Accs
  PROVE  /\ \A row \in RowSet : /\ Emit(acc, row) \in Accs /\ Emit(acc, row).errors = acc.errors
                                /\ Emit(acc, row).rows = Append(acc.rows, row)
         /\ Count(acc) \in Accs /\ Count(acc).errors = acc.errors + 1 /\ Count(acc).rows = acc.rows
<1>1. acc.rows \in Seq(RowSet) /\ acc.errors \in Nat /\ acc = [rows |-> acc.rows, errors |-> acc.errors]
  BY DEF Accs
<1>2. ASSUME NEW row \in RowSet
      PROVE  /\ Emit(acc, row) \in Accs /\ Emit(acc, row).errors = acc.errors
             /\ Emit(acc, row).rows = Append(acc.rows, row)
  <2>1. Append(acc.rows, row) \in Seq(RowSet)
    BY <1>1, AppendProperties
  <2>2. Emit(acc, row) = [rows |-> Append(acc.rows, row), errors |-> acc.errors]
    BY <1>1 DEF Emit
  <2> QED
    BY <1>1, <2>1, <2>2 DEF Accs
<1>3. Count(acc) = [rows |-> acc.rows, errors |-> acc.errors + 1]
  BY <1>1 DEF Count
<1> QED
  BY <1>1, <1>2, <1>3 DEF Accs

LEMMA RecordEmitted ==
  ASSUME traces \in Seq(TraceFiles), NEW B \in Seq(RowSet), NEW b \in Nat, NEW acc \in Accs,
         NEW q, NEW r \in Quads, JoinTold(B, b, acc, q), q \in Places, q \notin Damages,
         Single(Places, Damages, q, r)
  PROVE  JoinTold(B, b, Emit(acc, ExpectedRow(q)), r)
<1> DEFINE row == ExpectedRow(q)
           told == acc.rows
<1>1. row \in RowSet /\ RowTable[q] = row /\ \A p \in Places : RowTable[p].at = p
  BY RowsAreOfPlaces
<1>2. told \in Seq(RowSet) /\ Emit(acc, row).errors = acc.errors /\ Emit(acc, row).rows = Append(told, row)
  BY <1>1, EmitAndCount DEF Accs
<1> HIDE DEF row, told
<1>3. Append(B \o told, row) = B \o Append(told, row)
  <2>1. <<row>> \in Seq(RowSet)
    BY <1>1
  <2>2. B \o told \in Seq(RowSet)
    BY <1>2, ConcatProperties
  <2>3. Append(B \o told, row) = (B \o told) \o <<row>> /\ Append(told, row) = told \o <<row>>
    BY <1>1, <1>2, <2>2, AppendIsConcat
  <2>4. (B \o told) \o <<row>> = B \o (told \o <<row>>)
    BY <1>2, <2>1, ConcatAssociative
  <2> QED
    BY <2>3, <2>4
<1>4. Places \subseteq Quads
  BY MarksAreInside
<1>5. Told(Places, RowTable, Damages, Append(B \o told, RowTable[q]), b + acc.errors, r)
  BY <1>1, <1>4, RecordPassed DEF JoinTold, told
<1> QED
  BY <1>1, <1>2, <1>3, <1>5 DEF JoinTold, row

LEMMA DamageCounted ==
  ASSUME traces \in Seq(TraceFiles), NEW B \in Seq(RowSet), NEW b \in Nat, NEW acc \in Accs,
         NEW q, NEW r \in Quads, JoinTold(B, b, acc, q), q \notin Places, q \in Damages,
         Single(Places, Damages, q, r)
  PROVE  JoinTold(B, b, Count(acc), r)
<1>1. IsFiniteSet(Damages) /\ Damages \subseteq Quads
  BY MarksAreFinite, MarksAreInside
<1>2. Count(acc).errors = acc.errors + 1 /\ Count(acc).rows = acc.rows /\ acc.errors \in Nat
  BY EmitAndCount DEF Accs
<1>3. Told(Places, RowTable, Damages, B \o acc.rows, (b + acc.errors) + 1, r)
  BY <1>1, DamagePassed DEF JoinTold
<1>4. (b + acc.errors) + 1 = b + (acc.errors + 1)
  BY <1>2
<1> QED
  BY <1>2, <1>3, <1>4 DEF JoinTold


\* h has what the loop over the entries es has after each of them.
EntriesTakenBy(h, acc, es, sub, at) ==
  h = [n \in 0..Len(es) |->
         IF n = 0 THEN acc
         ELSE IF es[n].whole THEN Emit(h[n - 1], FirehoseRow(es[n], sub, Within(at, n)))
         ELSE Count(h[n - 1])]

LEMMA EntriesAreTaken ==
  ASSUME NEW acc \in Accs, NEW es, Len(es) \in Nat, NEW sub, NEW at,
         \A n \in 1..Len(es) : es[n].whole => FirehoseRow(es[n], sub, Within(at, n)) \in RowSet
  PROVE  \E h : EntriesTakenBy(h, acc, es, sub, at)
<1> DEFINE m == Len(es)
           Next1(n, a) == IF es[n].whole THEN Emit(a, FirehoseRow(es[n], sub, Within(at, n))) ELSE Count(a)
           step == [x \in (1..m) \X Accs |-> Next1(x[1], x[2])]
<1>1. \A n \in 1..m, a \in Accs : Next1(n, a) \in Accs
  <2> SUFFICES ASSUME NEW n \in 1..m, NEW a \in Accs PROVE Next1(n, a) \in Accs
    OBVIOUS
  <2>1. CASE es[n].whole
    <3>1. FirehoseRow(es[n], sub, Within(at, n)) \in RowSet
      BY <2>1
    <3> QED
      BY <2>1, <3>1, EmitAndCount
  <2>2. CASE ~es[n].whole
    BY <2>2, EmitAndCount
  <2> QED
    BY <2>1, <2>2
<1> HIDE DEF Next1, m
<1>2. step \in [(1..m) \X Accs -> Accs] /\ \A n \in 1..m, a \in Accs : step[<<n, a>>] = Next1(n, a)
  BY <1>1
<1> HIDE DEF step
<1>3. m \in Nat
  BY DEF m
<1>4. PICK t : Loops(t, m, Accs, acc, step)
  BY <1>2, <1>3, LoopsEnd
<1>5. t \in [0..m -> Accs] /\ t[0] = acc /\ \A n \in 1..m : t[n] = Next1(n, t[n - 1])
  <2>1. t \in [0..m -> Accs] /\ t[0] = acc /\ \A n \in 1..m : t[n] = step[<<n, t[n - 1]>>]
    BY <1>4 DEF Loops
  <2>2. \A n \in 1..m : n - 1 \in 0..m
    BY <1>3
  <2>3. \A n \in 1..m : t[n - 1] \in Accs
    BY <2>1, <2>2
  <2> QED
    BY <1>2, <2>1, <2>3
<1>6. EntriesTakenBy(t, acc, es, sub, at)
  <2>1. t = [n \in 0..m |-> t[n]]
    BY <1>5
  <2>2. ASSUME NEW n \in 0..m PROVE t[n] = IF n = 0 THEN acc ELSE Next1(n, t[n - 1])
    <3>1. n = 0 \/ n \in 1..m
      BY <1>3
    <3> QED
      BY <1>5, <3>1
  <2>3. t = [n \in 0..m |-> IF n = 0 THEN acc ELSE Next1(n, t[n - 1])]
    BY <2>1, <2>2
  <2> QED
    BY <2>3, Zenon DEF EntriesTakenBy, Next1, m
<1> QED
  BY <1>6

LEMMA EntriesFollow ==
  ASSUME NEW acc, NEW es, NEW sub, NEW at, NEW h, Len(es) \in Nat, EntriesTakenBy(h, acc, es, sub, at)
  PROVE  /\ h[0] = acc
         /\ \A n \in 1..Len(es) :
              h[n] = IF es[n].whole THEN Emit(h[n - 1], FirehoseRow(es[n], sub, Within(at, n)))
                     ELSE Count(h[n - 1])
<1> DEFINE m == Len(es)
           Next1(n, a) == IF es[n].whole THEN Emit(a, FirehoseRow(es[n], sub, Within(at, n))) ELSE Count(a)
<1> HIDE DEF Next1
<1>1. h = [n \in 0..m |-> IF n = 0 THEN acc ELSE Next1(n, h[n - 1])]
  BY Zenon DEF EntriesTakenBy, Next1
<1>2. \A n \in 0..m : h[n] = IF n = 0 THEN acc ELSE Next1(n, h[n - 1])
  BY <1>1
<1>3. 0 \in 0..m /\ \A n \in 1..m : n \in 0..m /\ n # 0
  OBVIOUS
<1>4. h[0] = acc /\ \A n \in 1..m : h[n] = Next1(n, h[n - 1])
  BY <1>2, <1>3
<1> QED
  BY <1>4 DEF Next1

\* The entries of a whole firehose block, in their order.
LEMMA EntriesTold ==
  ASSUME traces \in Seq(TraceFiles), NEW f \in 1..FileCount, NEW k \in Sets(f),
         NEW s \in 1..Len(SubChunks(Chunk(f, k))),
         Chunk(f, k).subs[s].is = "firehose", Chunk(f, k).subs[s].whole,
         AllGathered, InForce(f, k), Preceding(f, k, "catalog") # {},
         NEW B \in Seq(RowSet), NEW b \in Nat, NEW acc \in Accs
  PROVE  LET sub == Chunk(f, k).subs[s]
             res == ParseEntries(acc, sub, <<f, k, s>>)
         IN  /\ res \in Accs
             /\ JoinTold(B, b, acc, <<f, k, s, 1>>) =>
                  JoinTold(B, b, res, <<f, k, s, Len(Entries(sub)) + 1>>)
<1> DEFINE sub == Chunk(f, k).subs[s]
           es  == Entries(sub)
           m   == Len(es)
           at  == <<f, k, s>>
           h   == CHOOSE g : g = [n \in 0..Len(es) |->
                    IF n = 0 THEN acc
                    ELSE IF es[n].whole THEN Emit(g[n - 1], FirehoseRow(es[n], sub, Within(at, n)))
                    ELSE Count(g[n - 1])]
<1>1. /\ sub \in SubRecords /\ f \in Nat /\ k \in Nat /\ s \in Nat
  BY SetsAreRead, ChunksOfFiles
<1>2. /\ m \in Nat /\ \A i \in 1..m : es[i] = sub.entries[i] /\ es[i] \in EntryRecords
  BY <1>1, KindsOfSubs, EntriesAreInBlock
<1>3. ParsePreamble(sub)[1] = es
  BY DEF ParsePreamble
<1>4. ParseEntries(acc, sub, at) = h[m]
  BY <1>3 DEF ParseEntries
<1>5. h = CHOOSE g : EntriesTakenBy(g, acc, es, sub, at)
  BY DEF EntriesTakenBy
<1> HIDE DEF h
<1>6. \A i \in 1..m : /\ Within(at, i) = <<f, k, s, i>>
                      /\ FirehoseRow(es[i], sub, Within(at, i)) = ExpectedRow(<<f, k, s, i>>)
  <2> SUFFICES ASSUME NEW i \in 1..m
               PROVE  /\ Within(at, i) = <<f, k, s, i>>
                      /\ FirehoseRow(es[i], sub, Within(at, i)) = ExpectedRow(<<f, k, s, i>>)
    OBVIOUS
  <2>1. Within(at, i) = <<f, k, s, i>>
    BY DEF Within
  <2>2. FirehoseRow(sub.entries[i], sub, <<f, k, s, i>>) = ExpectedRow(<<f, k, s, i>>)
    BY FirehoseRowsAreExpected
  <2> QED
    BY <1>2, <2>1, <2>2
<1>7. \A i \in 1..m :
        LET q == <<f, k, s, i>>
        IN  /\ q \in Places <=> es[i].whole
            /\ q \in Damages <=> ~es[i].whole
  <2> SUFFICES ASSUME NEW i \in 1..m
               PROVE  /\ <<f, k, s, i>> \in Places <=> es[i].whole
                      /\ <<f, k, s, i>> \in Damages <=> ~es[i].whole
    OBVIOUS
  <2>1. /\ i \in Records(sub) <=> es[i].whole
        /\ i \in Damaged(sub) <=> ~es[i].whole
    BY <1>1, <1>2, SlotsOfSub
  <2>2. /\ <<f, k, s, i>> \in Places <=> i \in Records(sub)
        /\ <<f, k, s, i>> \in Damages <=> i \in Damaged(sub)
    BY MarksAtSlots
  <2> QED
    BY <2>1, <2>2
<1> HIDE DEF m, es, sub, at
<1>8. \A i \in 1..m : es[i].whole => FirehoseRow(es[i], sub, Within(at, i)) \in RowSet
  BY <1>6, <1>7, RowsAreOfPlaces
<1>a. /\ Len(es) \in Nat
      /\ \A i \in 1..Len(es) : es[i].whole => FirehoseRow(es[i], sub, Within(at, i)) \in RowSet
  BY <1>2, <1>8 DEF m
<1>9. EntriesTakenBy(h, acc, es, sub, at)
  <2>1. \E g : EntriesTakenBy(g, acc, es, sub, at)
    BY ONLY acc \in Accs, <1>a, EntriesAreTaken, Zenon
  <2> QED
    BY <1>5, <2>1
<1>10. /\ h[0] = acc
       /\ \A n \in 1..m :
            h[n] = IF es[n].whole THEN Emit(h[n - 1], FirehoseRow(es[n], sub, Within(at, n)))
                   ELSE Count(h[n - 1])
  <2>1. /\ h[0] = acc
        /\ \A n \in 1..Len(es) :
             h[n] = IF es[n].whole THEN Emit(h[n - 1], FirehoseRow(es[n], sub, Within(at, n)))
                    ELSE Count(h[n - 1])
    BY <1>a, <1>9, EntriesFollow
  <2> QED
    BY <2>1 DEF m
<1> DEFINE Q(n) == <<f, k, s, n + 1>>
           K == { n \in 0..m : /\ h[n] \in Accs
                               /\ JoinTold(B, b, acc, Q(0)) => JoinTold(B, b, h[n], Q(n)) }
<1>11. 0 \in K
  BY <1>2, <1>10
<1>12. ASSUME NEW n \in 0..(m - 1), n \in K PROVE n + 1 \in K
  <2> DEFINE l == n + 1
             q == <<f, k, s, l>>
             r == <<f, k, s, l + 1>>
             a == h[n]
  <2>1. l \in 1..m /\ l \in 0..m /\ l - 1 = n /\ l \in Nat
    BY <1>2
  <2>2. Q(n) = q /\ Q(l) = r
    OBVIOUS
  <2>3. a \in Accs /\ (JoinTold(B, b, acc, Q(0)) => JoinTold(B, b, a, q))
    BY <1>12
  <2>4. r \in Quads /\ Single(Places, Damages, q, r)
    <3>1. \A p \in Places \cup Damages : p \in Quads
      BY MarksAreInside
    <3>2. \A p \in Quads : Ahead(p, <<f, k, s, l + 1>>) <=> Ahead(p, <<f, k, s, l>>) \/ p = <<f, k, s, l>>
      <4> HIDE DEF l
      <4> TAKE p \in Quads
      <4> DEFINE u == <<f, k, s, l>>
      <4>1. u \in Quads /\ NextSlot(u) = <<f, k, s, l + 1>>
        BY <1>1, <2>1 DEF Quads, NextSlot
      <4> HIDE DEF u
      <4>2. Ahead(p, NextSlot(u)) <=> Ahead(p, u) \/ p = u
        BY <4>1, NextPlaces
      <4> QED
        BY <4>1, <4>2 DEF u
    <3>3. r \in Quads
      BY <1>1, <2>1 DEF Quads
    <3> QED
      BY <3>1, <3>2, <3>3 DEF Single
  <2>5. h[l] = IF es[l].whole THEN Emit(a, FirehoseRow(es[l], sub, Within(at, l))) ELSE Count(a)
    BY <1>10, <2>1
  <2>6. q \in Places <=> es[l].whole
    BY <1>7, <2>1
  <2>7. q \in Damages <=> ~es[l].whole
    BY <1>7, <2>1
  <2>8. FirehoseRow(es[l], sub, Within(at, l)) = ExpectedRow(q)
    BY <1>6, <2>1
  <2> HIDE DEF l, q, r, Q
  <2>9. h[l] \in Accs /\ (JoinTold(B, b, a, q) => JoinTold(B, b, h[l], r))
    <3>1. CASE es[l].whole
      <4>1. h[l] = Emit(a, ExpectedRow(q)) /\ q \in Places /\ q \notin Damages
        BY <2>5, <2>6, <2>7, <2>8, <3>1
      <4>2. h[l] \in Accs
        <5>1. ExpectedRow(q) \in RowSet
          BY <4>1, RowsAreOfPlaces
        <5> QED
          BY <2>3, <4>1, <5>1, EmitAndCount
      <4>3. ASSUME JoinTold(B, b, a, q) PROVE JoinTold(B, b, h[l], r)
        BY <2>3, <2>4, <4>1, <4>3, RecordEmitted
      <4> QED
        BY <4>2, <4>3
    <3>2. CASE ~es[l].whole
      <4>1. h[l] = Count(a) /\ q \notin Places /\ q \in Damages
        BY <2>5, <2>6, <2>7, <3>2
      <4>2. h[l] \in Accs
        BY <2>3, <4>1, EmitAndCount
      <4>3. ASSUME JoinTold(B, b, a, q) PROVE JoinTold(B, b, h[l], r)
        BY <2>3, <2>4, <4>1, <4>3, DamageCounted
      <4> QED
        BY <4>2, <4>3
    <3> QED
      BY <3>1, <3>2
  <2>10. JoinTold(B, b, acc, Q(0)) => JoinTold(B, b, h[l], Q(l))
    BY <2>2, <2>3, <2>9
  <2>11. l \in K
    BY <2>1, <2>9, <2>10
  <2> QED
    BY <2>11 DEF l
<1> HIDE DEF K
<1>13. m \in K
  <2>1. m \in Nat
    BY <1>2
  <2>2. \A n \in 0..(m - 1) : n \in K => n + 1 \in K
    BY <1>12
  <2>3. \A n \in 0..m : n \in K
    BY ONLY <1>11, <2>1, <2>2, CountingUp
  <2> QED
    BY ONLY <2>1, <2>3
<1>14. h[m] \in Accs /\ (JoinTold(B, b, acc, Q(0)) => JoinTold(B, b, h[m], Q(m)))
  BY <1>13 DEF K
<1>15. Q(0) = <<f, k, s, 1>> /\ Q(m) = <<f, k, s, m + 1>>
  OBVIOUS
<1> HIDE DEF Q
<1> QED
  BY <1>4, <1>14, <1>15 DEF m, es, sub, at

\* One sub-chunk.
LEMMA SubTold ==
  ASSUME traces \in Seq(TraceFiles), NEW f \in 1..FileCount, NEW k \in Sets(f),
         NEW s \in 1..Len(SubChunks(Chunk(f, k))),
         AllGathered, InForce(f, k), Preceding(f, k, "catalog") # {},
         NEW B \in Seq(RowSet), NEW b \in Nat, NEW acc \in Accs
  PROVE  LET res == ParseSub(acc, Chunk(f, k).subs[s], <<f, k, s>>)
         IN  /\ res \in Accs
             /\ JoinTold(B, b, acc, <<f, k, s, 0>>) => JoinTold(B, b, res, <<f, k, s + 1, 0>>)
<1> DEFINE sub == Chunk(f, k).subs[s]
           res == ParseSub(acc, sub, <<f, k, s>>)
           q   == <<f, k, s, 0>>
           r   == <<f, k, s + 1, 0>>
           n   == Len(Entries(sub))
<1> HIDE DEF res, q, r, n
<1>1. sub \in SubRecords /\ sub.is # "cut" /\ f \in Nat /\ k \in Nat /\ s \in Nat /\ s # 0
  <2>1. FileCount \in Nat
    BY ChunksOfFiles
  <2>2. /\ Len(SubChunks(Chunk(f, k))) \in Nat /\ k \in Nat
        /\ sub \in SubRecords /\ sub.is # "cut"
    BY SetsAreRead
  <2> QED
    BY <2>1, <2>2
<1> USE DEF res, q, r, n
<1>2. /\ sub.is \in {"firehose", "oversize", "unknown", "padding"} \cup Dumps /\ sub.whole \in BOOLEAN
      /\ "firehose" \notin Dumps /\ "oversize" \notin Dumps /\ "unknown" \notin Dumps /\ "padding" \notin Dumps
  BY <1>1, KindsOfSubs DEF Dumps
<1>3. ASSUME NEW p \in Places \cup Damages, p[1] = f, p[2] = k, p[3] = s
      PROVE  p[4] \in Records(sub) \cup Damaged(sub)
  <2>1. p[4] \in Records(SubAt(p)) \cup Damaged(SubAt(p))
    BY <1>1, <1>3, MarksAreInside
  <2>2. SubAt(p) = sub
    BY <1>3 DEF SubAt
  <2> QED
    BY <2>1, <2>2
<1>4. \A i : /\ <<f, k, s, i>> \in Places <=> i \in Records(sub)
             /\ <<f, k, s, i>> \in Damages <=> i \in Damaged(sub)
  BY MarksAtSlots
<1>5. \A p \in Places \cup Damages : p \in Quads /\ p[4] \in Nat /\ p = <<p[1], p[2], p[3], p[4]>>
  BY MarksAreInside, QuadsAreOrdered DEF Quads
<1> HIDE DEF sub
<1>6. \A i \in Nat : /\ <<f, k, s, i>> \in Quads
                     /\ \A p \in Quads :
                          /\ Ahead(p, <<f, k, s, i + 1>>) <=> Ahead(p, <<f, k, s, i>>) \/ p = <<f, k, s, i>>
                          /\ Ahead(p, r) <=> Ahead(p, <<f, k, s, i>>)
                                              \/ (p[1] = f /\ p[2] = k /\ p[3] = s /\ p[4] >= i)
  <2> SUFFICES ASSUME NEW i \in Nat
               PROVE  /\ <<f, k, s, i>> \in Quads
                      /\ \A p \in Quads :
                           /\ Ahead(p, <<f, k, s, i + 1>>) <=> Ahead(p, <<f, k, s, i>>) \/ p = <<f, k, s, i>>
                           /\ Ahead(p, r) <=> Ahead(p, <<f, k, s, i>>)
                                               \/ (p[1] = f /\ p[2] = k /\ p[3] = s /\ p[4] >= i)
    OBVIOUS
  <2>1. <<f, k, s, i>> \in Quads
    BY <1>1 DEF Quads
  <2>3. ASSUME NEW p \in Quads
        PROVE  /\ Ahead(p, <<f, k, s, i + 1>>) <=> Ahead(p, <<f, k, s, i>>) \/ p = <<f, k, s, i>>
               /\ Ahead(p, r) <=> Ahead(p, <<f, k, s, i>>)
                                   \/ (p[1] = f /\ p[2] = k /\ p[3] = s /\ p[4] >= i)
    <3> DEFINE u == <<f, k, s, i>>
    <3>1. u[1] = f /\ u[2] = k /\ u[3] = s /\ u[4] = i
      OBVIOUS
    <3>2. NextSlot(u) = <<f, k, s, i + 1>> /\ NextSub(u) = r
      BY DEF NextSlot, NextSub
    <3> HIDE DEF u, r
    <3>3. /\ Ahead(p, NextSlot(u)) <=> Ahead(p, u) \/ p = u
          /\ Ahead(p, NextSub(u)) <=>
               Ahead(p, u) \/ (p[1] = u[1] /\ p[2] = u[2] /\ p[3] = u[3] /\ p[4] >= u[4])
      <4>1. u \in Quads
        BY <2>1 DEF u
      <4> QED
        BY <4>1, NextPlaces
    <3> QED
      BY <3>1, <3>2, <3>3 DEF u
  <2> QED
    BY <2>1, <2>3
<1>7. r \in Quads
  BY <1>1 DEF Quads
<1> HIDE DEF r
\* Behind slot i there is no other.
<1>8. ASSUME NEW i \in Nat, \A j \in Records(sub) \cup Damaged(sub) : j < i
      PROVE  Quiet(Places, Damages, <<f, k, s, i>>, r)
  <2>1. \A p \in Places \cup Damages : ~(p[1] = f /\ p[2] = k /\ p[3] = s /\ p[4] >= i)
    BY <1>3, <1>5, <1>8
  <2> QED
    BY <1>5, <1>6, <2>1 DEF Quiet
<1>9. ASSUME 0 \notin Records(sub) \cup Damaged(sub)
      PROVE  Quiet(Places, Damages, q, <<f, k, s, 1>>)
  <2>1. \A p \in Places \cup Damages : p # <<f, k, s, 0>>
    BY <1>4, <1>9
  <2>2. \A p \in Quads : Ahead(p, <<f, k, s, 0 + 1>>) <=> Ahead(p, <<f, k, s, 0>>) \/ p = <<f, k, s, 0>>
    BY <1>6
  <2>3. <<f, k, s, 0 + 1>> = <<f, k, s, 1>>
    OBVIOUS
  <2> QED
    BY <1>5, <2>1, <2>2, <2>3 DEF Quiet
<1>10. \A c \in Accs : \A u, v : JoinTold(B, b, c, u) /\ Quiet(Places, Damages, u, v) /\ v \in Quads => JoinTold(B, b, c, v)
  BY NothingPassed DEF JoinTold
<1>11. CASE sub.is \in Dumps \cup {"firehose"} /\ ~sub.whole
  <2>1. Records(sub) = {} /\ Damaged(sub) = {0}
    BY <1>1, <1>11, SlotsOfSub
  <2>2. res = Count(acc)
    <3>1. ParseSub(acc, sub, <<f, k, s>>) = IF sub.is = "firehose" THEN ParseFirehose(acc, sub, <<f, k, s>>)
                                            ELSE ParseDumpRecord(acc, sub, <<f, k, s>>)
      BY <1>2, <1>11 DEF ParseSub
    <3>2. ParsePreamble(sub) = <<>> /\ ParseDump(sub) = <<>>
      BY <1>11 DEF ParsePreamble, ParseDump, ParseStatedump, ParseSimpledump
    <3> QED
      BY <3>1, <3>2 DEF ParseFirehose, ParseDumpRecord
  <2>3. q \in Damages /\ q \notin Places
    BY <1>4, <2>1
  <2>4. Single(Places, Damages, q, r)
    <3>1. \A p \in Places \cup Damages : (p[1] = f /\ p[2] = k /\ p[3] = s /\ p[4] >= 0) <=> p = q
      BY <1>3, <1>5, <2>1
    <3>2. \A p \in Quads : Ahead(p, r) <=> Ahead(p, <<f, k, s, 0>>)
                                           \/ (p[1] = f /\ p[2] = k /\ p[3] = s /\ p[4] >= 0)
      BY <1>6
    <3> QED
      BY <1>5, <3>1, <3>2 DEF Single
  <2> HIDE DEF q, res
  <2>5. res \in Accs
    BY <2>2, EmitAndCount
  <2>6. ASSUME JoinTold(B, b, acc, q) PROVE JoinTold(B, b, res, r)
    BY <1>7, <2>2, <2>3, <2>4, <2>6, DamageCounted
  <2> QED
    BY <2>5, <2>6 DEF sub, res, q, r
<1>12. CASE sub.is = "firehose" /\ sub.whole
  <2>1. /\ n \in Nat
        /\ \A i : /\ i \in Records(sub) <=> i \in 1..n /\ sub.entries[i].whole
                  /\ i \in Damaged(sub) <=> i \in 1..n /\ ~sub.entries[i].whole
    BY <1>1, <1>12, SlotsOfSub
  <2>2. res = ParseEntries(acc, sub, <<f, k, s>>)
    <3>1. ParsePreamble(sub) # <<>>
      BY <1>12 DEF ParsePreamble
    <3>2. res = ParseFirehose(acc, sub, <<f, k, s>>)
      BY <1>2, <1>12 DEF ParseSub
    <3> QED
      BY <3>1, <3>2 DEF ParseFirehose
  <2>3. /\ res \in Accs
        /\ JoinTold(B, b, acc, <<f, k, s, 1>>) => JoinTold(B, b, res, <<f, k, s, n + 1>>)
    BY <1>12, <2>2, EntriesTold DEF sub
  <2>4. Quiet(Places, Damages, q, <<f, k, s, 1>>) /\ <<f, k, s, 1>> \in Quads
    <3>1. <<f, k, s, 1>> \in Quads
      BY <1>6
    <3>2. 0 \notin Records(sub) \cup Damaged(sub)
      BY <2>1
    <3> QED
      BY <1>9, <3>1, <3>2
  <2>5. Quiet(Places, Damages, <<f, k, s, n + 1>>, r)
    <3>1. n + 1 \in Nat /\ \A j \in Records(sub) \cup Damaged(sub) : j < n + 1
      BY <2>1
    <3> HIDE DEF n
    <3> QED
      BY <1>8, <3>1
  <2> HIDE DEF q, res, n
  <2>6. ASSUME JoinTold(B, b, acc, q) PROVE JoinTold(B, b, res, r)
    <3>1. JoinTold(B, b, acc, <<f, k, s, 1>>)
      BY <1>10, <2>4, <2>6
    <3>2. JoinTold(B, b, res, <<f, k, s, n + 1>>)
      BY <2>3, <3>1
    <3> QED
      BY <1>7, <1>10, <2>3, <2>5, <3>2
  <2> QED
    BY <2>3, <2>6 DEF sub, res, q, r
<1>13. CASE sub.is \in Dumps /\ sub.whole
  <2>1. Records(sub) = {1} /\ Damaged(sub) = {}
    BY <1>1, <1>13, SlotsOfSub
  <2> DEFINE one == <<f, k, s, 1>>
             two == <<f, k, s, 2>>
  <2>2. DumpRow(sub, one) = ExpectedRow(one)
    BY <1>13, DumpRowsAreExpected DEF sub
  <2>3. res = Emit(acc, ExpectedRow(one))
    <3>1. ParseDump(sub) # <<>>
      BY <1>13 DEF ParseDump, ParseStatedump, ParseSimpledump
    <3>2. res = ParseDumpRecord(acc, sub, <<f, k, s>>)
      BY <1>2, <1>13 DEF ParseSub
    <3>3. Within(<<f, k, s>>, 1) = one
      BY DEF Within
    <3> QED
      BY <2>2, <3>1, <3>2, <3>3 DEF ParseDumpRecord
  <2>4. one \in Places /\ one \notin Damages
    BY <1>4, <2>1
  <2>5. Quiet(Places, Damages, q, one) /\ one \in Quads /\ two \in Quads
    <3>1. one \in Quads /\ two \in Quads
      BY <1>6
    <3>2. 0 \notin Records(sub) \cup Damaged(sub)
      BY <2>1
    <3> QED
      BY <1>9, <3>1, <3>2
  <2>6. Single(Places, Damages, one, two)
    <3>1. \A p \in Quads : Ahead(p, <<f, k, s, 1 + 1>>) <=> Ahead(p, <<f, k, s, 1>>) \/ p = <<f, k, s, 1>>
      BY <1>6
    <3>2. <<f, k, s, 1 + 1>> = two
      OBVIOUS
    <3> QED
      BY <1>5, <3>1, <3>2 DEF Single
  <2>7. Quiet(Places, Damages, two, r)
    <3>1. 2 \in Nat /\ \A j \in Records(sub) \cup Damaged(sub) : j < 2
      BY <2>1
    <3> QED
      BY <1>8, <3>1
  <2> HIDE DEF q, res, one, two
  <2>8. res \in Accs
    BY <2>3, <2>4, EmitAndCount, RowsAreOfPlaces
  <2>9. ASSUME JoinTold(B, b, acc, q) PROVE JoinTold(B, b, res, r)
    <3>1. JoinTold(B, b, acc, one)
      BY <1>10, <2>5, <2>9
    <3>2. JoinTold(B, b, res, two)
      BY <2>3, <2>4, <2>5, <2>6, <3>1, RecordEmitted
    <3> QED
      BY <1>7, <1>10, <2>7, <2>8, <3>2
  <2> QED
    BY <2>8, <2>9 DEF sub, res, q, r
<1>14. CASE sub.is \in {"oversize", "unknown", "padding"}
  <2>1. Records(sub) = {} /\ Damaged(sub) = {}
    BY <1>1, <1>2, <1>14, SlotsOfSub
  <2>2. res = acc
    BY <1>2, <1>14 DEF ParseSub
  <2>3. Quiet(Places, Damages, q, r)
    <3>1. 0 \in Nat /\ \A j \in Records(sub) \cup Damaged(sub) : j < 0
      BY <2>1
    <3> QED
      BY <1>8, <3>1
  <2> HIDE DEF q, res
  <2> QED
    BY <1>7, <1>10, <2>2, <2>3 DEF sub, res, q, r
<1> QED
  BY <1>2, <1>11, <1>12, <1>13, <1>14

\* h has what the loop over the sub-chunks has after each of them.
SubsTakenBy(h, acc, subs, f, k) ==
  h = [n \in 0..Len(subs) |-> IF n = 0 THEN acc ELSE ParseSub(h[n - 1], subs[n], <<f, k, n>>)]

SubsFollow(h, acc, subs, f, k) ==
  h[0] = acc /\ \A n \in 1..Len(subs) : h[n] = ParseSub(h[n - 1], subs[n], <<f, k, n>>)

LEMMA SubsAreTaken ==
  ASSUME NEW acc \in Accs, NEW subs, Len(subs) \in Nat, NEW f, NEW k,
         \A n \in 1..Len(subs) : \A a \in Accs : ParseSub(a, subs[n], <<f, k, n>>) \in Accs
  PROVE  \E h : SubsTakenBy(h, acc, subs, f, k)
<1> DEFINE m == Len(subs)
           Next1(n, a) == ParseSub(a, subs[n], <<f, k, n>>)
           step == [x \in (1..m) \X Accs |-> Next1(x[1], x[2])]
<1>1. \A n \in 1..m, a \in Accs : Next1(n, a) \in Accs
  OBVIOUS
<1> HIDE DEF Next1, m
<1>2. step \in [(1..m) \X Accs -> Accs] /\ \A n \in 1..m, a \in Accs : step[<<n, a>>] = Next1(n, a)
  BY <1>1
<1> HIDE DEF step
<1>3. m \in Nat
  BY DEF m
<1>4. PICK t : Loops(t, m, Accs, acc, step)
  BY <1>2, <1>3, LoopsEnd
<1>5. t \in [0..m -> Accs] /\ t[0] = acc /\ \A n \in 1..m : t[n] = Next1(n, t[n - 1])
  <2>1. t \in [0..m -> Accs] /\ t[0] = acc /\ \A n \in 1..m : t[n] = step[<<n, t[n - 1]>>]
    BY <1>4 DEF Loops
  <2>2. \A n \in 1..m : n - 1 \in 0..m
    BY <1>3
  <2>3. \A n \in 1..m : t[n - 1] \in Accs
    BY <2>1, <2>2
  <2> QED
    BY <1>2, <2>1, <2>3
<1>6. SubsTakenBy(t, acc, subs, f, k)
  <2>1. t = [n \in 0..m |-> t[n]]
    BY <1>5
  <2>2. ASSUME NEW n \in 0..m PROVE t[n] = IF n = 0 THEN acc ELSE Next1(n, t[n - 1])
    <3>1. n = 0 \/ n \in 1..m
      BY <1>3
    <3> QED
      BY <1>5, <3>1
  <2>3. t = [n \in 0..m |-> IF n = 0 THEN acc ELSE Next1(n, t[n - 1])]
    BY <2>1, <2>2
  <2> QED
    BY <2>3, Zenon DEF SubsTakenBy, Next1, m
<1> QED
  BY <1>6

LEMMA SubsTakenFollow ==
  ASSUME NEW acc, NEW subs, NEW f, NEW k, NEW h, Len(subs) \in Nat, SubsTakenBy(h, acc, subs, f, k)
  PROVE  SubsFollow(h, acc, subs, f, k)
<1> DEFINE m == Len(subs)
           Next1(n, a) == ParseSub(a, subs[n], <<f, k, n>>)
<1> HIDE DEF Next1
<1>1. h = [n \in 0..m |-> IF n = 0 THEN acc ELSE Next1(n, h[n - 1])]
  BY Zenon DEF SubsTakenBy, Next1
<1>2. \A n \in 0..m : h[n] = IF n = 0 THEN acc ELSE Next1(n, h[n - 1])
  BY <1>1
<1>3. 0 \in 0..m /\ \A n \in 1..m : n \in 0..m /\ n # 0
  OBVIOUS
<1>4. h[0] = acc /\ \A n \in 1..m : h[n] = Next1(n, h[n - 1])
  BY <1>2, <1>3
<1> QED
  BY <1>4, Zenon DEF Next1, SubsFollow

\* Places of the same chunk and of the next.
LEMMA StepsOfPlaces ==
  ASSUME NEW p \in Quads, NEW f \in Nat, NEW k \in Nat, NEW s \in Nat
  PROVE  /\ <<f, k, s, 0>> \in Quads
         /\ Ahead(p, <<f, k, s + 1, 0>>) <=> Ahead(p, <<f, k, s, 0>>) \/ (p[1] = f /\ p[2] = k /\ p[3] = s)
         /\ Ahead(p, <<f, k + 1, 0, 0>>) <=>
              Ahead(p, <<f, k, s, 0>>) \/ (p[1] = f /\ p[2] = k /\ p[3] >= s)
         /\ Ahead(p, <<f + 1, 1, 0, 0>>) <=>
              Ahead(p, <<f, k, 0, 0>>) \/ (p[1] = f /\ p[2] >= k) \/ (p[1] = f + 1 /\ p[2] = 0)
<1>1. p[1] \in Nat /\ p[2] \in Nat /\ p[3] \in Nat /\ p[4] \in Nat
  BY DEF Quads
<1>2. <<f, k, s, 0>> \in Quads
  BY DEF Quads
<1>3. Ahead(p, <<f, k, s + 1, 0>>) <=> Ahead(p, <<f, k, s, 0>>) \/ (p[1] = f /\ p[2] = k /\ p[3] = s)
  BY <1>1 DEF Ahead
<1>4. Ahead(p, <<f, k + 1, 0, 0>>) <=>
        Ahead(p, <<f, k, s, 0>>) \/ (p[1] = f /\ p[2] = k /\ p[3] >= s)
  BY <1>1 DEF Ahead
<1>5. Ahead(p, <<f + 1, 1, 0, 0>>) <=>
        Ahead(p, <<f, k, 0, 0>>) \/ (p[1] = f /\ p[2] >= k) \/ (p[1] = f + 1 /\ p[2] = 0)
  BY <1>1 DEF Ahead
<1> QED
  BY <1>2, <1>3, <1>4, <1>5

\* A chunkset that can be read.
LEMMA SetTold ==
  ASSUME traces \in Seq(TraceFiles), NEW f \in 1..FileCount, NEW k \in Sets(f), place = <<f, k>>,
         AllGathered, InForce(f, k), NEW B \in Seq(RowSet), NEW b \in Nat,
         Told(Places, RowTable, Damages, B, b, <<f, k, 0, 0>>)
  PROVE  LET got == ParseSubs(Chunk(f, k))
         IN  got \in Accs /\ JoinTold(B, b, got, <<f, k + 1, 0, 0>>)
<1> DEFINE c == Chunk(f, k)
           subs == SubChunks(c)
           m == Len(subs)
           none == [rows |-> <<>>, errors |-> 0]
           h[n \in 0..Len(subs)] ==
             IF n = 0 THEN none ELSE ParseSub(h[n - 1], subs[n], <<f, k, n>>)
<1>1. /\ f \in Nat /\ k \in Nat /\ m \in Nat /\ k \notin DamagedChunks(f)
      /\ \A n \in 1..m : subs[n] = c.subs[n]
  BY SetsAreRead, ChunksOfFiles
<1>2. Preceding(f, k, "catalog") # {}
  BY DEF Sets
<1>3. ParseSubs(c) = h[m]
  BY DEF ParseSubs
<1>4. h = CHOOSE g : SubsTakenBy(g, none, subs, f, k)
  BY DEF SubsTakenBy
<1> HIDE DEF h
<1>5. ASSUME NEW n \in 1..m, NEW a \in Accs
      PROVE  LET res == ParseSub(a, subs[n], <<f, k, n>>)
             IN  /\ res \in Accs
                 /\ JoinTold(B, b, a, <<f, k, n, 0>>) => JoinTold(B, b, res, <<f, k, n + 1, 0>>)
  <2>1. LET res == ParseSub(a, c.subs[n], <<f, k, n>>)
        IN  /\ res \in Accs
            /\ JoinTold(B, b, a, <<f, k, n, 0>>) => JoinTold(B, b, res, <<f, k, n + 1, 0>>)
    BY <1>2, SubTold
  <2>2. subs[n] = c.subs[n]
    BY <1>1
  <2> QED
    BY <2>1, <2>2
<1>6. none \in Accs /\ B \o none.rows = B /\ b + none.errors = b
  BY DEF Accs
<1>7. JoinTold(B, b, none, <<f, k, 0, 0>>)
  BY <1>6 DEF JoinTold
<1> HIDE DEF none
<1>8. /\ h[0] = none
      /\ \A n \in 1..m : h[n] = ParseSub(h[n - 1], subs[n], <<f, k, n>>)
  <2>1. \A n \in 1..Len(subs) : \A a \in Accs : ParseSub(a, subs[n], <<f, k, n>>) \in Accs
    BY <1>5
  <2>2. Len(subs) \in Nat
    BY <1>1
  <2> HIDE DEF subs
  <2>3. SubsTakenBy(h, none, subs, f, k)
    <3>1. \E g : SubsTakenBy(g, none, subs, f, k)
      BY <1>6, <2>1, <2>2, SubsAreTaken
    <3> QED
      BY <1>4, <3>1
  <2>4. h[0] = none /\ \A n \in 1..Len(subs) : h[n] = ParseSub(h[n - 1], subs[n], <<f, k, n>>)
    <3>1. SubsFollow(h, none, subs, f, k)
      BY <2>2, <2>3, SubsTakenFollow
    <3> QED
      BY <3>1, Zenon DEF SubsFollow
  <2> QED
    BY <2>4
<1> HIDE DEF subs
<1>9. \A p \in Places \cup Damages :
        p \in Quads /\ (p[1] = f /\ p[2] = k => p[3] \in 1..m)
  <2> SUFFICES ASSUME NEW p \in Places \cup Damages
               PROVE  p \in Quads /\ (p[1] = f /\ p[2] = k => p[3] \in 1..m)
    OBVIOUS
  <2>1. /\ p \in Quads
        /\ \/ p[2] \in DamagedChunks(p[1])
           \/ p[3] \in 1..Len(SubChunks(Chunk(p[1], p[2])))
    BY MarksAreInside
  <2> QED
    BY <1>1, <2>1 DEF subs
<1>10. \A a \in Accs : \A u : \A v \in Quads : JoinTold(B, b, a, u) /\ Quiet(Places, Damages, u, v) => JoinTold(B, b, a, v)
  BY NothingPassed DEF JoinTold
<1> DEFINE K == { n \in 0..m : h[n] \in Accs /\ JoinTold(B, b, h[n], <<f, k, n + 1, 0>>) }
<1>11. 0 \in K
  <2>1. Quiet(Places, Damages, <<f, k, 0, 0>>, <<f, k, 0 + 1, 0>>)
    <3>1. \A p \in Quads : Ahead(p, <<f, k, 0 + 1, 0>>) <=> Ahead(p, <<f, k, 0, 0>>) \/ (p[1] = f /\ p[2] = k /\ p[3] = 0)
      <4> TAKE p \in Quads
      <4>1. p[1] \in Nat /\ p[2] \in Nat /\ p[3] \in Nat /\ p[4] \in Nat
        BY DEF Quads
      <4> QED
        BY <1>1, <4>1 DEF Ahead
    <3>2. 0 \notin 1..m
      OBVIOUS
    <3> QED
      BY <1>9, <3>1, <3>2 DEF Quiet
  <2>2. <<f, k, 0 + 1, 0>> \in Quads
    BY <1>1 DEF Quads
  <2>3. JoinTold(B, b, none, <<f, k, 0 + 1, 0>>)
    BY <1>6, <1>7, <1>10, <2>1, <2>2
  <2> QED
    BY <1>1, <1>6, <1>8, <2>3
<1>12. ASSUME NEW n \in 0..(m - 1), n \in K PROVE n + 1 \in K
  <2> DEFINE l == n + 1
  <2>1. l \in 1..m /\ l \in 0..m /\ l - 1 = n
    BY <1>1
  <2>2. h[n] \in Accs /\ JoinTold(B, b, h[n], <<f, k, l, 0>>)
    BY <1>12
  <2>3. h[l] = ParseSub(h[n], subs[l], <<f, k, l>>)
    BY <1>8, <2>1
  <2> HIDE DEF l
  <2>4. h[l] \in Accs /\ JoinTold(B, b, h[l], <<f, k, l + 1, 0>>)
    BY <1>5, <2>1, <2>2, <2>3
  <2>5. l \in K
    BY <2>1, <2>4
  <2> QED
    BY <2>5 DEF l
<1>13. m \in K
  <2>1. m \in Nat
    BY <1>1
  <2> HIDE DEF K, m
  <2>2. CountsUp(K, m)
    BY <1>11, <1>12 DEF CountsUp
  <2> QED
    BY <2>1, <2>2, CountedUp
<1>14. Quiet(Places, Damages, <<f, k, m + 1, 0>>, <<f, k + 1, 0, 0>>)
  <2>1. m + 1 \in Nat
    BY <1>1
  <2>2. \A p \in Quads : Ahead(p, <<f, k + 1, 0, 0>>) <=>
                           Ahead(p, <<f, k, m + 1, 0>>) \/ (p[1] = f /\ p[2] = k /\ p[3] >= m + 1)
    BY <1>1, <2>1, StepsOfPlaces
  <2>3. \A x \in 1..m : ~(x >= m + 1)
    BY <1>1
  <2> QED
    BY <1>9, <2>2, <2>3 DEF Quiet
<1>15. <<f, k + 1, 0, 0>> \in Quads
  BY <1>1 DEF Quads
<1>16. h[m] \in Accs /\ JoinTold(B, b, h[m], <<f, k, m + 1, 0>>)
  BY <1>13 DEF K
<1> QED
  BY <1>3, <1>10, <1>14, <1>15, <1>16

-----------------------------------------------------------------------------
(* From a chunk to the next, and from a file to the next.                      *)

LEMMA ChunkSkipped ==
  ASSUME traces \in Seq(TraceFiles), NEW f \in 1..FileCount, NEW k \in Nat,
         k \notin Sets(f), k \notin DamagedChunks(f)
  PROVE  Quiet(Places, Damages, <<f, k, 0, 0>>, <<f, k + 1, 0, 0>>)
<1>1. \A p \in Places \cup Damages : p \in Quads /\ ~(p[1] = f /\ p[2] = k)
  BY MarksAreInside
<1>2. f \in Nat /\ 0 \in Nat
  BY ChunksOfFiles
<1>3. \A p \in Quads : Ahead(p, <<f, k + 1, 0, 0>>) <=>
                         Ahead(p, <<f, k, 0, 0>>) \/ (p[1] = f /\ p[2] = k /\ p[3] >= 0)
  BY <1>2, StepsOfPlaces
<1> QED
  BY <1>1, <1>3 DEF Quiet

LEMMA ChunkDamaged ==
  ASSUME traces \in Seq(TraceFiles), NEW f \in 1..FileCount, NEW k \in DamagedChunks(f)
  PROVE  /\ Single(Places, Damages, <<f, k, 0, 0>>, <<f, k + 1, 0, 0>>)
         /\ <<f, k, 0, 0>> \in Damages /\ <<f, k, 0, 0>> \notin Places
         /\ <<f, k, 0, 0>> \in Quads /\ <<f, k + 1, 0, 0>> \in Quads
<1>1. k \notin Sets(f)
  BY SetsAreRead
<1>2. f \in Nat /\ 0 \in Nat /\ k \in Nat
  BY ChunksOfFiles DEF DamagedChunks, Reached
<1>3. ASSUME NEW p \in Places \cup Damages
      PROVE  p \in Quads /\ (p[1] = f /\ p[2] = k /\ p[3] >= 0 <=> p = <<f, k, 0, 0>>)
  <2>1. p \in Quads /\ (p[2] \in Sets(p[1]) \/ (p[3] = 0 /\ p[4] = 0))
    BY MarksAreInside
  <2>2. p = <<p[1], p[2], p[3], p[4]>>
    BY <2>1, QuadsAreOrdered
  <2> QED
    BY <1>1, <2>1, <2>2
<1>4. \A p \in Quads : Ahead(p, <<f, k + 1, 0, 0>>) <=>
                         Ahead(p, <<f, k, 0, 0>>) \/ (p[1] = f /\ p[2] = k /\ p[3] >= 0)
  BY <1>2, StepsOfPlaces
<1>5. <<f, k, 0, 0>> \in Quads /\ <<f, k + 1, 0, 0>> \in Quads
  BY <1>2 DEF Quads
<1>6. <<f, k, 0, 0>> \in Damages /\ <<f, k, 0, 0>> \notin Places
  BY MarksAtSlots
<1>7. Single(Places, Damages, <<f, k, 0, 0>>, <<f, k + 1, 0, 0>>)
  BY <1>3, <1>4 DEF Single
<1> QED
  BY <1>5, <1>6, <1>7

LEMMA FileLeft ==
  ASSUME traces \in Seq(TraceFiles), NEW f \in 1..FileCount, NEW k \in Nat,
         \A p \in Places \cup Damages : p[1] = f => p[2] < k
  PROVE  Quiet(Places, Damages, <<f, k, 0, 0>>, <<f + 1, 1, 0, 0>>)
<1>1. \A p \in Places \cup Damages : p \in Quads /\ p[2] # 0
  <2> SUFFICES ASSUME NEW p \in Places \cup Damages PROVE p \in Quads /\ p[2] # 0
    OBVIOUS
  <2>1. p \in Quads /\ p[1] \in 1..FileCount /\ p[2] \in 1..Len(FileAt(p[1]))
    BY MarksAreInside
  <2> QED
    BY <2>1
<1>2. \A p \in Places \cup Damages : ~(p[1] = f /\ p[2] >= k)
  <2>1. \A p \in Quads : p[2] \in Nat
    BY DEF Quads
  <2> QED
    BY <1>1, <2>1
<1>3. f \in Nat /\ 0 \in Nat
  BY ChunksOfFiles
<1>4. \A p \in Quads : Ahead(p, <<f + 1, 1, 0, 0>>) <=>
        Ahead(p, <<f, k, 0, 0>>) \/ (p[1] = f /\ p[2] >= k) \/ (p[1] = f + 1 /\ p[2] = 0)
  BY <1>3, StepsOfPlaces
<1> QED
  BY <1>1, <1>2, <1>4 DEF Quiet

\* Nothing is read behind what breaks the file.
LEMMA NoneBehind ==
  ASSUME traces \in Seq(TraceFiles), NEW f \in 1..FileCount, NEW k \in Nat,
         k = Len(FileAt(f)) + 1 \/ (k \in 1..Len(FileAt(f)) /\ Broken(f, k))
  PROVE  \A p \in Places \cup Damages : p[1] = f => p[2] < k + 1
<1> SUFFICES ASSUME NEW p \in Places \cup Damages, p[1] = f PROVE p[2] < k + 1
  OBVIOUS
<1>1. p[2] \in Reached(f) /\ p[2] \in 1..Len(FileAt(f)) /\ Len(FileAt(f)) \in Nat
  BY MarksAreInside, ChunksOfFiles
<1>2. \A j \in 1..p[2] - 1 : ~Broken(f, j)
  BY <1>1 DEF Reached
<1> HIDE DEF Broken
<1> QED
  BY <1>1, <1>2

-----------------------------------------------------------------------------
(* The archive is what it was: nothing said of it changes with a step.         *)

LEMMA SameChunks ==
  ASSUME traces' = traces
  PROVE  /\ FileCount' = FileCount
         /\ \A f : FileAt(f)' = FileAt(f)
         /\ \A f, k : Chunk(f, k)' = Chunk(f, k)
<1>1. FileCount' = FileCount
  BY DEF FileCount
<1>2. \A f : FileAt(f)' = FileAt(f)
  BY DEF FileAt
<1>3. \A f, k : Chunk(f, k)' = Chunk(f, k)
  BY DEF Chunk, FileAt
<1> QED
  BY <1>1, <1>2, <1>3

LEMMA SameReading ==
  ASSUME traces' = traces
  PROVE  /\ \A f, k, is : Preceding(f, k, is)' = Preceding(f, k, is)
         /\ \A f, k : Broken(f, k)' <=> Broken(f, k)
         /\ \A f : Reached(f)' = Reached(f)
         /\ \A f : Sets(f)' = Sets(f)
         /\ \A f : DamagedChunks(f)' = DamagedChunks(f)
         /\ \A f, k : Subs(f, k)' = Subs(f, k)
         /\ \A f, k : CatalogIn(f, k)' = CatalogIn(f, k)
         /\ \A f, k : BootIn(f, k)' = BootIn(f, k)
<1>1. \A f, k, is : Preceding(f, k, is)' = Preceding(f, k, is)
  <2> TAKE f, k, is
  <2> QED
    BY SameChunks DEF Preceding
<1>2. \A f, k : Broken(f, k)' <=> Broken(f, k)
  <2> TAKE f, k
  <2> QED
    BY <1>1, SameChunks DEF Broken
<1>3. \A f : Reached(f)' = Reached(f)
  <2> TAKE f
  <2> QED
    BY <1>2, SameChunks DEF Reached
<1>4. \A f : Sets(f)' = Sets(f)
  <2> TAKE f
  <2> QED
    BY <1>1, <1>3, SameChunks DEF Sets
<1>5. \A f : DamagedChunks(f)' = DamagedChunks(f)
  <2> TAKE f
  <2> QED
    BY <1>1, <1>3, SameChunks DEF DamagedChunks
<1>6. \A f, k : Subs(f, k)' = Subs(f, k)
  <2> TAKE f, k
  <2> QED
    BY SameChunks DEF Subs
<1>7. \A f, k : CatalogIn(f, k)' = CatalogIn(f, k)
  <2> TAKE f, k
  <2> QED
    BY <1>1, SameChunks DEF CatalogIn
<1>8. \A f, k : BootIn(f, k)' = BootIn(f, k)
  <2> TAKE f, k
  <2> QED
    BY <1>1, SameChunks DEF BootIn
<1> QED
  BY <1>1, <1>2, <1>3, <1>4, <1>5, <1>6, <1>7, <1>8

LEMMA SameRows ==
  ASSUME traces' = traces
  PROVE  /\ \A p : SubAt(p)' = SubAt(p)
         /\ AllSubs' = AllSubs
         /\ \A key, ref : Oversized(key, ref)' = Oversized(key, ref)
         /\ Places' = Places /\ Damages' = Damages /\ RowTable' = RowTable /\ RowSet' = RowSet
         /\ Expected' = Expected
<1>1. \A p : SubAt(p)' = SubAt(p)
  <2> TAKE p
  <2> QED
    BY SameChunks DEF SubAt
<1>2. AllSubs' = AllSubs
  BY SameChunks, SameReading DEF AllSubs
<1>3. \A key, ref : Oversized(key, ref)' = Oversized(key, ref)
  <2> TAKE key, ref
  <2> QED
    BY <1>1, <1>2 DEF Oversized
<1>4. Places' = Places
  BY <1>1, <1>2 DEF Places
<1>5. Damages' = Damages
  <2> DEFINE X == UNION { { <<f, k, 0, 0>> : k \in DamagedChunks(f) } : f \in 1 .. FileCount }
             Y == UNION { { Within(p, i) : i \in Damaged(SubAt(p)) } : p \in AllSubs }
  <2>1. X' = X
    BY SameChunks, SameReading
  <2>2. Y' = Y
    BY <1>1, <1>2
  <2>3. Damages = X \cup Y /\ Damages' = X' \cup Y'
    BY DEF Damages
  <2> HIDE DEF X, Y
  <2> QED
    BY <2>1, <2>2, <2>3
<1>6. \A p : TextAt(p)' = TextAt(p)
  <2> TAKE p
  <2> QED
    BY <1>1, <1>3 DEF TextAt
<1>7. \A p : ExpectedRow(p)' = ExpectedRow(p)
  <2> TAKE p
  <2> QED
    BY <1>1, <1>6, SameReading DEF ExpectedRow
<1>8. RowTable' = RowTable
  BY <1>4, <1>7 DEF RowTable
<1>9. RowSet' = RowSet
  BY <1>4, <1>8 DEF RowSet
<1>10. Expected' = Expected
  BY <1>4, <1>7 DEF Expected
<1> QED
  BY <1>1, <1>2, <1>3, <1>4, <1>5, <1>8, <1>9, <1>10

-----------------------------------------------------------------------------
(* The catalog and the boot in force, from a chunk to the next.                *)

LEMMA NextPreceding ==
  ASSUME NEW f, NEW k \in Nat, k >= 1, NEW is
  PROVE  IF Chunk(f, k).is = is /\ Chunk(f, k).whole
         THEN Preceding(f, k + 1, is) = Preceding(f, k, is) \cup {k} /\ Max(Preceding(f, k + 1, is)) = k
         ELSE Preceding(f, k + 1, is) = Preceding(f, k, is)
<1>1. \A j : j \in 1 .. (k + 1) - 1 <=> j \in 1 .. k - 1 \/ j = k
  OBVIOUS
<1>2. CASE ~(Chunk(f, k).is = is /\ Chunk(f, k).whole)
  BY <1>1, <1>2 DEF Preceding
<1>3. CASE Chunk(f, k).is = is /\ Chunk(f, k).whole
  <2> DEFINE S == Preceding(f, k + 1, is)
  <2>1. S = Preceding(f, k, is) \cup {k}
    BY <1>1, <1>3 DEF Preceding
  <2>2. k \in S /\ S \subseteq 1..k
    BY <2>1 DEF Preceding
  <2> HIDE DEF S
  <2>3. Max(S) \in S /\ \A x \in S : x <= Max(S)
    BY <2>2, EndsOfNumbers
  <2>4. Max(S) = k
    <3>1. Max(S) \in 1..k /\ k <= Max(S)
      BY <2>2, <2>3
    <3> QED
      BY <3>1
  <2> QED
    BY <1>3, <2>1, <2>4 DEF S
<1> QED
  BY <1>2, <1>3

LEMMA NonePreceding ==
  \A f, is : Preceding(f, 1, is) = {}
BY DEF Preceding

\* What the catalog and the boot are at a chunk, from what they are at the one before.
CatalogFor(f, k) == IF Preceding(f, k, "catalog") = {} THEN <<>> ELSE << ParseCatalog(CatalogIn(f, k)) >>

LEMMA CatalogsGoOn ==
  ASSUME NEW f, NEW k \in Nat, k >= 1
  PROVE  CatalogFor(f, k + 1) = IF Chunk(f, k).is = "catalog" /\ Chunk(f, k).whole
                                THEN << ParseCatalog(Chunk(f, k)) >> ELSE CatalogFor(f, k)
<1>1. CASE Chunk(f, k).is = "catalog" /\ Chunk(f, k).whole
  <2>1. Preceding(f, k + 1, "catalog") # {} /\ Max(Preceding(f, k + 1, "catalog")) = k
    BY <1>1, NextPreceding
  <2>2. CatalogIn(f, k + 1) = Chunk(f, k)
    BY <2>1 DEF CatalogIn
  <2> QED
    BY <1>1, <2>1, <2>2 DEF CatalogFor
<1>2. CASE ~(Chunk(f, k).is = "catalog" /\ Chunk(f, k).whole)
  <2>1. Preceding(f, k + 1, "catalog") = Preceding(f, k, "catalog")
    BY <1>2, NextPreceding
  <2>2. CatalogIn(f, k + 1) = CatalogIn(f, k)
    BY <2>1 DEF CatalogIn
  <2> QED
    BY <1>2, <2>1, <2>2 DEF CatalogFor
<1> QED
  BY <1>1, <1>2

LEMMA BootsGoOn ==
  ASSUME NEW f, NEW k \in Nat, k >= 1
  PROVE  BootIn(f, k + 1) = IF Chunk(f, k).is = "header" /\ Chunk(f, k).whole
                            THEN Chunk(f, k).boot ELSE BootIn(f, k)
<1>1. CASE Chunk(f, k).is = "header" /\ Chunk(f, k).whole
  <2>1. Preceding(f, k + 1, "header") # {} /\ Max(Preceding(f, k + 1, "header")) = k
    BY <1>1, NextPreceding
  <2> QED
    BY <1>1, <2>1 DEF BootIn
<1>2. CASE ~(Chunk(f, k).is = "header" /\ Chunk(f, k).whole)
  <2>1. Preceding(f, k + 1, "header") = Preceding(f, k, "header")
    BY <1>2, NextPreceding
  <2> QED
    BY <1>2, <2>1 DEF BootIn
<1> QED
  BY <1>1, <1>2

LEMMA NothingInForce ==
  \A f : CatalogFor(f, 1) = <<>> /\ BootIn(f, 1) = ""
BY NonePreceding DEF CatalogFor, BootIn

-----------------------------------------------------------------------------
(* The oversize pass: the cache has, of what lies before the chunk to be read, *)
(* the newest text of each reference.                                          *)

OversizedBefore(key, ref, f, k) == { p \in Oversized(key, ref) : Ahead(Within(p, 0), <<f, k, 0, 0>>) }

GatheredIn(had, f, k) ==
  \A key, ref :
    /\ <<key, ref>> \in DOMAIN had <=> OversizedBefore(key, ref, f, k) # {}
    /\ <<key, ref>> \in DOMAIN had =>
         had[<<key, ref>>] = SubAt(NewestOf(OversizedBefore(key, ref, f, k))).text

LEMMA PlacesOfSubs ==
  ASSUME traces \in Seq(TraceFiles), NEW p \in AllSubs
  PROVE  /\ p = <<p[1], p[2], p[3]>> /\ p[1] \in Nat /\ p[2] \in Nat /\ p[3] \in Nat
         /\ p[1] \in 1..FileCount /\ p[2] \in Sets(p[1]) /\ p[2] \in Reached(p[1])
         /\ p[2] \in 1..Len(FileAt(p[1])) /\ p[3] \in 1..Len(SubChunks(Chunk(p[1], p[2])))
         /\ Within(p, 0) \in Quads
         /\ \A f \in Nat, k \in Nat : Ahead(Within(p, 0), <<f, k, 0, 0>>) <=> p[1] < f \/ (p[1] = f /\ p[2] < k)
<1>1. PICK f \in 1..FileCount : \E k \in Sets(f) : \E s \in Subs(f, k) : p = <<f, k, s>>
  BY WhereSubsAre
<1>2. PICK k \in Sets(f) : \E s \in Subs(f, k) : p = <<f, k, s>>
  BY <1>1
<1>3. PICK s \in Subs(f, k) : p = <<f, k, s>>
  BY <1>2
<1>4. /\ f \in Nat /\ k \in Nat /\ k \in 1..Len(FileAt(f)) /\ k \in Reached(f)
      /\ s \in 1..Len(SubChunks(Chunk(f, k))) /\ s \in Nat
  BY SetsAreRead, ChunksOfFiles
<1>5. p[1] = f /\ p[2] = k /\ p[3] = s
  BY <1>3
<1>6. Within(p, 0) = <<p[1], p[2], p[3], 0>>
  BY DEF Within
<1>7. Within(p, 0) \in Quads
  BY <1>4, <1>5, <1>6 DEF Quads
<1>8. \A g \in Nat, l \in Nat : Ahead(Within(p, 0), <<g, l, 0, 0>>) <=> p[1] < g \/ (p[1] = g /\ p[2] < l)
  BY <1>4, <1>5, <1>6 DEF Ahead
<1> QED
  BY <1>3, <1>4, <1>5, <1>7, <1>8

LEMMA NewestIs ==
  ASSUME NEW S, NEW q \in S, traces \in Seq(TraceFiles), S \subseteq AllSubs,
         \A p \in S : ~Ahead(Within(q, 0), Within(p, 0))
  PROVE  NewestOf(S) = q
<1> DEFINE n == NewestOf(S)
<1>1. n \in S /\ \A p \in S : ~Ahead(Within(n, 0), Within(p, 0))
  BY Zenon DEF NewestOf
<1> HIDE DEF n
<1>2. Within(n, 0) \in Quads /\ Within(q, 0) \in Quads
  BY <1>1, PlacesOfSubs
<1>3. Within(n, 0) = Within(q, 0)
  BY <1>1, <1>2, QuadsAreOrdered
<1>4. n[1] = q[1] /\ n[2] = q[2] /\ n[3] = q[3]
  BY <1>3 DEF Within
<1>5. n = <<n[1], n[2], n[3]>> /\ q = <<q[1], q[2], q[3]>>
  BY <1>1, PlacesOfSubs
<1> QED
  BY <1>4, <1>5 DEF n

LEMMA OversizedAreSubs ==
  \A key, ref, f, k : /\ Oversized(key, ref) \subseteq AllSubs
                      /\ OversizedBefore(key, ref, f, k) \subseteq Oversized(key, ref)
BY DEF Oversized, OversizedBefore

\* The same sub-chunks lie before both chunks.
SameAhead(f, k, g, l) ==
  \A p \in AllSubs : p[1] < g \/ (p[1] = g /\ p[2] < l) <=> p[1] < f \/ (p[1] = f /\ p[2] < k)

\* A chunk without sub-chunks to read; the end of a file; the beginning and the end of all.
LEMMA SameBefore ==
  ASSUME NEW f \in Nat, NEW k \in Nat, NEW g \in Nat, NEW l \in Nat, NEW had,
         traces \in Seq(TraceFiles), SameAhead(f, k, g, l), GatheredIn(had, f, k)
  PROVE  GatheredIn(had, g, l)
<1>1. \A key, ref : OversizedBefore(key, ref, g, l) = OversizedBefore(key, ref, f, k)
  <2> TAKE key, ref
  <2>1. \A p \in Oversized(key, ref) : Ahead(Within(p, 0), <<g, l, 0, 0>>) <=> Ahead(Within(p, 0), <<f, k, 0, 0>>)
    BY PlacesOfSubs, OversizedAreSubs DEF SameAhead
  <2> QED
    BY <2>1 DEF OversizedBefore
<1> QED
  BY <1>1 DEF GatheredIn

LEMMA ChunkGathersNothing ==
  ASSUME NEW f \in Nat, NEW k \in Nat, NEW had,
         traces \in Seq(TraceFiles), k \notin Sets(f), GatheredIn(had, f, k)
  PROVE  GatheredIn(had, f, k + 1)
<1>1. \A p \in AllSubs : p[1] \in Nat /\ p[2] \in Nat /\ ~(p[1] = f /\ p[2] = k)
  BY PlacesOfSubs
<1> DEFINE l == k + 1
<1>2. SameAhead(f, k, f, l)
  BY <1>1 DEF SameAhead
<1>3. l \in Nat
  OBVIOUS
<1> HIDE DEF l
<1>4. GatheredIn(had, f, l)
  BY <1>2, <1>3, SameBefore
<1> QED
  BY <1>4 DEF l

LEMMA FileGathered ==
  ASSUME NEW f \in Nat, NEW k \in Nat, NEW had,
         traces \in Seq(TraceFiles), \A p \in AllSubs : p[1] = f => p[2] < k, GatheredIn(had, f, k)
  PROVE  GatheredIn(had, f + 1, 1)
<1>1. \A p \in AllSubs : p[1] \in Nat /\ p[2] \in Nat /\ p[2] # 0
  BY PlacesOfSubs
<1> DEFINE g == f + 1
<1>2. SameAhead(f, k, g, 1)
  BY <1>1 DEF SameAhead
<1>3. g \in Nat
  OBVIOUS
<1> HIDE DEF g
<1>4. GatheredIn(had, g, 1)
  BY <1>2, <1>3, SameBefore
<1> QED
  BY <1>4 DEF g

LEMMA NothingGathered ==
  ASSUME traces \in Seq(TraceFiles)
  PROVE  GatheredIn(<<>>, 1, 1)
<1>1. \A p \in AllSubs : p[1] \in Nat /\ p[2] \in Nat /\ p[1] # 0 /\ p[2] # 0
  BY PlacesOfSubs
<1>2. \A key, ref : OversizedBefore(key, ref, 1, 1) = {}
  <2> TAKE key, ref
  <2>1. \A p \in AllSubs : ~Ahead(Within(p, 0), <<1, 1, 0, 0>>)
    <3> TAKE p \in AllSubs
    <3>1. Ahead(Within(p, 0), <<1, 1, 0, 0>>) <=> p[1] < 1 \/ (p[1] = 1 /\ p[2] < 1)
      BY PlacesOfSubs
    <3> QED
      BY <1>1, <3>1
  <2> QED
    BY <2>1, OversizedAreSubs DEF OversizedBefore
<1>3. DOMAIN <<>> = {}
  OBVIOUS
<1> QED
  BY <1>2, <1>3 DEF GatheredIn

LEMMA EverythingGathered ==
  ASSUME traces \in Seq(TraceFiles), GatheredIn(oversize, FileCount + 1, 1)
  PROVE  AllGathered
<1>1. \A p \in AllSubs : Ahead(Within(p, 0), <<FileCount + 1, 1, 0, 0>>)
  <2> TAKE p \in AllSubs
  <2>1. FileCount \in Nat /\ p[1] \in 1..FileCount
    BY PlacesOfSubs, ChunksOfFiles
  <2>2. p[1] < FileCount + 1
    BY <2>1
  <2> QED
    BY <2>2 DEF Ahead, Within
<1>2. \A key, ref : OversizedBefore(key, ref, FileCount + 1, 1) = Oversized(key, ref)
  BY <1>1, OversizedAreSubs DEF OversizedBefore
<1> QED
  BY <1>2 DEF GatheredIn, AllGathered

\* The sub-chunks of a chunkset: the last of a reference replaces what was there.
LEMMA SetGathered ==
  ASSUME NEW f \in 1..FileCount, NEW k \in Sets(f), NEW had,
         traces \in Seq(TraceFiles), GatheredIn(had, f, k)
  PROVE  GatheredIn(PutOversize(had, SubChunks(Chunk(f, k))), f, k + 1)
<1> DEFINE c == Chunk(f, k)
           subs == SubChunks(c)
           m == Len(subs)
           Of(i) == <<subs[i].key, subs[i].ref>>
           good == { i \in DOMAIN subs : subs[i].is = "oversize" /\ ParseOversize(subs[i]) # <<>> }
           Newest(x) == subs[Max({ i \in good : Of(i) = x })]
           put == PutOversize(had, subs)
<1>1. /\ f \in Nat /\ k \in Nat /\ m \in Nat /\ Subs(f, k) = 1..m
      /\ \A i \in 1..m : subs[i] = c.subs[i] /\ subs[i] \in SubRecords
  BY SetsAreRead, ChunksOfFiles
<1>2. DOMAIN subs = 1..m
  <2>1. c.subs \in Seq(SubRecords)
    <3>1. k \in 1..Len(FileAt(f)) /\ c.is = "chunkset"
      BY SetsAreRead DEF Sets
    <3> QED
      BY <3>1, ChunksOfFiles, KindsOfChunks
  <2>2. subs \in Seq(SubRecords)
    BY <2>1, SubChunksAreSubs
  <2> QED
    BY <2>2, LenProperties
<1>3. put = [x \in DOMAIN had \cup { Of(i) : i \in good } |->
               IF x \in { Of(i) : i \in good } THEN ParseOversize(Newest(x))[1] ELSE had[x]]
  BY DEF PutOversize
<1>4. \A i : i \in good <=> i \in 1..m /\ c.subs[i].is = "oversize" /\ c.subs[i].whole
  <2>1. \A i \in 1..m : c.subs[i].whole \in BOOLEAN
    BY <1>1, KindsOfSubs
  <2>2. \A i \in 1..m : ParseOversize(c.subs[i]) # <<>> <=> c.subs[i].whole
    BY <2>1 DEF ParseOversize
  <2> QED
    BY <1>1, <1>2, <2>2
<1>5. \A i \in good : /\ i \in 1..m /\ subs[i] = c.subs[i] /\ Of(i) = <<c.subs[i].key, c.subs[i].ref>>
                        /\ ParseOversize(subs[i])[1] = c.subs[i].text
  BY <1>1, <1>4 DEF ParseOversize
<1> HIDE DEF good, put, Newest, subs, m
<1>6. \A i \in 1..m : <<f, k, i>> \in AllSubs /\ SubAt(<<f, k, i>>) = c.subs[i]
  BY <1>1, WhereSubsAre DEF SubAt
<1> SUFFICES ASSUME NEW key, NEW ref
             PROVE  /\ <<key, ref>> \in DOMAIN put <=> OversizedBefore(key, ref, f, k + 1) # {}
                    /\ <<key, ref>> \in DOMAIN put =>
                         put[<<key, ref>>] = SubAt(NewestOf(OversizedBefore(key, ref, f, k + 1))).text
  BY DEF GatheredIn, put, subs
<1> DEFINE x  == <<key, ref>>
           W  == { i \in good : Of(i) = x }
           B1 == OversizedBefore(key, ref, f, k)
           B2 == OversizedBefore(key, ref, f, k + 1)
<1>7. \A i \in W : i \in 1..m /\ i \in good /\ Of(i) = x /\ c.subs[i].key = key /\ c.subs[i].ref = ref
  BY <1>5
<1>8. \A p : p \in B2 <=> p \in B1 \/ \E i \in W : p = <<f, k, i>>
  <2>1. ASSUME NEW p \in B1 PROVE p \in B2
    <3>1. /\ p \in AllSubs /\ p \in Oversized(key, ref) /\ Ahead(Within(p, 0), <<f, k, 0, 0>>)
          /\ k + 1 \in Nat
      BY <1>1, OversizedAreSubs DEF OversizedBefore
    <3>2. /\ Ahead(Within(p, 0), <<f, k, 0, 0>>) <=> p[1] < f \/ (p[1] = f /\ p[2] < k)
          /\ Ahead(Within(p, 0), <<f, k + 1, 0, 0>>) <=> p[1] < f \/ (p[1] = f /\ p[2] < k + 1)
          /\ p[1] \in Nat /\ p[2] \in Nat
      BY <1>1, <3>1, PlacesOfSubs
    <3>3. Ahead(Within(p, 0), <<f, k + 1, 0, 0>>)
      BY <1>1, <3>1, <3>2
    <3> QED
      BY <3>1, <3>3 DEF OversizedBefore
  <2>2. ASSUME NEW i \in W, NEW p, p = <<f, k, i>> PROVE p \in B2
    <3>1. p \in AllSubs /\ SubAt(p) = c.subs[i] /\ p[1] = f /\ p[2] = k /\ k + 1 \in Nat
      BY <1>1, <1>6, <1>7, <2>2
    <3>2. p \in Oversized(key, ref)
      BY <1>4, <1>7, <3>1 DEF Oversized
    <3>3. Ahead(Within(p, 0), <<f, k + 1, 0, 0>>) <=> p[1] < f \/ (p[1] = f /\ p[2] < k + 1)
      BY <1>1, <3>1, PlacesOfSubs
    <3>4. Ahead(Within(p, 0), <<f, k + 1, 0, 0>>)
      BY <1>1, <3>1, <3>3
    <3> QED
      BY <3>2, <3>4 DEF OversizedBefore
  <2>3. ASSUME NEW p \in B2, p \notin B1 PROVE \E i \in W : p = <<f, k, i>>
    <3>1. /\ p \in AllSubs /\ p \in Oversized(key, ref) /\ Ahead(Within(p, 0), <<f, k + 1, 0, 0>>)
          /\ ~Ahead(Within(p, 0), <<f, k, 0, 0>>) /\ k + 1 \in Nat
      BY <1>1, <2>3, OversizedAreSubs DEF OversizedBefore
    <3>2. /\ Ahead(Within(p, 0), <<f, k, 0, 0>>) <=> p[1] < f \/ (p[1] = f /\ p[2] < k)
          /\ Ahead(Within(p, 0), <<f, k + 1, 0, 0>>) <=> p[1] < f \/ (p[1] = f /\ p[2] < k + 1)
          /\ p[1] \in Nat /\ p[2] \in Nat /\ p = <<p[1], p[2], p[3]>>
          /\ p[3] \in 1..Len(SubChunks(Chunk(p[1], p[2])))
      BY <1>1, <3>1, PlacesOfSubs
    <3>3. p[1] = f /\ p[2] = k
      BY <1>1, <3>1, <3>2
    <3>4. p[3] \in 1..m /\ p = <<f, k, p[3]>>
      BY <3>2, <3>3 DEF m, subs
    <3>5. SubAt(p) = c.subs[p[3]]
      BY <1>6, <3>4
    <3>6. /\ c.subs[p[3]].is = "oversize" /\ c.subs[p[3]].whole
          /\ c.subs[p[3]].key = key /\ c.subs[p[3]].ref = ref
      BY <3>1, <3>5 DEF Oversized
    <3>7. p[3] \in good
      BY <1>4, <3>4, <3>6
    <3>8. p[3] \in W
      BY <1>5, <3>6, <3>7
    <3> QED
      BY <3>4, <3>8
  <2> QED
    BY <2>1, <2>2, <2>3
<1>9. x \in { Of(i) : i \in good } <=> W # {}
  OBVIOUS
<1>10. DOMAIN put = DOMAIN had \cup { Of(i) : i \in good }
  BY <1>3
<1>11. /\ x \in DOMAIN had <=> B1 # {}
       /\ x \in DOMAIN had => had[x] = SubAt(NewestOf(B1)).text
  BY DEF GatheredIn
<1>12. CASE W = {}
  <2>1. B2 = B1
    BY <1>8, <1>12
  <2>2. x \in DOMAIN put <=> x \in DOMAIN had
    BY <1>9, <1>10, <1>12
  <2>3. x \in DOMAIN put => put[x] = had[x]
    BY <1>3, <1>9, <1>12
  <2> QED
    BY <1>11, <2>1, <2>2, <2>3
<1>13. CASE W # {}
  <2> DEFINE l == Max(W)
             q == <<f, k, l>>
  <2>1. l \in W /\ \A i \in W : i <= l
    <3>1. W \subseteq 1..m
      BY <1>7
    <3> HIDE DEF W
    <3> QED
      BY <1>1, <1>13, <3>1, EndsOfNumbers
  <2>2. x \in DOMAIN put /\ put[x] = ParseOversize(Newest(x))[1]
    BY <1>3, <1>9, <1>10, <1>13
  <2>3. Newest(x) = subs[l]
    BY DEF Newest
  <2> HIDE DEF l, W
  <2>4. l \in good /\ l \in 1..m
    BY <1>7, <2>1
  <2>5. put[x] = c.subs[l].text
    BY <1>5, <2>2, <2>3, <2>4
  <2>6. q \in B2 /\ SubAt(q) = c.subs[l]
    BY <1>6, <1>8, <2>1, <2>4
  <2>7. \A p \in B2 : ~Ahead(Within(q, 0), Within(p, 0))
    <3> SUFFICES ASSUME NEW p \in B2 PROVE ~Ahead(Within(q, 0), Within(p, 0))
      OBVIOUS
    <3>1. /\ Within(q, 0) = <<f, k, l, 0>> /\ Within(p, 0) = <<p[1], p[2], p[3], 0>>
          /\ l \in Nat
      BY <1>1, <2>4 DEF Within
    <3>2. CASE p \in B1
      <4>1. p \in AllSubs /\ Ahead(Within(p, 0), <<f, k, 0, 0>>)
        BY <3>2, OversizedAreSubs DEF OversizedBefore
      <4>2. (p[1] < f \/ (p[1] = f /\ p[2] < k)) /\ p[1] \in Nat /\ p[2] \in Nat
        BY <1>1, <4>1, PlacesOfSubs
      <4> QED
        BY <1>1, <3>1, <4>2 DEF Ahead
    <3>3. CASE p \notin B1
      <4>1. PICK i \in W : p = <<f, k, i>>
        BY <1>8, <3>3
      <4>2. p[1] = f /\ p[2] = k /\ p[3] = i /\ i <= l /\ i \in Nat
        BY <1>1, <1>7, <2>1, <4>1
      <4> QED
        BY <1>1, <3>1, <4>2 DEF Ahead
    <3> QED
      BY <3>2, <3>3
  <2>8. B2 \subseteq AllSubs
    BY OversizedAreSubs
  <2> HIDE DEF B2, q
  <2>9. NewestOf(B2) = q
    BY <2>6, <2>7, <2>8, NewestIs
  <2> QED
    BY <2>2, <2>5, <2>6, <2>9 DEF B2
<1> QED
  BY <1>12, <1>13

-----------------------------------------------------------------------------
(* The invariant of both passes: what the cache, the catalog, the boot, the   *)
(* rows and the count have taken from the archive before the chunk to be read. *)

PlaceOk(f, k) ==
  /\ f \in 1..(FileCount + 1) /\ k \in Nat /\ k >= 1
  /\ f = FileCount + 1 => k = 1
  /\ f \in 1..FileCount => /\ k <= Len(FileAt(f)) + 1
                           /\ \A j \in 1..k - 1 : ~Broken(f, j)
PlaceHolds == place = <<place[1], place[2]>> /\ PlaceOk(place[1], place[2])

CollectHolds ==
  /\ catalog = CatalogFor(place[1], place[2]) /\ bootUuid = ""
  /\ GatheredIn(oversize, place[1], place[2])
  /\ emitted = <<>> /\ errors = 0

ParseHolds ==
  /\ catalog = CatalogFor(place[1], place[2]) /\ bootUuid = BootIn(place[1], place[2])
  /\ AllGathered
  /\ errors \in Nat
  /\ Told(Places, RowTable, Damages, emitted, errors, <<place[1], place[2], 0, 0>>)

ChunksInv ==
  /\ traces \in Seq(TraceFiles)
  /\ pass \in {"oversize", "parse", "end", "cancelled"}
  /\ PlaceHolds
  /\ pass = "oversize" => CollectHolds
  /\ pass = "parse" => ParseHolds
  /\ pass = "end" => Told(Places, RowTable, Damages, emitted, errors, <<FileCount + 1, 1, 0, 0>>)
  /\ pass = "cancelled" => \E q : Told(Places, RowTable, Damages, emitted, errors, q)

\* The places: where a pass stands, how it goes on in a file and from file to file.
LEMMA WhereItStands ==
  ASSUME traces \in Seq(TraceFiles), PlaceHolds, place[1] <= FileCount
  PROVE  /\ place[1] \in 1..FileCount /\ place[1] \in Nat /\ place[2] \in Nat /\ place[2] >= 1
         /\ ChunkAt(place) = Chunk(place[1], place[2])
         /\ FileCount \in Nat /\ Len(FileAt(place[1])) \in Nat
         /\ place[2] \in 1..(Len(FileAt(place[1])) + 1)
<1>1. FileCount \in Nat
  BY ChunksOfFiles
<1>2. place[1] \in 1..FileCount /\ place[2] \in Nat /\ place[2] >= 1
  BY <1>1 DEF PlaceHolds, PlaceOk
<1>3. Len(FileAt(place[1])) \in Nat
  BY <1>2, ChunksOfFiles
<1>4. ChunkAt(place) = Chunk(place[1], place[2])
  BY DEF ChunkAt, Chunk
<1>5. place[2] <= Len(FileAt(place[1])) + 1
  BY <1>2 DEF PlaceHolds, PlaceOk
<1> QED
  BY <1>1, <1>2, <1>3, <1>4, <1>5

LEMMA PlaceGoesOn ==
  ASSUME NEW f \in 1..FileCount, NEW k,
         traces \in Seq(TraceFiles), PlaceOk(f, k), k \in 1..Len(FileAt(f)), ~Broken(f, k)
  PROVE  PlaceOk(f, k + 1)
<1>1. FileCount \in Nat /\ Len(FileAt(f)) \in Nat /\ k \in Nat /\ k >= 1
  BY ChunksOfFiles DEF PlaceOk
<1>2. \A j \in 1..(k + 1) - 1 : j \in 1..k - 1 \/ j = k
  BY <1>1
<1>3. \A j \in 1..(k + 1) - 1 : ~Broken(f, j)
  BY <1>2 DEF PlaceOk
<1> QED
  BY <1>1, <1>3 DEF PlaceOk

LEMMA FileGoesOn ==
  ASSUME NEW f \in 1..FileCount, traces \in Seq(TraceFiles)
  PROVE  PlaceOk(f + 1, 1)
<1>1. FileCount \in Nat /\ f + 1 \in 1..(FileCount + 1)
  BY ChunksOfFiles
<1>2. f + 1 \in 1..FileCount => Len(FileAt(f + 1)) \in Nat
  BY ChunksOfFiles
<1>3. 1..1 - 1 = {}
  OBVIOUS
<1> DEFINE g == f + 1
<1> HIDE DEF g
<1>4. g \in 1..(FileCount + 1) /\ (g \in 1..FileCount => Len(FileAt(g)) \in Nat)
  BY <1>1, <1>2 DEF g
<1>5. PlaceOk(g, 1)
  BY <1>3, <1>4 DEF PlaceOk
<1> QED
  BY <1>5 DEF g

LEMMA PlaceIsReached ==
  ASSUME NEW f \in 1..FileCount, NEW k,
         traces \in Seq(TraceFiles), PlaceOk(f, k), k \in 1..Len(FileAt(f))
  PROVE  k \in Reached(f)
<1>1. DOMAIN FileAt(f) = 1..Len(FileAt(f)) /\ \A j \in 1..k - 1 : ~Broken(f, j)
  BY ChunksOfFiles DEF PlaceOk
<1> QED
  BY <1>1 DEF Reached

LEMMA NoSubsBehind ==
  ASSUME NEW f \in 1..FileCount, NEW k \in Nat, traces \in Seq(TraceFiles),
         k = Len(FileAt(f)) + 1 \/ (k \in 1..Len(FileAt(f)) /\ Broken(f, k))
  PROVE  \A p \in AllSubs : p[1] = f => p[2] < k + 1
<1> SUFFICES ASSUME NEW p \in AllSubs, p[1] = f PROVE p[2] < k + 1
  OBVIOUS
<1>1. p[2] \in Reached(f) /\ p[2] \in 1..Len(FileAt(f)) /\ Len(FileAt(f)) \in Nat
  BY PlacesOfSubs, ChunksOfFiles
<1>2. \A j \in 1..p[2] - 1 : ~Broken(f, j)
  BY <1>1 DEF Reached
<1> HIDE DEF Broken
<1> QED
  BY <1>1, <1>2

\* What is said of the archive is said of it after the step.
LEMMA SamePlaces ==
  ASSUME traces' = traces
  PROVE  \A f, k : PlaceOk(f, k)' <=> PlaceOk(f, k)
<1> TAKE f, k
<1> QED
  BY SameChunks, SameReading DEF PlaceOk

LEMMA StillCollecting ==
  ASSUME NEW f, NEW k, traces \in Seq(TraceFiles), traces' = traces, pass' = "oversize",
         place' = <<f, k>>, PlaceOk(f, k), catalog' = CatalogFor(f, k), bootUuid' = "",
         GatheredIn(oversize', f, k), emitted' = <<>>, errors' = 0
  PROVE  ChunksInv'
<1>1. place'[1] = f /\ place'[2] = k
  OBVIOUS
<1>2. PlaceHolds'
  <2>1. PlaceOk(f, k)'
    BY SamePlaces
  <2> QED
    BY <1>1, <2>1 DEF PlaceHolds, PlaceOk
<1>3. catalog' = CatalogFor(place[1], place[2])'
  BY <1>1, SameReading DEF CatalogFor
<1>4. GatheredIn(oversize, place[1], place[2])'
  <2>1. \A key, ref : OversizedBefore(key, ref, place[1], place[2])' = OversizedBefore(key, ref, f, k)
    <3> TAKE key, ref
    <3> QED
      BY <1>1, SameRows DEF OversizedBefore
  <2> QED
    BY <1>1, <2>1, SameRows, Zenon DEF GatheredIn
<1> QED
  BY <1>1, <1>2, <1>3, <1>4 DEF ChunksInv, CollectHolds

\* What is told up to a place, said of the state after a step.
LEMMA SameTold ==
  ASSUME NEW q, traces' = traces, Told(Places, RowTable, Damages, emitted', errors', q)
  PROVE  Told(Places, RowTable, Damages, emitted, errors, q)'
BY SameRows DEF Told, RowsTold, DamageTold, Ahead

LEMMA StillParsing ==
  ASSUME NEW f, NEW k, traces \in Seq(TraceFiles), traces' = traces, pass' = "parse",
         place' = <<f, k>>, PlaceOk(f, k), catalog' = CatalogFor(f, k), bootUuid' = BootIn(f, k),
         oversize' = oversize, AllGathered, errors' \in Nat,
         Told(Places, RowTable, Damages, emitted', errors', <<f, k, 0, 0>>)
  PROVE  ChunksInv'
<1>1. place'[1] = f /\ place'[2] = k
  OBVIOUS
<1>2. PlaceHolds'
  <2>1. PlaceOk(f, k)'
    BY SamePlaces
  <2> QED
    BY <1>1, <2>1 DEF PlaceHolds, PlaceOk
<1>3. catalog' = CatalogFor(place[1], place[2])' /\ bootUuid' = BootIn(place[1], place[2])'
  BY <1>1, SameReading DEF CatalogFor
<1>4. AllGathered'
  BY SameRows DEF AllGathered
<1>5. Told(Places, RowTable, Damages, emitted, errors, <<place[1], place[2], 0, 0>>)'
  BY <1>1, SameRows DEF Told, RowsTold, DamageTold, Ahead
<1> QED
  BY <1>2, <1>3, <1>4, <1>5 DEF ChunksInv, ParseHolds

LEMMA StillTold ==
  ASSUME NEW q, traces \in Seq(TraceFiles), traces' = traces, pass' \in {"end", "cancelled"},
         place' = place, PlaceHolds, pass' = "end" => q = <<FileCount + 1, 1, 0, 0>>,
         Told(Places, RowTable, Damages, emitted', errors', q)
  PROVE  ChunksInv'
<1>1. PlaceHolds'
  BY SamePlaces DEF PlaceHolds
<1>2. Told(Places, RowTable, Damages, emitted, errors, q)'
  BY SameTold
<1>3. FileCount' = FileCount
  BY SameChunks
<1> QED
  BY <1>1, <1>2, <1>3 DEF ChunksInv

\* Where nothing is damaged or recorded, what is told goes on to the end of the file.
LEMMA GoesToNextFile ==
  ASSUME NEW f \in 1..FileCount, NEW k \in Nat, NEW told, NEW n, traces \in Seq(TraceFiles),
         k = Len(FileAt(f)) + 1 \/ (k \in 1..Len(FileAt(f)) /\ Broken(f, k)),
         Told(Places, RowTable, Damages, told, n, <<f, k + 1, 0, 0>>)
  PROVE  Told(Places, RowTable, Damages, told, n, <<f + 1, 1, 0, 0>>)
<1> DEFINE l == k + 1
<1>1. l \in Nat /\ \A p \in Places \cup Damages : p[1] = f => p[2] < l
  BY NoneBehind
<1>2. <<f + 1, 1, 0, 0>> \in Quads
  BY ChunksOfFiles DEF Quads
<1>3. Told(Places, RowTable, Damages, told, n, <<f, l, 0, 0>>)
  OBVIOUS
<1> HIDE DEF l
<1>4. Quiet(Places, Damages, <<f, l, 0, 0>>, <<f + 1, 1, 0, 0>>)
  BY <1>1, FileLeft
<1> QED
  BY <1>2, <1>3, <1>4, NothingPassed

LEMMA SkippedTold ==
  ASSUME NEW f \in 1..FileCount, NEW k \in Nat, NEW told, NEW n, traces \in Seq(TraceFiles),
         k \notin Sets(f), k \notin DamagedChunks(f),
         Told(Places, RowTable, Damages, told, n, <<f, k, 0, 0>>)
  PROVE  Told(Places, RowTable, Damages, told, n, <<f, k + 1, 0, 0>>)
<1>1. Quiet(Places, Damages, <<f, k, 0, 0>>, <<f, k + 1, 0, 0>>)
  BY ChunkSkipped
<1>2. <<f, k + 1, 0, 0>> \in Quads
  BY ChunksOfFiles DEF Quads
<1> QED
  BY <1>1, <1>2, NothingPassed

LEMMA DamagedTold ==
  ASSUME NEW f \in 1..FileCount, NEW k, NEW told, NEW n, traces \in Seq(TraceFiles),
         k \in DamagedChunks(f), Told(Places, RowTable, Damages, told, n, <<f, k, 0, 0>>)
  PROVE  Told(Places, RowTable, Damages, told, n + 1, <<f, k + 1, 0, 0>>)
<1>1. /\ Single(Places, Damages, <<f, k, 0, 0>>, <<f, k + 1, 0, 0>>)
      /\ <<f, k, 0, 0>> \in Damages /\ <<f, k, 0, 0>> \notin Places
      /\ <<f, k, 0, 0>> \in Quads /\ <<f, k + 1, 0, 0>> \in Quads
  BY ChunkDamaged
<1>2. IsFiniteSet(Damages) /\ Damages \subseteq Quads
  BY MarksAreFinite, MarksAreInside
<1> QED
  BY <1>1, <1>2, DamagePassed

LEMMA NoneToldYet ==
  ASSUME traces \in Seq(TraceFiles)
  PROVE  Told(Places, RowTable, Damages, <<>>, 0, <<1, 1, 0, 0>>)
<1> DEFINE q == <<1, 1, 0, 0>>
<1>1. \A p \in Places \cup Damages : ~Ahead(p, q)
  <2> SUFFICES ASSUME NEW p \in Places \cup Damages PROVE ~Ahead(p, q)
    OBVIOUS
  <2>1. p \in Quads /\ p[1] \in 1..FileCount /\ p[2] \in 1..Len(FileAt(p[1]))
    BY MarksAreInside
  <2>2. p[1] \in Nat /\ p[2] \in Nat /\ p[3] \in Nat /\ p[4] \in Nat /\ p[1] # 0 /\ p[2] # 0
    BY <2>1 DEF Quads
  <2> QED
    BY <2>2 DEF Ahead
<1>2. q \in Quads
  BY DEF Quads
<1> HIDE DEF q
<1>3. RowsTold(Places, RowTable, <<>>, q)
  <2>1. Len(<<>>) = 0 /\ <<>> \in Seq({ RowTable[p] : p \in Places })
    OBVIOUS
  <2> QED
    BY <1>1, <2>1 DEF RowsTold
<1>4. DamageTold(Damages, 0, q)
  <2>1. { d \in Damages : Ahead(d, q) } = {}
    BY <1>1
  <2>2. Cardinality({}) = 0
    BY FS_EmptySet
  <2> QED
    BY <2>1, <2>2 DEF DamageTold
<1> QED
  BY <1>2, <1>3, <1>4 DEF Told, q

\* The rows told are rows, and the count is a number.
LEMMA ToldAreRows ==
  ASSUME NEW told, NEW n, NEW q, Told(Places, RowTable, Damages, told, n, q)
  PROVE  told \in Seq(RowSet) /\ told \o <<>> = told
<1>1. told \in Seq(RowSet)
  BY DEF Told, RowsTold, RowSet
<1> QED
  BY <1>1

LEMMA Catalogued ==
  \A f, k : CatalogFor(f, k) # <<>> <=> Preceding(f, k, "catalog") # {}
<1> TAKE f, k
<1>1. << ParseCatalog(CatalogIn(f, k)) >> # <<>>
  OBVIOUS
<1> QED
  BY <1>1 DEF CatalogFor

\* A chunk of the oversize pass.
LEMMA CollectStep == ChunksInv /\ CollectOversize => ChunksInv'
<1> SUFFICES ASSUME ChunksInv, CollectOversize PROVE ChunksInv'
  OBVIOUS
<1> DEFINE f == place[1]
           k == place[2]
           c == Chunk(f, k)
           readable == c.is = "chunkset" /\ catalog # <<>>
<1>1. /\ traces \in Seq(TraceFiles) /\ PlaceHolds /\ pass = "oversize" /\ place[1] <= FileCount
      /\ CollectHolds
  BY DEF ChunksInv, CollectOversize, Reading, Working
<1>2. /\ f \in 1..FileCount /\ f \in Nat /\ k \in Nat /\ k >= 1 /\ ChunkAt(place) = c
      /\ Len(FileAt(f)) \in Nat /\ k \in 1..(Len(FileAt(f)) + 1) /\ place = <<f, k>> /\ PlaceOk(f, k)
  BY <1>1, WhereItStands DEF PlaceHolds
<1>3. k \in 1..Len(FileAt(f)) /\ c.is # "cut"
  BY <1>2 DEF CollectOversize, Reading, IterEnds
<1>4. /\ catalog = CatalogFor(f, k) /\ bootUuid = "" /\ GatheredIn(oversize, f, k)
      /\ emitted = <<>> /\ errors = 0
  BY <1>1 DEF CollectHolds
<1>5. readable <=> c.is = "chunkset" /\ Preceding(f, k, "catalog") # {}
  BY <1>4, Catalogued
<1>6. k \in Reached(f)
  BY <1>1, <1>2, <1>3, PlaceIsReached
<1>7. /\ IF readable /\ Decompress(c) = "raises" THEN LeaveFile /\ UNCHANGED oversize
         ELSE /\ NextChunk
              /\ catalog' = IF c.is = "catalog" /\ c.whole THEN << ParseCatalog(c) >> ELSE catalog
              /\ oversize' = IF readable /\ Decompress(c) = "ok"
                             THEN PutOversize(oversize, SubChunks(c)) ELSE oversize
              /\ UNCHANGED bootUuid
      /\ traces' = traces /\ pass' = pass /\ emitted' = emitted /\ errors' = errors
  BY <1>2 DEF CollectOversize
<1> HIDE DEF f, k, c, readable
<1>8. CASE readable /\ Decompress(c) = "raises"
  <2>1. Broken(f, k) /\ k \notin Sets(f)
    BY <1>5, <1>8 DEF Broken, Sets, c
  <2>2. GatheredIn(oversize, f, k + 1)
    BY <1>1, <1>2, <1>4, <2>1, ChunkGathersNothing
  <2>3. GatheredIn(oversize, f + 1, 1)
    <3> DEFINE l == k + 1
    <3>1. l \in Nat /\ GatheredIn(oversize, f, l) /\ \A p \in AllSubs : p[1] = f => p[2] < l
      BY <1>1, <1>2, <1>3, <2>1, <2>2, NoSubsBehind
    <3> HIDE DEF l
    <3> QED
      BY <1>1, <1>2, <3>1, FileGathered
  <2>4. /\ place' = <<f + 1, 1>> /\ catalog' = <<>> /\ bootUuid' = "" /\ oversize' = oversize
    BY <1>7, <1>8 DEF LeaveFile, f
  <2>5. PlaceOk(f + 1, 1) /\ CatalogFor(f + 1, 1) = <<>>
    BY <1>1, <1>2, FileGoesOn, NothingInForce
  <2> DEFINE g == f + 1
  <2>6. GatheredIn(oversize', g, 1) /\ place' = <<g, 1>> /\ PlaceOk(g, 1) /\ catalog' = CatalogFor(g, 1)
    BY <2>3, <2>4, <2>5
  <2> HIDE DEF g
  <2> QED
    BY <1>1, <1>4, <1>7, <2>4, <2>6, StillCollecting
<1>9. CASE ~(readable /\ Decompress(c) = "raises")
  <2>1. ~Broken(f, k)
    BY <1>3, <1>5, <1>9 DEF Broken, c
  <2>2. /\ place' = <<f, k + 1>> /\ bootUuid' = bootUuid
        /\ catalog' = IF c.is = "catalog" /\ c.whole THEN << ParseCatalog(c) >> ELSE catalog
        /\ oversize' = IF readable /\ Decompress(c) = "ok"
                       THEN PutOversize(oversize, SubChunks(c)) ELSE oversize
    BY <1>2, <1>7, <1>9 DEF NextChunk
  <2>3. PlaceOk(f, k + 1)
    BY <1>1, <1>2, <1>3, <2>1, PlaceGoesOn
  <2>4. catalog' = CatalogFor(f, k + 1)
    BY <1>2, <1>4, <2>2, CatalogsGoOn DEF c
  <2>5. k \in Sets(f) <=> readable /\ Decompress(c) = "ok"
    BY <1>5, <1>6 DEF Sets, c
  <2>6. GatheredIn(oversize', f, k + 1)
    <3>1. CASE k \in Sets(f)
      BY <1>1, <1>2, <1>4, <2>2, <2>5, <3>1, SetGathered DEF c
    <3>2. CASE k \notin Sets(f)
      BY <1>1, <1>2, <1>4, <2>2, <2>5, <3>2, ChunkGathersNothing
    <3> QED
      BY <3>1, <3>2
  <2> DEFINE l == k + 1
  <2>7. GatheredIn(oversize', f, l) /\ place' = <<f, l>> /\ PlaceOk(f, l) /\ catalog' = CatalogFor(f, l)
    BY <2>2, <2>3, <2>4, <2>6
  <2> HIDE DEF l
  <2> QED
    BY <1>1, <1>4, <1>7, <2>2, <2>7, StillCollecting
<1> QED
  BY <1>8, <1>9

\* A file of the oversize pass at its end.
LEMMA CollectDoneStep == ChunksInv /\ CollectDone => ChunksInv'
<1> SUFFICES ASSUME ChunksInv, CollectDone PROVE ChunksInv'
  OBVIOUS
<1> DEFINE f == place[1]
           k == place[2]
<1>1. /\ traces \in Seq(TraceFiles) /\ PlaceHolds /\ pass = "oversize" /\ place[1] <= FileCount
      /\ CollectHolds
  BY DEF ChunksInv, CollectDone, Working
<1>2. /\ f \in 1..FileCount /\ f \in Nat /\ k \in Nat /\ ChunkAt(place) = Chunk(f, k)
      /\ Len(FileAt(f)) \in Nat /\ k \in 1..(Len(FileAt(f)) + 1)
  BY <1>1, WhereItStands
<1>3. /\ GatheredIn(oversize, f, k) /\ emitted = <<>> /\ errors = 0
  BY <1>1 DEF CollectHolds
<1>4. /\ k > Len(FileAt(f)) \/ Chunk(f, k).is = "cut"
      /\ place' = <<f + 1, 1>> /\ catalog' = <<>> /\ bootUuid' = "" /\ oversize' = oversize
      /\ traces' = traces /\ pass' = pass /\ emitted' = emitted /\ errors' = errors
  BY <1>2 DEF CollectDone, IterEnds, LeaveFile
<1> HIDE DEF f, k
<1>5. k = Len(FileAt(f)) + 1 \/ (k \in 1..Len(FileAt(f)) /\ Broken(f, k))
  <2>1. CASE k > Len(FileAt(f))
    BY <1>2, <2>1
  <2>2. CASE ~(k > Len(FileAt(f)))
    <3>1. Broken(f, k)
      BY <1>4, <2>2 DEF Broken
    <3> QED
      BY <1>2, <2>2, <3>1
  <2> QED
    BY <2>1, <2>2
<1>6. k \notin Sets(f)
  <2>1. DOMAIN FileAt(f) = 1..Len(FileAt(f))
    BY <1>1, <1>2, ChunksOfFiles
  <2>2. CASE k > Len(FileAt(f))
    <3>1. k \notin 1..Len(FileAt(f))
      BY <1>2, <2>2
    <3> QED
      BY <2>1, <3>1 DEF Sets, Reached
  <2>3. CASE Chunk(f, k).is = "cut"
    BY <2>3 DEF Sets
  <2> QED
    BY <1>4, <2>2, <2>3
<1>7. GatheredIn(oversize, f, k + 1)
  BY <1>1, <1>2, <1>3, <1>6, ChunkGathersNothing
<1>8. GatheredIn(oversize, f + 1, 1)
  <2> DEFINE l == k + 1
  <2>1. l \in Nat /\ GatheredIn(oversize, f, l) /\ \A p \in AllSubs : p[1] = f => p[2] < l
    BY <1>1, <1>2, <1>5, <1>7, NoSubsBehind
  <2> HIDE DEF l
  <2> QED
    BY <1>1, <1>2, <2>1, FileGathered
<1> DEFINE g == f + 1
<1>9. GatheredIn(oversize', g, 1) /\ place' = <<g, 1>> /\ PlaceOk(g, 1) /\ catalog' = CatalogFor(g, 1)
  BY <1>1, <1>2, <1>4, <1>8, FileGoesOn, NothingInForce
<1> HIDE DEF g
<1> QED
  BY <1>1, <1>3, <1>4, <1>9, StillCollecting

\* A chunk of the parse pass, and how the pass goes on behind it in the same file.
LEMMA ParsingAt ==
  ASSUME ChunksInv, Reading("parse")
  PROVE  LET f == place[1]
             k == place[2]
         IN  /\ traces \in Seq(TraceFiles) /\ pass = "parse"
             /\ f \in 1..FileCount /\ k \in Nat /\ k >= 1 /\ k \in 1..Len(FileAt(f))
             /\ place = <<f, k>> /\ PlaceOk(f, k) /\ k \in Reached(f)
             /\ ChunkAt(place) = Chunk(f, k) /\ Chunk(f, k).is # "cut"
             /\ catalog = CatalogFor(f, k) /\ bootUuid = BootIn(f, k) /\ AllGathered
             /\ errors \in Nat /\ Told(Places, RowTable, Damages, emitted, errors, <<f, k, 0, 0>>)
<1>1. /\ traces \in Seq(TraceFiles) /\ PlaceHolds /\ pass = "parse" /\ place[1] <= FileCount
      /\ ParseHolds
  BY DEF ChunksInv, Reading, Working
<1>2. /\ place[1] \in 1..FileCount /\ place[2] \in Nat /\ place[2] >= 1
      /\ ChunkAt(place) = Chunk(place[1], place[2])
      /\ Len(FileAt(place[1])) \in Nat /\ place[2] \in 1..(Len(FileAt(place[1])) + 1)
      /\ place = <<place[1], place[2]>> /\ PlaceOk(place[1], place[2])
  BY <1>1, WhereItStands DEF PlaceHolds
<1>3. place[2] \in 1..Len(FileAt(place[1])) /\ Chunk(place[1], place[2]).is # "cut"
  BY <1>2 DEF Reading, IterEnds
<1>4. place[2] \in Reached(place[1])
  BY <1>1, <1>2, <1>3, PlaceIsReached
<1> QED
  BY <1>1, <1>2, <1>3, <1>4 DEF ParseHolds

LEMMA ParseGoesOn ==
  ASSUME ChunksInv, Reading("parse"), NEW c, c = ChunkAt(place), ~Broken(place[1], place[2]),
         traces' = traces, pass' = pass, oversize' = oversize, NextChunk,
         catalog' = IF c.is = "catalog" /\ c.whole THEN << ParseCatalog(c) >> ELSE catalog,
         bootUuid' = IF c.is = "header" /\ c.whole THEN c.boot ELSE bootUuid,
         errors' \in Nat,
         Told(Places, RowTable, Damages, emitted', errors', <<place[1], place[2] + 1, 0, 0>>)
  PROVE  ChunksInv'
<1> DEFINE f == place[1]
           k == place[2]
           l == k + 1
<1>1. /\ traces \in Seq(TraceFiles) /\ pass = "parse"
      /\ f \in 1..FileCount /\ k \in Nat /\ k >= 1 /\ k \in 1..Len(FileAt(f))
      /\ place = <<f, k>> /\ PlaceOk(f, k) /\ c = Chunk(f, k)
      /\ catalog = CatalogFor(f, k) /\ bootUuid = BootIn(f, k) /\ AllGathered
  BY ParsingAt
<1>2. place' = <<f, l>>
  BY <1>1 DEF NextChunk
<1>3. ~Broken(f, k) /\ Told(Places, RowTable, Damages, emitted', errors', <<f, l, 0, 0>>)
  OBVIOUS
<1> HIDE DEF f, k
<1>4. PlaceOk(f, l)
  BY <1>1, <1>3, PlaceGoesOn
<1>5. catalog' = CatalogFor(f, l)
  BY <1>1, CatalogsGoOn
<1>6. bootUuid' = BootIn(f, l)
  BY <1>1, BootsGoOn
<1> HIDE DEF l
<1> QED
  BY <1>1, <1>2, <1>3, <1>4, <1>5, <1>6, StillParsing

\* A header, a catalog or a chunk of an unknown kind.
LEMMA PlainChunkStep ==
  ChunksInv /\ (HeaderChunk \/ CatalogChunk \/ UnknownChunk) => ChunksInv'
<1> SUFFICES ASSUME ChunksInv, HeaderChunk \/ CatalogChunk \/ UnknownChunk PROVE ChunksInv'
  OBVIOUS
<1> DEFINE f == place[1]
           k == place[2]
           c == Chunk(f, k)
           bad == c.is \in {"header", "catalog"} /\ ~c.whole
<1>1. Reading("parse")
  BY DEF HeaderChunk, CatalogChunk, UnknownChunk
<1>2. /\ traces \in Seq(TraceFiles)
      /\ f \in 1..FileCount /\ k \in Nat /\ k \in Reached(f)
      /\ ChunkAt(place) = c /\ c.is # "cut"
      /\ errors \in Nat /\ Told(Places, RowTable, Damages, emitted, errors, <<f, k, 0, 0>>)
  BY <1>1, ParsingAt
<1>3. c.is # "chunkset"
  BY <1>2 DEF HeaderChunk, CatalogChunk, UnknownChunk
<1>4. /\ NextChunk /\ traces' = traces /\ pass' = pass /\ oversize' = oversize /\ emitted' = emitted
      /\ catalog' = IF c.is = "catalog" /\ c.whole THEN << ParseCatalog(c) >> ELSE catalog
      /\ bootUuid' = IF c.is = "header" /\ c.whole THEN c.boot ELSE bootUuid
      /\ errors' = IF bad THEN errors + 1 ELSE errors
  <2>1. CASE HeaderChunk
    <3>1. c.is = "header" /\ ChunkAt(place) = c
      BY <1>2, <2>1 DEF HeaderChunk
    <3>2. /\ c.whole => ParseHeader(c) # <<>> /\ ParseHeader(c)[1] = c.boot
          /\ ~c.whole => ParseHeader(c) = <<>>
      BY DEF ParseHeader
    <3>3. /\ NextChunk /\ traces' = traces /\ pass' = pass /\ oversize' = oversize /\ emitted' = emitted
          /\ catalog' = catalog
          /\ bootUuid' = IF ParseHeader(c) # <<>> THEN ParseHeader(c)[1] ELSE bootUuid
          /\ errors' = errors + (IF ParseHeader(c) # <<>> THEN 0 ELSE 1)
      BY <2>1, <3>1 DEF HeaderChunk
    <3> QED
      BY <1>2, <3>1, <3>2, <3>3
  <2>2. CASE CatalogChunk
    <3>1. c.is = "catalog" /\ ChunkAt(place) = c
      BY <1>2, <2>2 DEF CatalogChunk
    <3>2. /\ NextChunk /\ traces' = traces /\ pass' = pass /\ oversize' = oversize /\ emitted' = emitted
          /\ catalog' = IF c.whole THEN << ParseCatalog(c) >> ELSE catalog
          /\ bootUuid' = bootUuid
          /\ errors' = errors + (IF c.whole THEN 0 ELSE 1)
      BY <2>2, <3>1 DEF CatalogChunk
    <3> QED
      BY <1>2, <3>1, <3>2
  <2>3. CASE UnknownChunk
    BY <1>2, <2>3 DEF UnknownChunk
  <2> QED
    BY <2>1, <2>2, <2>3
<1>5. ~Broken(f, k) /\ k \notin Sets(f)
  BY <1>2, <1>3 DEF Broken, Sets
<1>6. k \in DamagedChunks(f) <=> bad
  BY <1>2, <1>3 DEF DamagedChunks
<1>7. errors' \in Nat /\ Told(Places, RowTable, Damages, emitted', errors', <<f, k + 1, 0, 0>>)
  <2>1. CASE bad
    BY <1>2, <1>4, <1>6, <2>1, DamagedTold
  <2>2. CASE ~bad
    BY <1>2, <1>4, <1>5, <1>6, <2>2, SkippedTold
  <2> QED
    BY <2>1, <2>2
<1> HIDE DEF bad
<1> QED
  BY <1>1, <1>2, <1>4, <1>5, <1>7, ParseGoesOn

\* From the end of a file, or from what breaks it, to the next.
LEMMA FileEnds ==
  ASSUME NEW f \in 1..FileCount, NEW k \in Nat, traces \in Seq(TraceFiles),
         k = Len(FileAt(f)) + 1 \/ (k \in 1..Len(FileAt(f)) /\ Broken(f, k)),
         traces' = traces, pass' = "parse", oversize' = oversize, AllGathered,
         place' = <<f + 1, 1>>, catalog' = <<>>, bootUuid' = "", errors' \in Nat,
         Told(Places, RowTable, Damages, emitted', errors', <<f, k + 1, 0, 0>>)
  PROVE  ChunksInv'
<1> DEFINE g == f + 1
<1>1. /\ PlaceOk(g, 1) /\ CatalogFor(g, 1) = <<>> /\ BootIn(g, 1) = "" /\ place' = <<g, 1>>
      /\ Told(Places, RowTable, Damages, emitted', errors', <<g, 1, 0, 0>>)
  BY FileGoesOn, NothingInForce, GoesToNextFile
<1> HIDE DEF g
<1> QED
  BY <1>1, StillParsing

\* A chunkset: skipped, read, refused, or the end of its file.
LEMMA ChunksetStep == ChunksInv /\ ChunksetChunk => ChunksInv'
<1> SUFFICES ASSUME ChunksInv, ChunksetChunk PROVE ChunksInv'
  OBVIOUS
<1> DEFINE f == place[1]
           k == place[2]
           c == Chunk(f, k)
           how == IF catalog = <<>> THEN "early" ELSE Decompress(c)
           got == IF how = "ok" THEN ParseSubs(c)
                  ELSE [rows |-> <<>>, errors |-> IF how = "early" THEN 0 ELSE 1]
<1>1. Reading("parse")
  BY DEF ChunksetChunk
<1>2. /\ traces \in Seq(TraceFiles) /\ pass = "parse"
      /\ f \in 1..FileCount /\ k \in Nat /\ k >= 1 /\ k \in 1..Len(FileAt(f)) /\ k \in Reached(f)
      /\ ChunkAt(place) = c /\ place = <<f, k>>
      /\ catalog = CatalogFor(f, k) /\ bootUuid = BootIn(f, k) /\ AllGathered
      /\ errors \in Nat /\ Told(Places, RowTable, Damages, emitted, errors, <<f, k, 0, 0>>)
  BY <1>1, ParsingAt
<1>3. /\ c.is = "chunkset"
      /\ emitted' = emitted \o got.rows /\ errors' = errors + got.errors
      /\ IF how = "raises" THEN LeaveFile ELSE NextChunk /\ UNCHANGED <<catalog, bootUuid>>
      /\ traces' = traces /\ pass' = pass /\ oversize' = oversize
  BY <1>2 DEF ChunksetChunk
<1>4. how = "early" <=> Preceding(f, k, "catalog") = {}
  <2>1. Decompress(c) \in {"ok", "refused", "raises"}
    BY DEF Decompress
  <2> QED
    BY <1>2, <2>1, Catalogued
<1>5. how # "early" => how = Decompress(c)
  OBVIOUS
<1>6. how \in {"early", "ok", "refused", "raises"}
  BY DEF Decompress
<1>7. InForce(f, k)
  BY <1>2 DEF InForce, CatalogFor
<1>8. emitted \in Seq(RowSet) /\ emitted \o <<>> = emitted
  BY <1>2, ToldAreRows
<1>9. Chunk(f, k) = c
  OBVIOUS
<1>10. how = "ok" => got = ParseSubs(c)
  OBVIOUS
<1>11. how # "ok" => got.rows = <<>> /\ got.errors = IF how = "early" THEN 0 ELSE 1
  OBVIOUS
<1> HIDE DEF f, k, c, how, got
<1>12. Broken(f, k) <=> how = "raises"
  BY <1>3, <1>4, <1>5, <1>6, <1>9 DEF Broken
<1>13. k \in Sets(f) <=> how = "ok"
  BY <1>2, <1>3, <1>4, <1>5, <1>6, <1>9 DEF Sets
<1>14. k \in DamagedChunks(f) <=> how \in {"refused", "raises"}
  BY <1>2, <1>3, <1>4, <1>5, <1>6, <1>9 DEF DamagedChunks
<1>15. errors' \in Nat /\ Told(Places, RowTable, Damages, emitted', errors', <<f, k + 1, 0, 0>>)
  <2>1. CASE how = "early"
    <3>1. emitted' = emitted /\ errors' = errors
      BY <1>2, <1>3, <1>8, <1>11, <2>1
    <3> QED
      BY <1>2, <1>13, <1>14, <2>1, <3>1, SkippedTold
  <2>2. CASE how = "ok"
    <3>1. got \in Accs /\ JoinTold(emitted, errors, got, <<f, k + 1, 0, 0>>)
      BY <1>2, <1>7, <1>8, <1>9, <1>10, <1>13, <2>2, SetTold
    <3> QED
      BY <1>2, <1>3, <3>1 DEF JoinTold, Accs
  <2>3. CASE how \in {"refused", "raises"}
    <3>1. emitted' = emitted /\ errors' = errors + 1
      BY <1>3, <1>8, <1>11, <2>3
    <3> QED
      BY <1>2, <1>14, <2>3, <3>1, DamagedTold
  <2> QED
    BY <1>6, <2>1, <2>2, <2>3
<1>16. CASE how = "raises"
  <2>1. place' = <<f + 1, 1>> /\ catalog' = <<>> /\ bootUuid' = ""
    BY <1>3, <1>16 DEF LeaveFile, f
  <2> QED
    BY <1>2, <1>3, <1>12, <1>15, <1>16, <2>1, FileEnds
<1>17. CASE how # "raises"
  <2>1. /\ NextChunk /\ c = ChunkAt(place) /\ ~Broken(place[1], place[2])
        /\ catalog' = IF c.is = "catalog" /\ c.whole THEN << ParseCatalog(c) >> ELSE catalog
        /\ bootUuid' = IF c.is = "header" /\ c.whole THEN c.boot ELSE bootUuid
        /\ Told(Places, RowTable, Damages, emitted', errors', <<place[1], place[2] + 1, 0, 0>>)
    BY <1>2, <1>3, <1>12, <1>15, <1>17 DEF f, k
  <2> QED
    BY <1>1, <1>3, <1>15, <2>1, ParseGoesOn
<1> QED
  BY <1>16, <1>17

\* A file of the parse pass at its end.
LEMMA FileDoneStep == ChunksInv /\ FileDone => ChunksInv'
<1> SUFFICES ASSUME ChunksInv, FileDone PROVE ChunksInv'
  OBVIOUS
<1> DEFINE f == place[1]
           k == place[2]
<1>1. /\ traces \in Seq(TraceFiles) /\ PlaceHolds /\ pass = "parse" /\ place[1] <= FileCount
      /\ ParseHolds
  BY DEF ChunksInv, FileDone, Working
<1>2. /\ f \in 1..FileCount /\ k \in Nat /\ ChunkAt(place) = Chunk(f, k)
      /\ Len(FileAt(f)) \in Nat /\ k \in 1..(Len(FileAt(f)) + 1)
  BY <1>1, WhereItStands
<1>3. /\ AllGathered /\ errors \in Nat
      /\ Told(Places, RowTable, Damages, emitted, errors, <<f, k, 0, 0>>)
  BY <1>1 DEF ParseHolds
<1>4. /\ k > Len(FileAt(f)) \/ Chunk(f, k).is = "cut"
      /\ place' = <<f + 1, 1>> /\ catalog' = <<>> /\ bootUuid' = "" /\ oversize' = oversize
      /\ traces' = traces /\ pass' = pass /\ emitted' = emitted /\ errors' = errors
  BY <1>2 DEF FileDone, IterEnds, LeaveFile
<1>5. DOMAIN FileAt(f) = 1..Len(FileAt(f))
  BY <1>1, <1>2, ChunksOfFiles
<1> HIDE DEF f, k
<1>6. /\ k = Len(FileAt(f)) + 1 \/ (k \in 1..Len(FileAt(f)) /\ Broken(f, k))
      /\ k \notin Sets(f) /\ k \notin DamagedChunks(f)
  <2>1. CASE k > Len(FileAt(f))
    <3>1. k = Len(FileAt(f)) + 1 /\ k \notin 1..Len(FileAt(f))
      BY <1>2, <2>1
    <3> QED
      BY <1>5, <3>1 DEF Sets, DamagedChunks, Reached
  <2>2. CASE ~(k > Len(FileAt(f)))
    <3>1. Chunk(f, k).is = "cut"
      BY <1>4, <2>2
    <3>2. Broken(f, k) /\ k \notin Sets(f) /\ k \notin DamagedChunks(f)
      BY <3>1 DEF Broken, Sets, DamagedChunks
    <3>3. k \in 1..Len(FileAt(f))
      BY <1>2, <2>2
    <3> QED
      BY <3>2, <3>3
  <2> QED
    BY <2>1, <2>2
<1>7. Told(Places, RowTable, Damages, emitted', errors', <<f, k + 1, 0, 0>>)
  BY <1>1, <1>2, <1>3, <1>4, <1>6, SkippedTold
<1>8. pass' = "parse" /\ errors' \in Nat
  BY <1>1, <1>3, <1>4
<1> QED
  BY <1>1, <1>2, <1>3, <1>4, <1>6, <1>7, <1>8, FileEnds

\* Between the passes, behind the last file of each.
LEMMA BehindTheLast ==
  ASSUME traces \in Seq(TraceFiles), PlaceHolds, ~(place[1] <= FileCount)
  PROVE  place[1] = FileCount + 1 /\ place[2] = 1
<1>1. FileCount \in Nat
  BY ChunksOfFiles
<1> QED
  BY <1>1 DEF PlaceHolds, PlaceOk

LEMMA FirstPlace ==
  ASSUME traces \in Seq(TraceFiles)
  PROVE  PlaceOk(1, 1)
<1>1. FileCount \in Nat /\ 1 \in 1..(FileCount + 1) /\ 1..1 - 1 = {}
  BY ChunksOfFiles
<1>2. 1 \in 1..FileCount => Len(FileAt(1)) \in Nat
  BY ChunksOfFiles
<1> QED
  BY <1>1, <1>2 DEF PlaceOk

LEMMA StartStep == ChunksInv /\ StartParse => ChunksInv'
<1> SUFFICES ASSUME ChunksInv, StartParse PROVE ChunksInv'
  OBVIOUS
<1>1. traces \in Seq(TraceFiles) /\ PlaceHolds /\ pass = "oversize" /\ CollectHolds
  BY DEF ChunksInv, StartParse
<1>2. /\ pass' = "parse" /\ place' = <<1, 1>> /\ traces' = traces /\ catalog' = catalog
      /\ bootUuid' = bootUuid /\ oversize' = oversize /\ emitted' = emitted /\ errors' = errors
  BY DEF StartParse
<1>3. place[1] = FileCount + 1 /\ place[2] = 1
  <2>1. FileCount \in Nat
    BY <1>1, ChunksOfFiles
  <2>2. place[1] \in 1..(FileCount + 1)
    BY <1>1 DEF PlaceHolds, PlaceOk
  <2>3. ~(place[1] <= FileCount)
    BY <2>1, <2>2 DEF StartParse
  <2> QED
    BY <1>1, <2>3, BehindTheLast
<1>4. /\ catalog = CatalogFor(FileCount + 1, 1) /\ bootUuid = ""
      /\ GatheredIn(oversize, FileCount + 1, 1) /\ emitted = <<>> /\ errors = 0
  BY <1>1, <1>3 DEF CollectHolds
<1>5. AllGathered
  BY <1>1, <1>4, EverythingGathered
<1>6. catalog' = CatalogFor(1, 1) /\ bootUuid' = BootIn(1, 1)
  BY <1>2, <1>4, NothingInForce
<1>7. errors' \in Nat /\ Told(Places, RowTable, Damages, emitted', errors', <<1, 1, 0, 0>>)
  BY <1>1, <1>2, <1>4, NoneToldYet
<1> QED
  BY <1>1, <1>2, <1>5, <1>6, <1>7, FirstPlace, StillParsing

LEMMA EndStep == ChunksInv /\ ParseEnds => ChunksInv'
<1> SUFFICES ASSUME ChunksInv, ParseEnds PROVE ChunksInv'
  OBVIOUS
<1>1. traces \in Seq(TraceFiles) /\ PlaceHolds /\ pass = "parse" /\ ParseHolds
  BY DEF ChunksInv, ParseEnds
<1>2. pass' = "end" /\ place' = place /\ traces' = traces /\ emitted' = emitted /\ errors' = errors
  BY DEF ParseEnds
<1>3. place[1] = FileCount + 1 /\ place[2] = 1
  <2>1. FileCount \in Nat
    BY <1>1, ChunksOfFiles
  <2>2. place[1] \in 1..(FileCount + 1)
    BY <1>1 DEF PlaceHolds, PlaceOk
  <2>3. ~(place[1] <= FileCount)
    BY <2>1, <2>2 DEF ParseEnds
  <2> QED
    BY <1>1, <2>3, BehindTheLast
<1>4. Told(Places, RowTable, Damages, emitted', errors', <<FileCount + 1, 1, 0, 0>>)
  BY <1>1, <1>2, <1>3 DEF ParseHolds
<1> DEFINE q == <<FileCount + 1, 1, 0, 0>>
<1>5. Told(Places, RowTable, Damages, emitted', errors', q) /\ q = <<FileCount + 1, 1, 0, 0>>
  BY <1>4
<1> HIDE DEF q
<1> QED
  BY <1>1, <1>2, <1>5, StillTold

\* Something is told in every state.
LEMMA SomethingIsTold ==
  ASSUME ChunksInv
  PROVE  \E q : Told(Places, RowTable, Damages, emitted, errors, q)
<1>1. CASE pass = "oversize"
  BY <1>1, NoneToldYet DEF ChunksInv, CollectHolds
<1>2. CASE pass = "parse"
  BY <1>2 DEF ChunksInv, ParseHolds
<1>3. CASE pass \in {"end", "cancelled"}
  BY <1>3 DEF ChunksInv
<1> QED
  BY <1>1, <1>2, <1>3 DEF ChunksInv

LEMMA CancelStep == ChunksInv /\ CancelRaises => ChunksInv'
<1> SUFFICES ASSUME ChunksInv, CancelRaises PROVE ChunksInv'
  OBVIOUS
<1>1. traces \in Seq(TraceFiles) /\ PlaceHolds
  BY DEF ChunksInv
<1>2. pass' = "cancelled" /\ place' = place /\ traces' = traces /\ emitted' = emitted /\ errors' = errors
  BY DEF CancelRaises
<1>3. PICK q : Told(Places, RowTable, Damages, emitted, errors, q)
  BY SomethingIsTold
<1>4. Told(Places, RowTable, Damages, emitted', errors', q) /\ pass' # "end" /\ pass' \in {"end", "cancelled"}
  BY <1>2, <1>3
<1> QED
  BY <1>1, <1>2, <1>4, StillTold

\* A step that touches nothing of the passes but the token.
LEMMA StandStill ==
  ASSUME ChunksInv, UNCHANGED <<traces, pass, place, catalog, bootUuid, oversize, emitted, errors>>
  PROVE  ChunksInv'
<1>1. traces \in Seq(TraceFiles) /\ PlaceHolds /\ place = <<place[1], place[2]>> /\ PlaceOk(place[1], place[2])
  BY DEF ChunksInv, PlaceHolds
<1>2. /\ traces' = traces /\ pass' = pass /\ place' = place /\ catalog' = catalog
      /\ bootUuid' = bootUuid /\ oversize' = oversize /\ emitted' = emitted /\ errors' = errors
  OBVIOUS
<1> DEFINE f == place[1]
           k == place[2]
<1>3. place' = <<f, k>> /\ PlaceOk(f, k)
  BY <1>1, <1>2
<1>4. CASE pass = "oversize"
  <2>1. /\ catalog' = CatalogFor(f, k) /\ bootUuid' = "" /\ GatheredIn(oversize', f, k)
        /\ emitted' = <<>> /\ errors' = 0 /\ pass' = "oversize"
    BY <1>2, <1>4 DEF ChunksInv, CollectHolds
  <2> HIDE DEF f, k
  <2> QED
    BY <1>1, <1>2, <1>3, <2>1, StillCollecting
<1>5. CASE pass = "parse"
  <2>1. /\ catalog' = CatalogFor(f, k) /\ bootUuid' = BootIn(f, k) /\ AllGathered
        /\ errors' \in Nat /\ pass' = "parse"
        /\ Told(Places, RowTable, Damages, emitted', errors', <<f, k, 0, 0>>)
    BY <1>2, <1>5 DEF ChunksInv, ParseHolds
  <2> HIDE DEF f, k
  <2> QED
    BY <1>1, <1>2, <1>3, <2>1, StillParsing
<1>6. CASE pass \in {"end", "cancelled"}
  <2>1. PICK q : /\ Told(Places, RowTable, Damages, emitted, errors, q)
                 /\ pass = "end" => q = <<FileCount + 1, 1, 0, 0>>
    BY <1>6 DEF ChunksInv
  <2>2. /\ Told(Places, RowTable, Damages, emitted', errors', q)
        /\ pass' = "end" => q = <<FileCount + 1, 1, 0, 0>>
        /\ pass' \in {"end", "cancelled"}
    BY <1>2, <1>6, <2>1
  <2> QED
    BY <1>1, <1>2, <2>2, StillTold
<1> QED
  BY <1>4, <1>5, <1>6 DEF ChunksInv

\* The invariant holds at the beginning and after every step.
LEMMA ChunksStart == ChunksInit => ChunksInv
<1> SUFFICES ASSUME ChunksInit PROVE ChunksInv
  OBVIOUS
<1>1. traces \in Seq(TraceFiles)
  BY TracesAreFiles DEF ChunksInit
<1>2. /\ pass = "oversize" /\ place = <<1, 1>> /\ catalog = <<>> /\ bootUuid = ""
      /\ oversize = <<>> /\ emitted = <<>> /\ errors = 0
  BY DEF ChunksInit
<1>3. PlaceHolds
  BY <1>1, <1>2, FirstPlace DEF PlaceHolds
<1>4. CollectHolds
  <2>1. CatalogFor(1, 1) = <<>> /\ GatheredIn(<<>>, 1, 1)
    BY <1>1, NothingInForce, NothingGathered
  <2> QED
    BY <1>2, <2>1 DEF CollectHolds
<1> QED
  BY <1>1, <1>2, <1>3, <1>4 DEF ChunksInv

LEMMA ChunksStep == ChunksInv /\ [ChunksNext]_chunks => ChunksInv'
<1> SUFFICES ASSUME ChunksInv, [ChunksNext]_chunks PROVE ChunksInv'
  OBVIOUS
<1>1. CASE CollectOversize
  BY <1>1, CollectStep
<1>2. CASE CollectDone
  BY <1>2, CollectDoneStep
<1>3. CASE StartParse
  BY <1>3, StartStep
<1>4. CASE HeaderChunk \/ CatalogChunk \/ UnknownChunk
  BY <1>4, PlainChunkStep
<1>5. CASE ChunksetChunk
  BY <1>5, ChunksetStep
<1>6. CASE FileDone
  BY <1>6, FileDoneStep
<1>7. CASE ParseEnds
  BY <1>7, EndStep
<1>8. CASE CancelRaises
  BY <1>8, CancelStep
<1>9. CASE AskCancel \/ UNCHANGED chunks
  <2>1. UNCHANGED <<traces, pass, place, catalog, bootUuid, oversize, emitted, errors>>
    BY <1>9 DEF AskCancel, chunks
  <2> QED
    BY <2>1, StandStill
<1> QED
  BY <1>1, <1>2, <1>3, <1>4, <1>5, <1>6, <1>7, <1>8, <1>9 DEF ChunksNext

\* What is told is the beginning of what is expected.
LEMMA ToldIsExpected ==
  ASSUME NEW q, traces \in Seq(TraceFiles), Told(Places, RowTable, Damages, emitted, errors, q)
  PROVE  /\ IsPrefix(emitted, Expected)
         /\ q = <<FileCount + 1, 1, 0, 0>> => emitted = Expected /\ errors = Cardinality(Damages)
<1> DEFINE e == ListedBy(Places, AheadIn(Places))
           n == Cardinality(Places)
<1>1. Places \subseteq Quads /\ IsFiniteSet(Places)
  BY MarksAreInside, MarksAreFinite
<1>2. /\ Len(emitted) \in Nat /\ Len(emitted) <= n
      /\ \A i \in 1..Len(emitted) : emitted[i] = RowTable[e[i]]
      /\ (\A p \in Places \cup Damages : Ahead(p, q)) => Len(emitted) = n /\ errors = Cardinality(Damages)
  BY <1>1, ToldIsBeginning
<1>3. n \in Nat /\ \A i \in 1..n : e[i] \in Places
  <2>1. Orders(AheadIn(Places), Places)
    BY <1>1, AheadOrders
  <2>2. e \in Seq(Places) /\ Len(e) = n /\ n \in Nat
    BY <1>1, <2>1, ListedListsAll
  <2> HIDE DEF e, n
  <2> QED
    BY <2>2
<1>4. Expected = [i \in 1..n |-> ExpectedRow(e[i])]
  BY DEF Expected, InPlaceOrder, AheadIn
<1>5. emitted \in Seq(RowSet)
  BY ToldAreRows
<1> HIDE DEF e, n
<1>6. Expected \in Seq(RowSet) /\ Len(Expected) = n
  <2>1. \A i \in 1..n : ExpectedRow(e[i]) \in RowSet
    BY <1>3, RowsAreOfPlaces
  <2> QED
    BY <1>3, <1>4, <2>1
<1>7. \A i \in 1..Len(emitted) : emitted[i] = Expected[i]
  <2> TAKE i \in 1..Len(emitted)
  <2>1. i \in 1..n
    BY <1>2, <1>3
  <2>2. emitted[i] = RowTable[e[i]] /\ e[i] \in Places
    BY <1>2, <1>3, <2>1
  <2> QED
    BY <1>4, <2>1, <2>2, RowsAreOfPlaces
<1>8. IsPrefix(emitted, Expected)
  <2> DEFINE m == Len(emitted)
  <2>1. m \in 0..Len(emitted) /\ m \in 0..Len(Expected)
    BY <1>2, <1>3, <1>6
  <2>2. /\ SubSeq(emitted, 1, m) \in Seq(RowSet) /\ Len(SubSeq(emitted, 1, m)) = m
        /\ \A i \in 1..m : SubSeq(emitted, 1, m)[i] = emitted[i]
    BY <1>5, <2>1, BeginningIsRead
  <2>3. /\ SubSeq(Expected, 1, m) \in Seq(RowSet) /\ Len(SubSeq(Expected, 1, m)) = m
        /\ \A i \in 1..m : SubSeq(Expected, 1, m)[i] = Expected[i]
    BY <1>6, <2>1, BeginningIsRead
  <2>4. SubSeq(emitted, 1, m) = SubSeq(Expected, 1, m)
    <3> HIDE DEF m
    <3> DEFINE s == SubSeq(emitted, 1, m)
               t == SubSeq(Expected, 1, m)
    <3>1. s \in Seq(RowSet) /\ t \in Seq(RowSet) /\ Len(s) = Len(t) /\ \A i \in 1..Len(s) : s[i] = t[i]
      BY <1>7, <2>2, <2>3 DEF m
    <3> HIDE DEF s, t
    <3>2. s = t
      BY <3>1, SeqEqual
    <3> QED
      BY <3>2 DEF s, t
  <2> QED
    BY <1>2, <1>6, <2>4 DEF IsPrefix
<1>9. ASSUME q = <<FileCount + 1, 1, 0, 0>>
      PROVE  emitted = Expected /\ errors = Cardinality(Damages)
  <2>1. \A p \in Places \cup Damages : Ahead(p, q)
    <3> SUFFICES ASSUME NEW p \in Places \cup Damages PROVE Ahead(p, q)
      OBVIOUS
    <3>1. p[1] \in 1..FileCount /\ FileCount \in Nat
      BY MarksAreInside, ChunksOfFiles
    <3>2. p[1] < FileCount + 1
      BY <3>1
    <3> QED
      BY <1>9, <3>2 DEF Ahead
  <2>2. Len(emitted) = Len(Expected) /\ errors = Cardinality(Damages)
    BY <1>2, <1>6, <2>1
  <2> QED
    BY <1>5, <1>6, <1>7, <2>2, SeqEqual
<1> QED
  BY <1>8, <1>9

\* The invariant gives the property.
LEMMA DamageStaysWhereItIs == ChunksInv => ChunksAreSound
<1> SUFFICES ASSUME ChunksInv PROVE ChunksAreSound
  OBVIOUS
<1>1. traces \in Seq(TraceFiles)
  BY DEF ChunksInv
<1>2. IsPrefix(emitted, Expected)
  BY <1>1, SomethingIsTold, ToldIsExpected
<1>3. ASSUME pass = "end" PROVE emitted = Expected /\ errors = Cardinality(Damages)
  <2> DEFINE q == <<FileCount + 1, 1, 0, 0>>
  <2>1. Told(Places, RowTable, Damages, emitted, errors, q) /\ q = <<FileCount + 1, 1, 0, 0>>
    BY <1>3 DEF ChunksInv
  <2> HIDE DEF q
  <2> QED
    BY <1>1, <2>1, ToldIsExpected
<1> QED
  BY <1>2, <1>3 DEF ChunksAreSound, DamageIsContained, DamageIsCounted

-----------------------------------------------------------------------------
ChunksSpec == ChunksInit /\ [][ChunksNext]_chunks

\* collect_oversize and process_tracev3: for any archive, whatever of it is damaged, the rows
\* are those of the whole records, in the order of the bytes, each with the catalog, the boot
\* and the oversize text that are its own, and a damage that cut nothing off is counted once;
\* cancelled, the rows are a beginning of those.
THEOREM ChunksAreThoseOfTheBytes == ChunksSpec => []ChunksAreSound
<1> QED
  BY ChunksStart, ChunksStep, DamageStaysWhereItIs, PTL DEF ChunksSpec

-----------------------------------------------------------------------------
\* The parser: the writer keeps its promises, the order and the rows are those of the bytes
\* and the strings are those of their tables, in every behaviour of the parser's parts.
THEOREM ParserHolds ==
  Spec => [](/\ NamesAreTrue /\ EveryEntryAccounted /\ TimelineIsCanonical /\ TimesAreExact
             /\ StringsAreSound /\ ChunksAreSound)
<1>1. Init => WriterInit /\ TimelineInit /\ StringsInit /\ ChunksInit
  BY DEF Init
<1>2. [Next]_parser =>
        [WriterNext]_writer /\ [TimelineNext]_timeline /\ [StringsNext]_strings /\ [ChunksNext]_chunks
  BY DEF Next, parser
<1>3. Spec => WriterSpec /\ TimelineSpec /\ StringsSpec /\ ChunksSpec
  BY <1>1, <1>2, PTL DEF Spec, WriterSpec, TimelineSpec, StringsSpec, ChunksSpec
<1> QED
  BY <1>3, StoredNamesHold, NothingLostSilently, OrderIsThatOfTheBytes,
     TimesAreThoseOfTheBytes, StringsAreTheirs, ChunksAreThoseOfTheBytes, PTL
=============================================================================
