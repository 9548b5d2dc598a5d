--------------------------- MODULE TimelineProofs ---------------------------
(***************************************************************************)
(* Proofs about the order and the times of the rows, for any archive.      *)
(***************************************************************************)
EXTENDS Timeline, ListingProofs

-----------------------------------------------------------------------------
(* The timeline: boots by where the timesync files first name them.        *)

\* Places of files, earlier first.
Earlier(p, q) == p[1] < q[1] \/ (p[1] = q[1] /\ p[2] < q[2])
NameAt(files, p) == files[p[1]][p[2]].boot

\* names are those at the places S, each at its first place, in the order of the places.
SeenAt(first, names, S, files) ==
  /\ names \in Seq({ NameAt(files, p) : p \in S })
  /\ first \in [1..Len(names) -> S]
  /\ \A k \in 1..Len(names) : NameAt(files, first[k]) = names[k]
  /\ \A k \in 1..Len(names), p \in S :
       NameAt(files, p) = names[k] => p = first[k] \/ Earlier(first[k], p)
  /\ \A k, l \in 1..Len(names) : k < l => Earlier(first[k], first[l])
  /\ \A p \in S : \E k \in 1..Len(names) : names[k] = NameAt(files, p)
InOrderSeen(names, S, files) == \E first : SeenAt(first, names, S, files)

\* The names of a file follow those that were there, less the ones that were.
LEMMA SeenJoined ==
  ASSUME NEW files, NEW S, NEW T, NEW names, NEW more,
         S \subseteq Nat \X Nat, T \subseteq Nat \X Nat,
         InOrderSeen(names, S, files), InOrderSeen(more, T, files),
         \A p \in S, q \in T : Earlier(p, q)
  PROVE  InOrderSeen(names \o Without(more, Range(names)), S \cup T, files)
<1>1. PICK f : SeenAt(f, names, S, files)
  BY DEF InOrderSeen
<1>2. PICK g : SeenAt(g, more, T, files)
  BY DEF InOrderSeen
<1> DEFINE fresh == Without(more, Range(names))
           n == Len(names)
           k == Len(fresh)
           all == names \o fresh
           N(U) == { NameAt(files, p) : p \in U }
<1>3. more \in Seq(N(T)) /\ names \in Seq(N(S)) /\ n \in Nat /\ DOMAIN names = 1..n
      /\ DOMAIN more = 1..Len(more) /\ Len(more) \in Nat
  BY <1>1, <1>2, LenProperties DEF SeenAt
<1>4. fresh \in Seq(N(T)) /\ \E h : KeptAt(h, more, Range(names))
  BY <1>3, WithoutKeepsOrder
<1>5. PICK h : KeptAt(h, more, Range(names))
  BY <1>4
<1> HIDE DEF fresh
<1>6. k \in Nat /\ DOMAIN fresh = 1..k
  BY <1>4, LenProperties
<1>7. /\ h \in [1..k -> 1..Len(more)]
      /\ \A i \in 1..k : fresh[i] = more[h[i]] /\ more[h[i]] \notin Range(names)
      /\ \A i, j \in 1..k : i < j <=> h[i] < h[j]
      /\ \A i \in 1..Len(more) : more[i] \notin Range(names) => \E j \in 1..k : h[j] = i
  BY <1>5 DEF KeptAt, fresh
<1>80. all \in Seq(N(S \cup T))
  <2>1. \A X, Y : \A s \in Seq(X) : X \subseteq Y => s \in Seq(Y)
    OBVIOUS
  <2>2. N(S) \subseteq N(S \cup T) /\ N(T) \subseteq N(S \cup T)
    OBVIOUS
  <2> HIDE DEF N
  <2>3. names \in Seq(N(S \cup T)) /\ fresh \in Seq(N(S \cup T))
    BY <1>3, <1>4, <2>1, <2>2
  <2> QED
    BY <2>3, ConcatProperties
<1>8. /\ Len(all) = n + k /\ DOMAIN all = 1..(n + k)
      /\ \A i \in 1..n : all[i] = names[i]
      /\ \A i \in 1..k : all[n + i] = fresh[i]
  <2>1. Len(all) = n + k /\ \A i \in 1..(n + k) : all[i] = IF i <= n THEN names[i] ELSE fresh[i - n]
    BY <1>3, <1>4, ConcatProperties
  <2>2. \A i \in 1..n : i \in 1..(n + k) /\ i <= n
    BY <1>3, <1>6
  <2>3. \A i \in 1..k : n + i \in 1..(n + k) /\ ~(n + i <= n) /\ n + i - n = i
    BY <1>3, <1>6
  <2>4. DOMAIN all = 1..(n + k)
    BY <2>1, <1>80, LenProperties
  <2> HIDE DEF all
  <2> QED
    BY <2>1, <2>2, <2>3, <2>4
<1> DEFINE first == [i \in 1..(n + k) |-> IF i <= n THEN f[i] ELSE g[h[i - n]]]
<1> HIDE DEF all
<1>90. \A i \in 1..n : i \in 1..(n + k) /\ first[i] = f[i] /\ all[i] = names[i]
  <2> SUFFICES ASSUME NEW i \in 1..n PROVE i \in 1..(n + k) /\ first[i] = f[i] /\ all[i] = names[i]
    OBVIOUS
  <2>1. i \in 1..(n + k) /\ i <= n
    BY <1>3, <1>6
  <2> QED
    BY <2>1, <1>8
<1>9. \A i \in 1..(n + k) : \/ i \in 1..n
                            \/ /\ i - n \in 1..k /\ i > n /\ first[i] = g[h[i - n]]
                               /\ all[i] = more[h[i - n]] /\ h[i - n] \in 1..Len(more)
                               /\ all[i] \notin Range(names)
  <2> SUFFICES ASSUME NEW i \in 1..(n + k), i \notin 1..n
               PROVE  /\ i - n \in 1..k /\ i > n /\ first[i] = g[h[i - n]]
                      /\ all[i] = more[h[i - n]] /\ h[i - n] \in 1..Len(more)
                      /\ all[i] \notin Range(names)
    BY <1>3
  <2>1. i - n \in 1..k /\ i > n /\ n + (i - n) = i
    BY <1>3, <1>6
  <2> QED
    <3>1. first[i] = g[h[i - n]]
      BY <2>1, <1>3
    <3>2. all[n + (i - n)] = fresh[i - n] /\ fresh[i - n] = more[h[i - n]] /\ more[h[i - n]] \notin Range(names)
      BY <2>1, <1>7, <1>8
    <3>3. h[i - n] \in 1..Len(more)
      BY <2>1, <1>7
    <3> HIDE DEF first
    <3> QED
      BY <2>1, <3>1, <3>2, <3>3
<1>10. /\ \A i \in 1..n : f[i] \in S /\ NameAt(files, f[i]) = names[i]
       /\ \A i \in 1..Len(more) : g[i] \in T /\ NameAt(files, g[i]) = more[i]
       /\ \A p \in S : NameAt(files, p) \in Range(names)
  BY <1>1, <1>2, <1>3 DEF SeenAt, Range
<1>11. first \in [1..(n + k) -> S \cup T]
  <2> SUFFICES ASSUME NEW i \in 1..(n + k) PROVE first[i] \in S \cup T
    OBVIOUS
  <2> HIDE DEF first
  <2> QED
    BY <1>9, <1>90, <1>10
<1> HIDE DEF first
<1>12. \A i \in 1..(n + k) : NameAt(files, first[i]) = all[i]
  <2> SUFFICES ASSUME NEW i \in 1..(n + k) PROVE NameAt(files, first[i]) = all[i]
    OBVIOUS
  <2>1. CASE i \in 1..n
    BY <2>1, <1>90, <1>10
  <2>2. CASE i \notin 1..n
    <3>1. /\ first[i] = g[h[i - n]] /\ all[i] = more[h[i - n]] /\ h[i - n] \in 1..Len(more)
      BY <2>2, <1>9
    <3>2. NameAt(files, g[h[i - n]]) = more[h[i - n]]
      BY <3>1, <1>10
    <3> QED
      BY <3>1, <3>2
  <2> QED
    BY <2>1, <2>2
<1>13. ASSUME NEW i \in 1..(n + k), NEW p \in S \cup T, NameAt(files, p) = all[i]
       PROVE  p = first[i] \/ Earlier(first[i], p)
  <2>1. CASE i \in 1..n
    <3>1. first[i] = f[i] /\ f[i] \in S /\ all[i] = names[i]
      BY <2>1, <1>90, <1>10
    <3>2. CASE p \in S
      BY <3>1, <3>2, <2>1, <1>1, <1>13 DEF SeenAt
    <3>3. CASE p \in T
      BY <3>1, <3>3
    <3> QED
      BY <3>2, <3>3
  <2>2. CASE i \notin 1..n
    <3>1. /\ first[i] = g[h[i - n]] /\ all[i] = more[h[i - n]] /\ h[i - n] \in 1..Len(more)
          /\ all[i] \notin Range(names)
      BY <2>2, <1>9
    <3>2. p \in T
      BY <3>1, <1>10, <1>13
    <3> QED
      BY <3>1, <3>2, <1>2, <1>13 DEF SeenAt
  <2> QED
    BY <2>1, <2>2
<1>14. ASSUME NEW i \in 1..(n + k), NEW j \in 1..(n + k), i < j
       PROVE  Earlier(first[i], first[j])
  <2>1. CASE j \in 1..n
    <3>1. i \in 1..n
      BY <2>1, <1>3, <1>14
    <3>2. first[i] = f[i] /\ first[j] = f[j]
      BY <2>1, <3>1, <1>90
    <3> QED
      BY <2>1, <3>1, <3>2, <1>1, <1>14 DEF SeenAt
  <2>2. CASE j \notin 1..n /\ i \in 1..n
    <3>1. first[i] \in S /\ first[j] \in T
      <4>1. n + 0 < j
        BY <2>2, <1>3, <1>6
      <4>2. first[i] = f[i]
        BY <2>2, <1>90
      <4>3. first[j] = g[h[j - n]] /\ h[j - n] \in 1..Len(more)
        BY <2>2, <1>9
      <4> QED
        BY <2>2, <4>2, <4>3, <1>10
    <3> QED
      BY <3>1
  <2>3. CASE j \notin 1..n /\ i \notin 1..n
    <3>1. /\ i - n \in 1..k /\ j - n \in 1..k /\ h[i - n] \in 1..Len(more)
          /\ h[j - n] \in 1..Len(more) /\ first[i] = g[h[i - n]] /\ first[j] = g[h[j - n]]
      BY <2>3, <1>9
    <3>2. i - n < j - n
      BY <1>14, <1>3, <1>6
    <3>3. h[i - n] < h[j - n]
      BY <3>1, <3>2, <1>7
    <3> QED
      BY <3>1, <3>3, <1>2 DEF SeenAt
  <2> QED
    BY <2>1, <2>2, <2>3
<1>15. ASSUME NEW p \in S \cup T
       PROVE  \E i \in 1..(n + k) : all[i] = NameAt(files, p)
  <2>1. CASE NameAt(files, p) \in Range(names)
    <3>1. PICK i \in 1..n : names[i] = NameAt(files, p)
      BY <2>1, <1>3 DEF Range
    <3>2. i \in 1..(n + k) /\ all[i] = names[i]
      BY <1>3, <1>6, <1>8
    <3> QED
      BY <3>1, <3>2
  <2>2. CASE NameAt(files, p) \notin Range(names)
    <3>1. p \in T
      BY <2>2, <1>10
    <3>2. PICK m \in 1..Len(more) : more[m] = NameAt(files, p)
      BY <3>1, <1>2 DEF SeenAt
    <3>3. PICK j \in 1..k : h[j] = m
      BY <3>2, <2>2, <1>7
    <3>4. n + j \in 1..(n + k) /\ all[n + j] = fresh[j] /\ fresh[j] = more[m]
      <4>1. n + j \in 1..(n + k)
        BY <3>3, <1>3, <1>6
      <4>2. all[n + j] = fresh[j]
        BY <3>3, <1>8
      <4> QED
        BY <3>3, <4>1, <4>2, <1>7
    <3> QED
      BY <3>2, <3>4
  <2> QED
    BY <2>1, <2>2
<1>16. Len(all) = n + k /\ n + k \in Nat
  BY <1>3, <1>6, <1>8
<1>17. SeenAt(first, all, S \cup T, files)
  BY <1>80, <1>8, <1>11, <1>12, <1>13, <1>14, <1>15, <1>16 DEF SeenAt
<1>18. InOrderSeen(all, S \cup T, files)
  BY <1>17 DEF InOrderSeen
<1> QED
  BY <1>18 DEF all, fresh

IsDict(d)  == d \in Seq(Range(d)) /\ \A i \in 1..Len(d) : "boot" \in DOMAIN d[i]
NamesOf(d) == [i \in 1..Len(d) |-> d[i].boot]

\* A merge keeps the names of the first dict and has those of the second follow.
LEMMA MergeNames ==
  ASSUME NEW base, NEW new, IsDict(base), IsDict(new)
  PROVE  /\ IsDict(MergeDicts(base, new))
         /\ NamesOf(MergeDicts(base, new)) =
              NamesOf(base) \o Without(NamesOf(new), Range(NamesOf(base)))
<1> DEFINE kept == [i \in DOMAIN base |-> [base[i] EXCEPT !.records = @ \o RecordsIn(new, base[i].boot)]]
           bad  == { x \in Range(new) : IndexOf(base, x.boot) # {} }
           rest == Without(new, bad)
           n == Len(base)
           m == Len(new)
           k == Len(rest)
           all == kept \o rest
<1>1. /\ base \in Seq(Range(base)) /\ new \in Seq(Range(new)) /\ n \in Nat /\ m \in Nat
      /\ DOMAIN base = 1..n /\ DOMAIN new = 1..m
      /\ \A i \in 1..n : "boot" \in DOMAIN base[i]
      /\ \A i \in 1..m : "boot" \in DOMAIN new[i]
  BY LenProperties DEF IsDict
<1>2. MergeDicts(base, new) = all
  BY DEF MergeDicts, NewIn
<1>3. /\ kept \in Seq(Range(kept)) /\ Len(kept) = n
      /\ \A i \in 1..n : kept[i].boot = base[i].boot /\ "boot" \in DOMAIN kept[i]
  <2>1. \A i \in 1..n : kept[i] = [base[i] EXCEPT !.records = @ \o RecordsIn(new, base[i].boot)]
    BY <1>1
  <2>2. \A i \in 1..n : kept[i].boot = base[i].boot /\ "boot" \in DOMAIN kept[i]
    BY <1>1, <2>1
  <2>3. kept \in [1..n -> Range(kept)]
    BY <1>1 DEF Range
  <2> HIDE DEF kept
  <2> QED
    BY <1>1, <2>2, <2>3
<1>4. rest \in Seq(Range(new)) /\ \E h : KeptAt(h, new, bad)
  <2> HIDE DEF bad
  <2> QED
    BY <1>1, WithoutKeepsOrder
<1>5. PICK h : KeptAt(h, new, bad)
  BY <1>4
<1> HIDE DEF kept
<1>6. /\ k \in Nat /\ DOMAIN rest = 1..k
      /\ h \in [1..k -> 1..m]
      /\ \A i \in 1..k : rest[i] = new[h[i]] /\ new[h[i]] \notin bad
      /\ \A i, j \in 1..k : i < j <=> h[i] < h[j]
      /\ \A i \in 1..m : new[i] \notin bad => \E j \in 1..k : h[j] = i
  BY <1>4, <1>5, LenProperties DEF KeptAt
<1>7. /\ NamesOf(base) \in Seq(Range(NamesOf(base))) /\ Len(NamesOf(base)) = n
      /\ NamesOf(new) \in Seq(Range(NamesOf(new))) /\ Len(NamesOf(new)) = m
      /\ \A i \in 1..n : NamesOf(base)[i] = base[i].boot
      /\ \A i \in 1..m : NamesOf(new)[i] = new[i].boot
  <2>1. \A s : Len(s) \in Nat => /\ NamesOf(s) \in Seq(Range(NamesOf(s)))
                                 /\ Len(NamesOf(s)) = Len(s)
                                 /\ \A i \in 1..Len(s) : NamesOf(s)[i] = s[i].boot
    <3> SUFFICES ASSUME NEW s, Len(s) \in Nat
                 PROVE  /\ NamesOf(s) \in Seq(Range(NamesOf(s)))
                        /\ Len(NamesOf(s)) = Len(s)
                        /\ \A i \in 1..Len(s) : NamesOf(s)[i] = s[i].boot
      OBVIOUS
    <3>1. NamesOf(s) \in Seq({ s[i].boot : i \in 1..Len(s) }) /\ Len(NamesOf(s)) = Len(s)
      BY DEF NamesOf
    <3> QED
      BY <3>1, SeqOfItsRange DEF NamesOf
  <2> QED
    BY <1>1, <2>1
<1>8. \A i \in 1..m : new[i] \in bad <=> NamesOf(new)[i] \in Range(NamesOf(base))
  <2>1. DOMAIN NamesOf(base) = 1..n
    BY DEF NamesOf
  <2>2. \A b : IndexOf(base, b) # {} <=> \E i \in 1..n : base[i].boot = b
    BY <1>1 DEF IndexOf
  <2>3. \A b : b \in Range(NamesOf(base)) <=> \E i \in 1..n : base[i].boot = b
    BY <2>1, <1>7 DEF Range
  <2>4. \A i \in 1..m : new[i] \in Range(new)
    BY <1>1 DEF Range
  <2> QED
    BY <2>2, <2>3, <2>4, <1>7
<1> HIDE DEF bad, rest
<1>9. Finds(h, k, NamesOf(new), Range(NamesOf(base)))
  BY <1>6, <1>7, <1>8 DEF Finds
<1>10. Without(NamesOf(new), Range(NamesOf(base))) = [i \in 1..k |-> NamesOf(new)[h[i]]]
  BY <1>7, <1>9, LeftInOrder
<1>11. Without(NamesOf(new), Range(NamesOf(base))) = NamesOf(rest)
  <2>1. \A i \in 1..k : NamesOf(new)[h[i]] = rest[i].boot
    BY <1>6, <1>7
  <2> QED
    BY <1>10, <2>1 DEF NamesOf
<1>12. /\ Len(all) = n + k /\ all \in Seq(Range(all))
       /\ \A i \in 1..(n + k) : all[i] = IF i <= n THEN kept[i] ELSE rest[i - n]
  <2> DEFINE both == Range(kept) \cup Range(new)
  <2>1. kept \in Seq(both) /\ rest \in Seq(both)
    BY <1>3, <1>4
  <2> HIDE DEF both
  <2>2. /\ all \in Seq(both) /\ Len(all) = n + k
        /\ \A i \in 1..(n + k) : all[i] = IF i <= n THEN kept[i] ELSE rest[i - n]
    <3>1. /\ all \in Seq(both) /\ Len(all) = Len(kept) + Len(rest)
          /\ \A i \in 1..Len(kept) + Len(rest) : all[i] = IF i <= Len(kept) THEN kept[i] ELSE rest[i - Len(kept)]
      BY <2>1, ConcatProperties
    <3> HIDE DEF all
    <3> QED
      BY <3>1, <1>3
  <2> HIDE DEF all
  <2> QED
    BY <2>2, SeqOfItsRange
<1>13. \A i \in 1..(n + k) : IF i <= n THEN i \in 1..n ELSE i - n \in 1..k
  BY <1>1, <1>6
<1> HIDE DEF all
<1>14. IsDict(all)
  <2>1. \A i \in 1..k : "boot" \in DOMAIN rest[i]
    BY <1>1, <1>6
  <2>2. \A i \in 1..(n + k) : "boot" \in DOMAIN all[i]
    BY <2>1, <1>3, <1>12, <1>13
  <2> QED
    BY <2>2, <1>12 DEF IsDict
<1>15. NamesOf(all) = NamesOf(base) \o NamesOf(rest)
  <2> DEFINE both == NamesOf(base) \o NamesOf(rest)
  <2>1. NamesOf(rest) \in Seq(Range(NamesOf(new))) /\ Len(NamesOf(rest)) = k
    <3>1. \A i \in 1..k : NamesOf(new)[h[i]] \in Range(NamesOf(new))
      <4>1. DOMAIN NamesOf(new) = 1..m
        BY <1>7, LenProperties
      <4> QED
        BY <4>1, <1>6 DEF Range
    <3> QED
      BY <3>1, <1>10, <1>11, <1>6
  <2>2. /\ Len(both) = n + k /\ both \in Seq(Range(NamesOf(base)) \cup Range(NamesOf(new)))
        /\ \A i \in 1..(n + k) : both[i] = IF i <= n THEN NamesOf(base)[i] ELSE NamesOf(rest)[i - n]
    <3> DEFINE X == Range(NamesOf(base)) \cup Range(NamesOf(new))
    <3>1. NamesOf(base) \in Seq(X) /\ NamesOf(rest) \in Seq(X)
      BY <2>1, <1>7
    <3> HIDE DEF X
    <3>2. /\ Len(both) = n + k /\ both \in Seq(X)
          /\ \A i \in 1..(n + k) : both[i] = IF i <= n THEN NamesOf(base)[i] ELSE NamesOf(rest)[i - n]
      <4> DEFINE p == Len(NamesOf(base))
                 q == Len(NamesOf(rest))
      <4>1. /\ both \in Seq(X) /\ Len(both) = p + q
            /\ \A i \in 1..p + q : both[i] = IF i <= p THEN NamesOf(base)[i] ELSE NamesOf(rest)[i - p]
        BY <3>1, ConcatProperties
      <4>2. p = n /\ q = k
        BY <1>7, <2>1
      <4> HIDE DEF both, p, q
      <4> QED
        BY <4>1, <4>2
    <3> HIDE DEF both
    <3> QED
      BY <3>2 DEF X
  <2>3. \A i \in 1..k : NamesOf(rest)[i] = rest[i].boot
    BY DEF NamesOf
  <2>4. \A i \in 1..(n + k) : NamesOf(all)[i] = all[i].boot
    BY <1>12 DEF NamesOf
  <2> HIDE DEF both
  <2>5. \A i \in 1..(n + k) : NamesOf(all)[i] = both[i]
    <3> SUFFICES ASSUME NEW i \in 1..(n + k) PROVE NamesOf(all)[i] = both[i]
      OBVIOUS
    <3>1. CASE i <= n
      BY <3>1, <1>3, <1>7, <1>12, <1>13, <2>2, <2>4
    <3>2. CASE ~(i <= n)
      BY <3>2, <1>12, <1>13, <2>2, <2>3, <2>4
    <3> QED
      BY <3>1, <3>2
  <2>6. NamesOf(all) = [i \in 1..(n + k) |-> NamesOf(all)[i]]
    BY <1>12 DEF NamesOf
  <2>7. both = [i \in 1..(n + k) |-> both[i]]
    BY <2>2, LenProperties
  <2>8. NamesOf(all) = both
    BY <2>5, <2>6, <2>7
  <2> QED
    BY <2>8 DEF both
<1> QED
  BY <1>2, <1>11, <1>14, <1>15

\* The walk of WalkItems as a loop: the state it starts from and the next one.
StartWalk == [dict |-> <<>>, open |-> <<>>, stop |-> FALSE]
NextWalk(f, content, id, n) ==
  IF n = 0 THEN StartWalk ELSE WalkItem(f[n - 1], content[n], n, id)
WalksTo(f, content, id, n) == f = [k \in 0..n |-> NextWalk(f, content, id, k)]

\* The walk has a state after every item.
LEMMA WalksAreThere ==
  ASSUME NEW content, NEW id, NEW m \in Nat
  PROVE  \E f : WalksTo(f, content, id, m)
<1> DEFINE S == { n \in 0..m : \E f : WalksTo(f, content, id, n) }
<1>1. 0 \in S
  <2> DEFINE f == [k \in 0..0 |-> StartWalk]
  <2>1. WalksTo(f, content, id, 0)
    BY DEF WalksTo, NextWalk
  <2> QED
    BY <2>1
<1>2. ASSUME NEW n \in 0..(m - 1), n \in S
      PROVE  n + 1 \in S
  <2>1. PICK f : WalksTo(f, content, id, n)
    BY <1>2
  <2> DEFINE last == WalkItem(f[n], content[n + 1], n + 1, id)
             g == [k \in 0..(n + 1) |-> IF k = n + 1 THEN last ELSE f[k]]
  <2>2. \A k \in 0..n : k \in 0..(n + 1) /\ k # n + 1 /\ g[k] = f[k] /\ f[k] = NextWalk(f, content, id, k)
    BY <2>1 DEF WalksTo
  <2>3. \A k \in 0..n : NextWalk(f, content, id, k) = NextWalk(g, content, id, k)
    <3> SUFFICES ASSUME NEW k \in 0..n PROVE NextWalk(f, content, id, k) = NextWalk(g, content, id, k)
      OBVIOUS
    <3>1. CASE k = 0
      BY <3>1 DEF NextWalk
    <3>2. CASE k # 0
      <4>1. k - 1 \in 0..n
        BY <3>2
      <4>2. f[k - 1] = g[k - 1]
        BY <2>2, <4>1
      <4> QED
        BY <3>2, <4>2 DEF NextWalk
    <3> QED
      BY <3>1, <3>2
  <2>4. last = NextWalk(g, content, id, n + 1)
    <3>1. n \in 0..n /\ n + 1 # 0 /\ n + 1 - 1 = n
      OBVIOUS
    <3>2. g[n] = f[n]
      BY <2>2, <3>1
    <3> QED
      BY <3>1, <3>2 DEF NextWalk
  <2>5. \A k \in 0..(n + 1) : g[k] = NextWalk(g, content, id, k)
    <3> SUFFICES ASSUME NEW k \in 0..(n + 1) PROVE g[k] = NextWalk(g, content, id, k)
      OBVIOUS
    <3>1. CASE k = n + 1
      BY <2>4, <3>1
    <3>2. CASE k # n + 1
      <4>1. k \in 0..n
        BY <3>2
      <4> QED
        BY <2>2, <2>3, <4>1
    <3> QED
      BY <3>1, <3>2
  <2>6. g = [k \in 0..(n + 1) |-> g[k]]
    OBVIOUS
  <2> HIDE DEF g
  <2>7. WalksTo(g, content, id, n + 1)
    BY <2>5, <2>6 DEF WalksTo
  <2> QED
    BY <2>7
<1> HIDE DEF S
<1>3. \A n \in 0..m : n \in S
  BY <1>1, <1>2, CountingUp
<1>4. m \in S
  BY <1>3
<1> QED
  BY <1>4 DEF S

\* The walk is what the loop does item after item.
LEMMA WalkIsALoop ==
  ASSUME NEW content, NEW id, Len(content) \in Nat
  PROVE  /\ WalkItems(content, id)[0] = StartWalk
         /\ \A n \in 1..Len(content) :
              WalkItems(content, id)[n] = WalkItem(WalkItems(content, id)[n - 1], content[n], n, id)
<1> DEFINE m == Len(content)
           w == WalkItems(content, id)
<1>1. w = CHOOSE f : f = [n \in 0..m |->
            IF n = 0 THEN [dict |-> <<>>, open |-> <<>>, stop |-> FALSE]
            ELSE WalkItem(f[n - 1], content[n], n, id)]
  BY DEF WalkItems
<1>2. w = CHOOSE f : WalksTo(f, content, id, m)
  BY <1>1 DEF WalksTo, NextWalk, StartWalk
<1>3. WalksTo(w, content, id, m)
  <2> HIDE DEF w
  <2> QED
    BY <1>2, WalksAreThere
<1> HIDE DEF w
<1>4. \A n \in 0..m : w[n] = NextWalk(w, content, id, n)
  BY <1>3 DEF WalksTo
<1>5. w[0] = StartWalk
  BY <1>4 DEF NextWalk
<1>6. \A n \in 1..m : w[n] = WalkItem(w[n - 1], content[n], n, id)
  BY <1>4 DEF NextWalk
<1> QED
  BY <1>5, <1>6 DEF w

Ends == {"bad", "tail"}
Kinds == {"boot", "record"} \cup Ends

\* The readable headers of the first n items of a file.
HeadsIn(files, f, n) ==
  { p \in {f} \X (1..n) : /\ files[f][p[2]].is = "boot"
                          /\ \A j \in 1..p[2] : files[f][j].is \notin Ends }

\* What the walk has after n items.
WalkHolds(s, files, f, n) ==
  /\ s = [dict |-> s.dict, open |-> s.open, stop |-> s.stop] /\ s.stop \in BOOLEAN
  /\ IsDict(s.dict) /\ IsDict(s.open)
  /\ s.stop <=> \E j \in 1..n : files[f][j].is \in Ends
  /\ InOrderSeen(NamesOf(MergeDicts(s.dict, s.open)), HeadsIn(files, f, n), files)

\* Before the first boot there is nothing to merge.
LEMMA EmptyDict ==
  /\ IsDict(<<>>) /\ NamesOf(<<>>) = <<>>
  /\ MergeDicts(<<>>, <<>>) = <<>>
<1>1. IsDict(<<>>) /\ NamesOf(<<>>) = <<>>
  BY DEF IsDict, NamesOf
<1>2. Without(<<>>, {}) = <<>>
  <2>1. <<>> \in Seq({}) /\ \A i \in 1..Len(<<>>) : <<>>[i] \in {}
    OBVIOUS
  <2> QED
    BY <2>1, NothingLeft
<1>3. { x \in Range(<<>>) : IndexOf(<<>>, x.boot) # {} } = {}
  BY DEF Range
<1>4. MergeDicts(<<>>, <<>>) = <<>>
  <2>1. [i \in DOMAIN <<>> |-> [<<>>[i] EXCEPT !.records = @ \o RecordsIn(<<>>, <<>>[i].boot)]] = <<>>
    OBVIOUS
  <2>2. MergeDicts(<<>>, <<>>) = <<>> \o <<>>
    BY <2>1, <1>2, <1>3 DEF MergeDicts, NewIn
  <2> QED
    BY <2>2
<1> QED
  BY <1>1, <1>4

\* The names of a dict are a sequence, one for each entry.
LEMMA NamesAreNames ==
  ASSUME NEW d, IsDict(d)
  PROVE  /\ NamesOf(d) \in Seq(Range(NamesOf(d))) /\ Len(NamesOf(d)) = Len(d) /\ Len(d) \in Nat
         /\ DOMAIN NamesOf(d) = 1..Len(d) /\ \A i \in 1..Len(d) : NamesOf(d)[i] = d[i].boot
<1>1. Len(d) \in Nat
  BY LenProperties DEF IsDict
<1>2. NamesOf(d) \in Seq({ d[i].boot : i \in 1..Len(d) }) /\ Len(NamesOf(d)) = Len(d)
  BY <1>1 DEF NamesOf
<1> QED
  BY <1>1, <1>2, SeqOfItsRange DEF NamesOf

\* Merging what has been merged adds no name.
LEMMA MergedAgain ==
  ASSUME NEW base, NEW new, IsDict(base), IsDict(new)
  PROVE  NamesOf(MergeDicts(MergeDicts(base, new), new)) = NamesOf(MergeDicts(base, new))
<1> DEFINE a == NamesOf(base)
           b == NamesOf(new)
           fresh == Without(b, Range(a))
           m == Len(new)
           k == Len(fresh)
           all == a \o fresh
<1>1. IsDict(MergeDicts(base, new)) /\ NamesOf(MergeDicts(base, new)) = all
  BY MergeNames
<1>2. NamesOf(MergeDicts(MergeDicts(base, new), new)) = all \o Without(b, Range(all))
  BY <1>1, MergeNames
<1>3. /\ a \in Seq(Range(a)) /\ b \in Seq(Range(b)) /\ Len(b) = m /\ m \in Nat /\ Len(a) \in Nat
      /\ DOMAIN a = 1..Len(a)
  BY NamesAreNames
<1> HIDE DEF a, b
<1>4. fresh \in Seq(Range(b)) /\ \E h : KeptAt(h, b, Range(a))
  BY <1>3, WithoutKeepsOrder
<1>5. PICK h : KeptAt(h, b, Range(a))
  BY <1>4
<1>6. /\ k \in Nat /\ \A i \in 1..k : fresh[i] = b[h[i]]
      /\ \A i \in 1..m : b[i] \notin Range(a) => \E j \in 1..k : h[j] = i
  BY <1>3, <1>4, <1>5, LenProperties DEF KeptAt
<1> HIDE DEF fresh
<1>7. /\ Len(all) = Len(a) + k /\ all \in Seq(Range(a) \cup Range(b))
      /\ \A i \in 1..(Len(a) + k) : all[i] = IF i <= Len(a) THEN a[i] ELSE fresh[i - Len(a)]
  <2> DEFINE X == Range(a) \cup Range(b)
  <2>1. a \in Seq(X) /\ fresh \in Seq(X)
    BY <1>3, <1>4
  <2> HIDE DEF X
  <2>2. /\ Len(all) = Len(a) + k /\ all \in Seq(X)
        /\ \A i \in 1..(Len(a) + k) : all[i] = IF i <= Len(a) THEN a[i] ELSE fresh[i - Len(a)]
    BY <2>1, ConcatProperties
  <2> QED
    BY <2>2 DEF X
<1> HIDE DEF all
<1>8. \A i \in 1..Len(b) : b[i] \in Range(all)
  <2> SUFFICES ASSUME NEW i \in 1..m PROVE \E j \in 1..(Len(a) + k) : all[j] = b[i]
    <3>1. DOMAIN all = 1..(Len(a) + k)
      BY <1>7, LenProperties
    <3> QED
      BY <3>1, <1>3 DEF Range
  <2>1. CASE b[i] \in Range(a)
    <3>1. PICK j \in 1..Len(a) : a[j] = b[i]
      BY <2>1, <1>3 DEF Range
    <3>2. j \in 1..(Len(a) + k) /\ j <= Len(a)
      BY <1>3, <1>6
    <3> QED
      BY <3>1, <3>2, <1>7
  <2>2. CASE b[i] \notin Range(a)
    <3>1. PICK j \in 1..k : h[j] = i
      BY <2>2, <1>6
    <3>2. Len(a) + j \in 1..(Len(a) + k) /\ ~(Len(a) + j <= Len(a)) /\ Len(a) + j - Len(a) = j
      BY <1>3, <1>6
    <3>3. all[Len(a) + j] = fresh[j]
      BY <3>2, <1>7
    <3> QED
      BY <3>1, <3>2, <3>3, <1>6
  <2> QED
    BY <2>1, <2>2
<1>9. Without(b, Range(all)) = <<>>
  BY <1>3, <1>8, NothingLeft
<1>10. all \o <<>> = all
  BY <1>7, ConcatEmptySeq
<1> QED
  BY <1>1, <1>2, <1>9, <1>10 DEF all, fresh

\* No place, no name.
LEMMA NoneSeen ==
  ASSUME NEW files, NEW f
  PROVE  InOrderSeen(<<>>, {}, files)
<1>1. <<>> \in [1..0 -> {}]
  OBVIOUS
<1>2. Len(<<>>) = 0 /\ <<>> \in Seq({ NameAt(files, p) : p \in {} })
  OBVIOUS
<1>3. SeenAt(<<>>, <<>>, {}, files)
  BY <1>1, <1>2 DEF SeenAt
<1> QED
  BY <1>3 DEF InOrderSeen

\* One place, one name.
LEMMA OneSeen ==
  ASSUME NEW files, NEW p, NEW name, name = NameAt(files, p)
  PROVE  InOrderSeen(<<name>>, {p}, files)
<1>1. <<p>> \in [1..1 -> {p}]
  OBVIOUS
<1>2. Len(<<name>>) = 1 /\ <<name>> \in Seq({ NameAt(files, q) : q \in {p} })
  OBVIOUS
<1>3. SeenAt(<<p>>, <<name>>, {p}, files)
  BY <1>1, <1>2 DEF SeenAt
<1> QED
  BY <1>3 DEF InOrderSeen

\* The walk before the first item.
LEMMA WalkStarts ==
  ASSUME NEW files, NEW f
  PROVE  WalkHolds(StartWalk, files, f, 0)
<1>1. HeadsIn(files, f, 0) = {}
  BY DEF HeadsIn
<1>2. NamesOf(MergeDicts(<<>>, <<>>)) = <<>> /\ IsDict(<<>>)
  BY EmptyDict
<1>3. InOrderSeen(<<>>, {}, files)
  BY NoneSeen
<1> QED
  BY <1>1, <1>2, <1>3 DEF WalkHolds, StartWalk

\* parse_timesync_file, one item: a header adds its boot after those that were named before,
\* once; nothing counts past the first damage.
LEMMA WalkSteps ==
  ASSUME NEW files, NEW f \in Nat, NEW n \in Nat, NEW id, NEW s,
         files[f][n + 1].is \in Kinds, WalkHolds(s, files, f, n)
  PROVE  WalkHolds(WalkItem(s, files[f][n + 1], n + 1, id), files, f, n + 1)
<1> DEFINE item == files[f][n + 1]
           t == WalkItem(s, item, n + 1, id)
           heads == HeadsIn(files, f, n)
           Now(S) == InOrderSeen(NamesOf(MergeDicts(S.dict, S.open)), HeadsIn(files, f, n + 1), files)
<1>0. /\ s = [dict |-> s.dict, open |-> s.open, stop |-> s.stop] /\ s.stop \in BOOLEAN
      /\ IsDict(s.dict) /\ IsDict(s.open)
      /\ (s.stop <=> \E j \in 1..n : files[f][j].is \in Ends)
      /\ InOrderSeen(NamesOf(MergeDicts(s.dict, s.open)), heads, files)
  BY DEF WalkHolds
<1>1. 1..(n + 1) = (1..n) \cup {n + 1} /\ n + 1 \notin 1..n
  OBVIOUS
<1>2. s.stop \/ item.is \in Ends <=> \E j \in 1..(n + 1) : files[f][j].is \in Ends
  BY <1>0, <1>1
<1>3. HeadsIn(files, f, n + 1) =
        IF ~s.stop /\ item.is = "boot" THEN heads \cup {<<f, n + 1>>} ELSE heads
  <2>1. heads \subseteq HeadsIn(files, f, n + 1)
    BY <1>1 DEF HeadsIn
  <2>2. ASSUME NEW p \in HeadsIn(files, f, n + 1), p[2] # n + 1
        PROVE  p \in heads
    BY <2>2, <1>1 DEF HeadsIn
  <2>3. \A p \in HeadsIn(files, f, n + 1) : p = <<f, p[2]>>
    BY DEF HeadsIn
  <2>4. <<f, n + 1>> \in HeadsIn(files, f, n + 1) <=> ~s.stop /\ item.is = "boot"
    <3>1. "boot" \notin Ends
      BY DEF Ends
    <3>2. <<f, n + 1>> \in HeadsIn(files, f, n + 1)
            <=> item.is = "boot" /\ \A j \in 1..(n + 1) : files[f][j].is \notin Ends
      BY <1>1 DEF HeadsIn
    <3> QED
      BY <3>1, <3>2, <1>2
  <2> QED
    <3> DEFINE more == HeadsIn(files, f, n + 1)
               p == <<f, n + 1>>
    <3>1. more \subseteq heads \cup {p}
      <4> SUFFICES ASSUME NEW q \in more, q \notin heads PROVE q = p
        OBVIOUS
      <4>1. q[2] = n + 1 /\ q = <<f, q[2]>>
        BY <2>2, <2>3
      <4> QED
        BY <4>1
    <3>2. p \notin heads
      BY <1>1 DEF HeadsIn
    <3>3. heads \subseteq more
      BY <2>1
    <3>4. p \in more <=> ~s.stop /\ item.is = "boot"
      BY <2>4
    <3> HIDE DEF more, p, heads
    <3>5. more = IF ~s.stop /\ item.is = "boot" THEN heads \cup {p} ELSE heads
      BY <3>1, <3>2, <3>3, <3>4
    <3> QED
      BY <3>5 DEF more, p
<1> USE DEF Ends
<1>4. CASE s.stop
  <2>1. t = s
    BY <1>4 DEF WalkItem
  <2> QED
    BY <2>1, <1>0, <1>2, <1>3, <1>4 DEF WalkHolds
<1>5. CASE ~s.stop /\ item.is = "record"
  <2>1. CASE s.open = <<>>
    <3>1. t = s
      BY <2>1, <1>5 DEF WalkItem
    <3> QED
      BY <3>1, <1>0, <1>2, <1>3, <1>5 DEF WalkHolds
  <2>2. CASE s.open # <<>>
    <3> DEFINE r == [s.open[1] EXCEPT !.records = Append(@, RecordAt(item, n + 1, id))]
               open == [s.open EXCEPT ![1] = r]
    <3>1. t = [s EXCEPT !.open = open]
      BY <2>2, <1>5 DEF WalkItem
    <3>2. t = [dict |-> s.dict, open |-> open, stop |-> s.stop]
      <4> HIDE DEF open
      <4> QED
        BY <3>1, <1>0
    <3>3. /\ s.open \in Seq(Range(s.open)) /\ Len(s.open) \in Nat /\ DOMAIN s.open = 1..Len(s.open)
          /\ \A i \in 1..Len(s.open) : "boot" \in DOMAIN s.open[i]
      BY <1>0, LenProperties DEF IsDict
    <3>4. 1 \in 1..Len(s.open)
      BY <3>3, <2>2
    <3>5. r.boot = s.open[1].boot /\ "boot" \in DOMAIN r
      BY <3>3, <3>4
    <3> HIDE DEF r
    <3>6. open = [i \in 1..Len(s.open) |-> IF i = 1 THEN r ELSE s.open[i]]
      BY <3>3
    <3>7. /\ open \in Seq(Range(s.open) \cup {r}) /\ Len(open) = Len(s.open)
          /\ \A i \in 1..Len(s.open) : open[i] = IF i = 1 THEN r ELSE s.open[i]
      <4>1. \A i \in 1..Len(s.open) : s.open[i] \in Range(s.open)
        BY <3>3 DEF Range
      <4>2. open \in [1..Len(s.open) -> Range(s.open) \cup {r}]
        BY <3>6, <4>1
      <4> HIDE DEF open
      <4> QED
        BY <3>3, <3>6, <4>2
    <3> HIDE DEF open
    <3>8. IsDict(open)
      <4>1. open \in Seq(Range(open))
        BY <3>7, SeqOfItsRange
      <4> QED
        BY <4>1, <3>3, <3>5, <3>7 DEF IsDict
    <3>9. NamesOf(open) = NamesOf(s.open)
      BY <3>5, <3>7 DEF NamesOf
    <3>10. NamesOf(MergeDicts(s.dict, open)) = NamesOf(MergeDicts(s.dict, s.open))
      BY <3>8, <3>9, <1>0, MergeNames
    <3> QED
      BY <3>2, <3>8, <3>10, <1>0, <1>2, <1>3, <1>5 DEF WalkHolds
  <2> QED
    BY <2>1, <2>2
<1>6. CASE ~s.stop /\ item.is = "boot"
  <2> DEFINE dict == MergeDicts(s.dict, s.open)
             x == BootAt(item, n + 1, id)
  <2>1. t = [dict |-> dict, open |-> <<x>>, stop |-> s.stop]
    <3>1. t = [s EXCEPT !.dict = dict, !.open = <<x>>]
      BY <1>6 DEF WalkItem
    <3> HIDE DEF dict, x
    <3> QED
      BY <3>1, <1>0
  <2>2. IsDict(dict)
    BY <1>0, MergeNames
  <2>3. IsDict(<<x>>) /\ NamesOf(<<x>>) = <<item.boot>>
    <3>1. x.boot = item.boot /\ "boot" \in DOMAIN x
      BY DEF BootAt
    <3> HIDE DEF x
    <3>2. <<x>> \in Seq({x}) /\ Len(<<x>>) = 1 /\ <<x>>[1] = x
      OBVIOUS
    <3>3. <<x>> \in Seq(Range(<<x>>))
      BY <3>2, SeqOfItsRange
    <3>4. NamesOf(<<x>>) = [i \in 1..1 |-> item.boot]
      BY <3>1, <3>2 DEF NamesOf
    <3> QED
      BY <3>1, <3>2, <3>3, <3>4 DEF IsDict
  <2> HIDE DEF x, dict
  <2>4. NamesOf(MergeDicts(dict, <<x>>)) =
          NamesOf(dict) \o Without(<<item.boot>>, Range(NamesOf(dict)))
    BY <2>2, <2>3, MergeNames
  <2>5. InOrderSeen(<<item.boot>>, {<<f, n + 1>>}, files)
    <3>1. NameAt(files, <<f, n + 1>>) = item.boot
      BY DEF NameAt
    <3> QED
      BY <3>1, OneSeen
  <2>6. heads \subseteq Nat \X Nat /\ {<<f, n + 1>>} \subseteq Nat \X Nat
    BY DEF HeadsIn
  <2>7. \A p \in heads, q \in {<<f, n + 1>>} : Earlier(p, q)
    BY DEF HeadsIn, Earlier
  <2>8. InOrderSeen(NamesOf(dict), heads, files)
    BY <1>0 DEF dict
  <2> HIDE DEF heads, item
  <2>9. InOrderSeen(NamesOf(MergeDicts(dict, <<x>>)), heads \cup {<<f, n + 1>>}, files)
    BY <2>4, <2>5, <2>6, <2>7, <2>8, SeenJoined
  <2>10. HeadsIn(files, f, n + 1) = heads \cup {<<f, n + 1>>}
    BY <1>3, <1>6
  <2>11. InOrderSeen(NamesOf(MergeDicts(t.dict, t.open)), HeadsIn(files, f, n + 1), files)
    <3>1. t.dict = dict /\ t.open = <<x>>
      BY <2>1
    <3> HIDE DEF t
    <3> QED
      BY <3>1, <2>9, <2>10
  <2>12. ~(\E j \in 1..(n + 1) : files[f][j].is \in Ends)
    BY <1>2, <1>6
  <2> QED
    BY <2>1, <2>2, <2>3, <2>11, <2>12, <1>6 DEF WalkHolds, item
<1>7. CASE ~s.stop /\ item.is \in Ends
  <2> DEFINE dict == IF item.is = "bad" THEN MergeDicts(s.dict, s.open) ELSE s.dict
  <2>1. t = [dict |-> dict, open |-> s.open, stop |-> TRUE]
    <3>1. CASE item.is = "bad"
      <4>1. t = [s EXCEPT !.dict = MergeDicts(@, s.open), !.stop = TRUE]
        BY <1>7, <3>1 DEF WalkItem
      <4> QED
        BY <4>1, <3>1, <1>0
    <3>2. CASE item.is = "tail"
      <4>1. t = [s EXCEPT !.stop = TRUE]
        BY <1>7, <3>2 DEF WalkItem
      <4> QED
        BY <4>1, <3>2, <1>0
    <3> QED
      BY <3>1, <3>2, <1>7
  <2>2. IsDict(dict) /\ NamesOf(MergeDicts(dict, s.open)) = NamesOf(MergeDicts(s.dict, s.open))
    BY <1>0, MergeNames, MergedAgain
  <2> HIDE DEF dict
  <2> QED
    <3>1. HeadsIn(files, f, n + 1) = heads
      BY <1>3, <1>7
    <3>2. \E j \in 1..(n + 1) : files[f][j].is \in Ends
      BY <1>2, <1>7
    <3> HIDE DEF heads, item
    <3>3. t = [dict |-> t.dict, open |-> t.open, stop |-> t.stop] /\ t.stop = TRUE
          /\ t.dict = dict /\ t.open = s.open
      BY <2>1
    <3> HIDE DEF t
    <3>4. InOrderSeen(NamesOf(MergeDicts(t.dict, t.open)), HeadsIn(files, f, n + 1), files)
      BY <3>1, <3>3, <2>2, <1>0
    <3>5. WalkHolds(t, files, f, n + 1)
      BY <3>2, <3>3, <3>4, <2>2, <1>0 DEF WalkHolds
    <3> QED
      BY <3>5 DEF t, item
<1> QED
  BY <1>4, <1>5, <1>6, <1>7 DEF Kinds

\* parse_timesync_file: the boots of a file are those of its readable headers, in the order
\* of their first ones.
LEMMA FileNamesItsBoots ==
  ASSUME NEW files, NEW f \in Nat, NEW id, Len(files[f]) \in Nat,
         \A i \in 1..Len(files[f]) : files[f][i].is \in Kinds
  PROVE  LET found == ParseTimesync(files[f], id)
         IN  IsDict(found) /\ InOrderSeen(NamesOf(found), HeadsIn(files, f, Len(files[f])), files)
<1> DEFINE m == Len(files[f])
           w == WalkItems(files[f], id)
           S == { n \in 0..m : WalkHolds(w[n], files, f, n) }
<1>1. /\ w[0] = StartWalk
      /\ \A n \in 1..m : w[n] = WalkItem(w[n - 1], files[f][n], n, id)
  BY WalkIsALoop
<1> HIDE DEF w
<1>2. 0 \in S
  BY <1>1, WalkStarts
<1>3. ASSUME NEW n \in 0..(m - 1), n \in S
      PROVE  n + 1 \in S
  <2>1. n + 1 \in 1..m /\ n + 1 - 1 = n /\ n \in Nat
    OBVIOUS
  <2>2. w[n + 1] = WalkItem(w[n], files[f][n + 1], n + 1, id)
    BY <1>1, <2>1
  <2>3. files[f][n + 1].is \in Kinds /\ WalkHolds(w[n], files, f, n)
    BY <1>3, <2>1
  <2>4. WalkHolds(w[n + 1], files, f, n + 1)
    BY <2>1, <2>2, <2>3, WalkSteps
  <2> QED
    BY <2>1, <2>4
<1> HIDE DEF S
<1>4. m \in S
  <2>1. \A n \in 0..m : n \in S
    BY <1>2, <1>3, CountingUp
  <2> QED
    BY <2>1
<1>5. WalkHolds(w[m], files, f, m)
  BY <1>4 DEF S
<1>6. ParseTimesync(files[f], id) = MergeDicts(w[m].dict, w[m].open)
  BY DEF ParseTimesync, w
<1>7. IsDict(MergeDicts(w[m].dict, w[m].open))
  BY <1>5, MergeNames DEF WalkHolds
<1> QED
  BY <1>5, <1>6, <1>7 DEF WalkHolds

HeadsTo(w) == UNION { HeadsIn(Files, f, Len(Files[f])) : f \in (1..w) \ skipped }

\* The boots are ranked as the files walked name them; each entry is stored once.
RanksHold ==
  /\ archive \in Archives
  /\ walked \in 0..Len(Files) /\ skipped \subseteq 1..walked
  /\ tstep # "walk" => walked = Len(Files)
  /\ InOrderSeen(ranks, HeadsTo(walked), Files)
RowsHold ==
  /\ unread \subseteq DOMAIN archive.tracev3
  /\ logs \in Seq(Range(logs))
  /\ \A i \in 1..Len(logs) :
       /\ logs[i].file \in DOMAIN archive.tracev3 \ unread
       /\ logs[i].at \in DOMAIN archive.tracev3[logs[i].file]
       /\ logs[i].mach \in Nat
  /\ \A i, j \in 1..Len(logs) : logs[i].file = logs[j].file /\ logs[i].at = logs[j].at => i = j
OrderHolds == order # <<>> => tstep = "done" /\ order = Numbered
TimelineInv == RanksHold /\ RowsHold /\ OrderHolds

\* What the assumption on the archives says of the one that is read.
LEMMA ArchivesAreFiles ==
  ASSUME archive \in Archives
  PROVE  /\ Len(Files) \in Nat /\ DOMAIN Files = 1..Len(Files)
         /\ \A f \in 1..Len(Files) :
              /\ Len(Files[f]) \in Nat /\ DOMAIN Files[f] = 1..Len(Files[f])
              /\ \A i \in 1..Len(Files[f]) : Files[f][i].is \in Kinds
         /\ DOMAIN archive.tracev3 \subseteq Nat
         /\ \A f \in DOMAIN archive.tracev3 :
              /\ Len(archive.tracev3[f]) \in Nat
              /\ DOMAIN archive.tracev3[f] = 1..Len(archive.tracev3[f])
              /\ \A i \in DOMAIN archive.tracev3[f] :
                   archive.tracev3[f][i].base + archive.tracev3[f][i].delta \in Nat
<1> QED
  BY TimelineAssumption DEF IsSequence, Files, Kinds, Ends

\* The headers of the files walked are places of these files.
LEMMA HeadsArePlaces ==
  ASSUME NEW w \in Nat
  PROVE  /\ HeadsTo(w) \subseteq Nat \X Nat
         /\ \A p \in HeadsTo(w) : p[1] \in 1..w
<1>1. \A f \in 1..w : HeadsIn(Files, f, Len(Files[f])) \subseteq Nat \X Nat
                      /\ \A p \in HeadsIn(Files, f, Len(Files[f])) : p[1] = f
  BY DEF HeadsIn
<1> QED
  BY <1>1 DEF HeadsTo

\* Nothing walked, nothing stored.
LEMMA TimelineStarts == TimelineInit => TimelineInv
<1> SUFFICES ASSUME TimelineInit PROVE TimelineInv
  OBVIOUS
<1> USE DEF TimelineInit
<1>1. HeadsTo(0) = {}
  BY DEF HeadsTo
<1>2. InOrderSeen(ranks, HeadsTo(walked), Files)
  BY <1>1, NoneSeen
<1>3. RanksHold
  BY <1>2, ArchivesAreFiles DEF RanksHold
<1>4. RowsHold
  BY DEF RowsHold, Range
<1> QED
  BY <1>3, <1>4 DEF TimelineInv, OrderHolds

\* A file walked: its boots get the next ranks.
LEMMA WalkKeepsRanks == RanksHold /\ WalkFile => RanksHold'
<1> SUFFICES ASSUME RanksHold, WalkFile PROVE RanksHold'
  OBVIOUS
<1> DEFINE f == walked + 1
           found == ParseTimesync(Files[f], Len(sources) + 1)
           heads == HeadsIn(Files, f, Len(Files[f]))
<1>1. /\ archive \in Archives /\ walked \in Nat /\ f \in 1..Len(Files) /\ f \in Nat
      /\ skipped \subseteq 1..walked /\ InOrderSeen(ranks, HeadsTo(walked), Files)
  BY ArchivesAreFiles DEF RanksHold, WalkFile
<1>2. /\ archive' = archive /\ walked' = f /\ skipped' = skipped /\ tstep' = tstep /\ tstep = "walk"
      /\ ranks' = ranks \o Without([i \in DOMAIN found |-> found[i].boot], Range(ranks))
  BY DEF WalkFile
<1>3. IsDict(found) /\ InOrderSeen(NamesOf(found), heads, Files)
  BY <1>1, ArchivesAreFiles, FileNamesItsBoots
<1> HIDE DEF found
<1>4. [i \in DOMAIN found |-> found[i].boot] = NamesOf(found)
  <2>1. DOMAIN found = 1..Len(found)
    BY <1>3, LenProperties DEF IsDict
  <2> QED
    BY <2>1 DEF NamesOf
<1>5. HeadsTo(walked) \subseteq Nat \X Nat /\ heads \subseteq Nat \X Nat
  BY <1>1, HeadsArePlaces DEF HeadsIn
<1>6. \A p \in HeadsTo(walked), q \in heads : Earlier(p, q)
  <2>1. \A p \in HeadsTo(walked) : p[1] \in 1..walked
    BY <1>1, HeadsArePlaces
  <2>2. \A q \in heads : q[1] = f
    BY DEF HeadsIn
  <2> QED
    BY <1>1, <2>1, <2>2 DEF Earlier
<1> HIDE DEF heads
<1>7. InOrderSeen(ranks', HeadsTo(walked) \cup heads, Files)
  BY <1>1, <1>2, <1>3, <1>4, <1>5, <1>6, SeenJoined
<1>8. Files' = Files
  BY <1>2 DEF Files
<1>9. HeadsTo(walked)' = HeadsTo(walked) \cup heads
  <2>1. (1..walked') \ skipped' = ((1..walked) \ skipped) \cup {f}
    BY <1>1, <1>2
  <2>2. HeadsTo(walked)' = UNION { HeadsIn(Files, g, Len(Files[g])) : g \in (1..walked') \ skipped' }
    BY <1>8 DEF HeadsTo
  <2> QED
    BY <2>1, <2>2 DEF HeadsTo, heads
<1>10. walked' \in 0..Len(Files') /\ skipped' \subseteq 1..walked'
  BY <1>1, <1>2, <1>8
<1> QED
  BY <1>1, <1>2, <1>7, <1>8, <1>9, <1>10 DEF RanksHold

\* A file skipped counts for nothing, and the steps after the walk leave it alone.
LEMMA OthersKeepRanks ==
  ASSUME RanksHold, UNCHANGED <<archive, ranks>>,
         \/ UNCHANGED <<walked, skipped>> /\ (tstep' # "walk" => walked = Len(Files))
         \/ /\ walked < Len(Files) /\ walked' = walked + 1 /\ tstep' = "walk"
            /\ skipped' = skipped \cup {walked + 1}
  PROVE  RanksHold'
<1>1. Files' = Files
  BY DEF Files
<1>2. walked \in Nat /\ Len(Files) \in Nat /\ skipped \subseteq 1..walked
  <2>1. archive \in Archives /\ walked \in 0..Len(Files) /\ skipped \subseteq 1..walked
    BY SMTT(30) DEF RanksHold
  <2>2. Len(Files) \in Nat
    BY <2>1, ArchivesAreFiles, Zenon
  <2> QED
    BY <2>1, <2>2
<1>3. (1..walked') \ skipped' = (1..walked) \ skipped
  BY <1>2
<1>4. HeadsTo(walked)' = HeadsTo(walked)
  <2>1. HeadsTo(walked)' = UNION { HeadsIn(Files, g, Len(Files[g])) : g \in (1..walked') \ skipped' }
    BY <1>1 DEF HeadsTo
  <2> QED
    BY <2>1, <1>3 DEF HeadsTo
<1>5. /\ walked' \in 0..Len(Files) /\ skipped' \subseteq 1..walked'
      /\ tstep' # "walk" => walked' = Len(Files)
  <2>1. walked \in 0..Len(Files)
    BY DEF RanksHold
  <2>2. CASE UNCHANGED <<walked, skipped>> /\ (tstep' # "walk" => walked = Len(Files))
    BY <2>1, <2>2, <1>2
  <2>3. CASE /\ walked < Len(Files) /\ walked' = walked + 1 /\ tstep' = "walk"
             /\ skipped' = skipped \cup {walked + 1}
    BY <2>3, <1>2
  <2> QED
    BY <2>2, <2>3
<1> QED
  BY <1>1, <1>4, <1>5 DEF RanksHold

\* A file parsed: one row for each of its entries.
LEMMA StoreKeepsRows ==
  ASSUME archive \in Archives, RowsHold, NEW f \in unread, StoreFile(f)
  PROVE  RowsHold'
<1> DEFINE entries == archive.tracev3[f]
           more == [i \in DOMAIN entries |-> RowOfEntry(entries[i], i, f)]
           n == Len(logs)
           k == Len(entries)
<1>1. /\ logs' = logs \o more /\ unread' = unread \ {f} /\ archive' = archive
      /\ f \in DOMAIN archive.tracev3 /\ logs \in Seq(Range(logs)) /\ n \in Nat
      /\ unread \subseteq DOMAIN archive.tracev3
  BY LenProperties DEF StoreFile, RowsHold
<1>2. /\ k \in Nat /\ DOMAIN entries = 1..k
      /\ \A i \in 1..k : entries[i].base + entries[i].delta \in Nat
  BY <1>1, ArchivesAreFiles
<1>3. \A i \in 1..k : /\ RowOfEntry(entries[i], i, f).file = f
                      /\ RowOfEntry(entries[i], i, f).at = i
                      /\ RowOfEntry(entries[i], i, f).mach = entries[i].base + entries[i].delta
  BY DEF RowOfEntry
<1>4. /\ more \in Seq(Range(more)) /\ Len(more) = k
      /\ \A i \in 1..k : more[i].file = f /\ more[i].at = i /\ more[i].mach \in Nat
  <2> HIDE DEF entries
  <2>1. more = [i \in 1..k |-> RowOfEntry(entries[i], i, f)]
    BY <1>2
  <2>2. more \in Seq({ RowOfEntry(entries[i], i, f) : i \in 1..k }) /\ Len(more) = k
    <3> DEFINE X == { RowOfEntry(entries[i], i, f) : i \in 1..k }
    <3>1. \A i \in 1..k : RowOfEntry(entries[i], i, f) \in X
      OBVIOUS
    <3> HIDE DEF X, more
    <3>2. more \in Seq(X) /\ Len(more) = k
      BY <1>2, <2>1, <3>1
    <3> QED
      BY <3>2 DEF X
  <2>3. \A i \in 1..k : more[i] = RowOfEntry(entries[i], i, f)
    BY <2>1
  <2> HIDE DEF more
  <2>4. more \in Seq(Range(more)) /\ Len(more) = k
    BY <2>2, SeqOfItsRange
  <2>5. \A i \in 1..k : more[i].file = f /\ more[i].at = i /\ more[i].mach \in Nat
    <3> SUFFICES ASSUME NEW i \in 1..k PROVE more[i].file = f /\ more[i].at = i /\ more[i].mach \in Nat
      OBVIOUS
    <3>1. more[i] = RowOfEntry(entries[i], i, f)
      BY <2>3
    <3> QED
      BY <3>1, <1>2, <1>3
  <2> QED
    BY <2>4, <2>5
<1> HIDE DEF more
<1>5. /\ logs' \in Seq(Range(logs')) /\ Len(logs') = n + k
      /\ \A i \in 1..(n + k) : logs'[i] = IF i <= n THEN logs[i] ELSE more[i - n]
  <2> DEFINE X == Range(logs) \cup Range(more)
  <2>1. logs \in Seq(X) /\ more \in Seq(X)
    BY <1>1, <1>4
  <2> HIDE DEF X
  <2>2. /\ logs \o more \in Seq(X) /\ Len(logs \o more) = Len(logs) + Len(more)
        /\ \A i \in 1..Len(logs) + Len(more) : (logs \o more)[i] =
                 IF i <= Len(logs) THEN logs[i] ELSE more[i - Len(logs)]
    BY <2>1, ConcatProperties
  <2> QED
    BY <2>2, <1>1, <1>4, SeqOfItsRange
<1>6. \A i \in 1..(n + k) : \/ i \in 1..n /\ logs'[i] = logs[i]
                            \/ i - n \in 1..k /\ i \notin 1..n /\ logs'[i] = more[i - n]
  <2> SUFFICES ASSUME NEW i \in 1..(n + k)
               PROVE  \/ i \in 1..n /\ logs'[i] = logs[i]
                      \/ i - n \in 1..k /\ i \notin 1..n /\ logs'[i] = more[i - n]
    OBVIOUS
  <2>1. IF i <= n THEN i \in 1..n ELSE i - n \in 1..k /\ i \notin 1..n
    BY <1>1, <1>2
  <2> QED
    BY <2>1, <1>5
<1>7. \A i \in 1..n : /\ logs[i].file \in DOMAIN archive.tracev3 \ unread
                      /\ logs[i].at \in DOMAIN archive.tracev3[logs[i].file]
                      /\ logs[i].mach \in Nat
  BY DEF RowsHold
<1>8. ASSUME NEW i \in 1..(n + k)
      PROVE  /\ logs'[i].file \in DOMAIN archive.tracev3 \ unread'
             /\ logs'[i].at \in DOMAIN archive.tracev3[logs'[i].file]
             /\ logs'[i].mach \in Nat
  <2>1. CASE i \in 1..n /\ logs'[i] = logs[i]
    BY <2>1, <1>1, <1>7
  <2>2. CASE i - n \in 1..k /\ logs'[i] = more[i - n]
    BY <2>2, <1>1, <1>2, <1>4
  <2> QED
    BY <2>1, <2>2, <1>6
<1>9. ASSUME NEW i \in 1..(n + k), NEW j \in 1..(n + k),
             logs'[i].file = logs'[j].file, logs'[i].at = logs'[j].at
      PROVE  i = j
  <2>1. CASE i \in 1..n /\ j \in 1..n
    <3>1. logs'[i] = logs[i] /\ logs'[j] = logs[j]
      BY <2>1, <1>6, <1>1
    <3> QED
      BY <3>1, <2>1, <1>9 DEF RowsHold
  <2>2. CASE i \notin 1..n /\ j \notin 1..n
    <3>1. /\ logs'[i] = more[i - n] /\ i - n \in 1..k
          /\ logs'[j] = more[j - n] /\ j - n \in 1..k
      BY <2>2, <1>6
    <3>2. i - n = j - n
      BY <3>1, <1>4, <1>9
    <3> QED
      BY <3>2, <1>1, <1>2
  <2>3. ASSUME NEW x \in 1..(n + k), NEW y \in 1..(n + k), x \in 1..n, y \notin 1..n
        PROVE  logs'[x].file # logs'[y].file
    <3>1. logs'[x] = logs[x] /\ logs'[y] = more[y - n] /\ y - n \in 1..k
      BY <2>3, <1>6
    <3> QED
      BY <3>1, <2>3, <1>4, <1>7
  <2> QED
    BY <2>1, <2>2, <2>3, <1>9
<1>10. unread' \subseteq DOMAIN archive'.tracev3
  BY <1>1
<1> QED
  BY <1>1, <1>5, <1>8, <1>9, <1>10 DEF RowsHold

\* The steps that store nothing leave the rows alone.
LEMMA OthersKeepRows ==
  ASSUME RowsHold, UNCHANGED <<archive, unread, logs>>
  PROVE  RowsHold'
<1> QED
  BY DEF RowsHold

\* The numbering depends on the rows and the ranks alone.
LEMMA NumberedStays ==
  ASSUME UNCHANGED <<logs, ranks>>
  PROVE  Numbered' = Numbered
<1> QED
  BY DEF Numbered, EventKey, SourceKey, RankOf

\* Every step keeps the invariant.
LEMMA TimelineStep == TimelineInv /\ [TimelineNext]_timeline => TimelineInv'
<1> SUFFICES ASSUME TimelineInv, [TimelineNext]_timeline PROVE TimelineInv'
  OBVIOUS
<1>1. RanksHold /\ RowsHold /\ OrderHolds
  BY DEF TimelineInv
<1>2. archive \in Archives
  BY <1>1 DEF RanksHold
<1>3. CASE WalkFile
  <2>1. UNCHANGED <<archive, unread, logs, order>> /\ tstep = "walk"
    BY <1>3 DEF WalkFile
  <2> QED
    BY <2>1, <1>1, <1>3, WalkKeepsRanks, OthersKeepRows DEF TimelineInv, OrderHolds
<1>4. CASE SkipFile
  <2>1. /\ UNCHANGED <<archive, ranks, unread, logs, order>> /\ tstep = "walk" /\ tstep' = tstep
        /\ walked < Len(Files) /\ walked' = walked + 1 /\ skipped' = skipped \cup {walked + 1}
    BY <1>4 DEF SkipFile
  <2> QED
    BY <2>1, <1>1, OthersKeepRanks, OthersKeepRows DEF TimelineInv, OrderHolds
<1>5. CASE RegisterBoots \/ PreinsertAnchors \/ AnchorOverflows \/ ParseDone
  <2>1. /\ UNCHANGED <<archive, ranks, walked, skipped, unread, logs, order>> /\ tstep # "done"
        /\ tstep' # "walk" => walked = Len(Files)
    BY <1>1, <1>5 DEF RegisterBoots, PreinsertAnchors, AnchorOverflows, ParseDone, RanksHold
  <2> QED
    BY <2>1, <1>1, OthersKeepRanks, OthersKeepRows DEF TimelineInv, OrderHolds
<1>6. ASSUME NEW f \in unread, StoreFile(f)
      PROVE  TimelineInv'
  <2>1. /\ UNCHANGED <<archive, ranks, walked, skipped, order>> /\ tstep = "parse" /\ tstep' = tstep
    BY <1>6 DEF StoreFile
  <2>2. tstep' # "walk" => walked = Len(Files)
    BY <1>1, <2>1 DEF RanksHold
  <2> QED
    BY <2>1, <2>2, <1>1, <1>2, <1>6, OthersKeepRanks, StoreKeepsRows DEF TimelineInv, OrderHolds
<1>7. CASE AssignOrdering
  <2>1. /\ UNCHANGED <<archive, ranks, walked, skipped, unread, logs>> /\ tstep = "order"
        /\ tstep' = "done" /\ order' = Numbered
    BY <1>7 DEF AssignOrdering
  <2>2. walked = Len(Files)
    BY <1>1, <2>1 DEF RanksHold
  <2>3. OrderHolds'
    BY <2>1, NumberedStays DEF OrderHolds
  <2> QED
    BY <2>1, <2>2, <2>3, <1>1, OthersKeepRanks, OthersKeepRows DEF TimelineInv
<1>8. CASE UNCHANGED timeline
  <2>1. /\ UNCHANGED <<archive, ranks, walked, skipped, unread, logs, order, tstep>>
    BY <1>8 DEF timeline
  <2>2. tstep' # "walk" => walked = Len(Files)
    BY <1>1, <2>1 DEF RanksHold
  <2>3. OrderHolds'
    BY <2>1, <1>1, NumberedStays DEF OrderHolds
  <2> QED
    BY <2>1, <2>2, <2>3, <1>1, OthersKeepRanks, OthersKeepRows DEF TimelineInv
<1> QED
  BY <1>3, <1>4, <1>5, <1>6, <1>7, <1>8 DEF TimelineNext

\* What Before says of two numbers, and of five.
LEMMA PairsInOrder ==
  ASSUME NEW a \in Int, NEW b \in Int, NEW c \in Int, NEW d \in Int
  PROVE  Before(<<a, b>>, <<c, d>>) <=> a < c \/ (a = c /\ b < d)
<1> DEFINE p == <<a, b>>
           q == <<c, d>>
<1>1. DOMAIN p = {1, 2} /\ 1..1 = {1} /\ 1..0 = {} /\ 1 - 1 = 0 /\ 2 - 1 = 1
  OBVIOUS
<1>2. Before(p, q) <=> \E i \in {1, 2} : p[i] < q[i] /\ \A j \in 1 .. i - 1 : p[j] = q[j]
  BY <1>1 DEF Before
<1>3. p[1] = a /\ p[2] = b /\ q[1] = c /\ q[2] = d
  OBVIOUS
<1> QED
  BY <1>1, <1>2, <1>3

LEMMA FivesInOrder ==
  ASSUME NEW a1, NEW a2, NEW a3, NEW a4, NEW a5, NEW b1, NEW b2, NEW b3, NEW b4, NEW b5
  PROVE  Before(<<a1, a2, a3, a4, a5>>, <<b1, b2, b3, b4, b5>>) <=>
           \/ a1 < b1
           \/ a1 = b1 /\ a2 < b2
           \/ a1 = b1 /\ a2 = b2 /\ a3 < b3
           \/ a1 = b1 /\ a2 = b2 /\ a3 = b3 /\ a4 < b4
           \/ a1 = b1 /\ a2 = b2 /\ a3 = b3 /\ a4 = b4 /\ a5 < b5
<1> DEFINE p == <<a1, a2, a3, a4, a5>>
           q == <<b1, b2, b3, b4, b5>>
           At(i) == p[i] < q[i] /\ \A j \in 1 .. i - 1 : p[j] = q[j]
<1>1. 1..5 = {1, 2, 3, 4, 5} /\ DOMAIN p = 1..5
  OBVIOUS
<1>2. Before(p, q) <=> At(1) \/ At(2) \/ At(3) \/ At(4) \/ At(5)
  BY <1>1 DEF Before
<1>3. /\ 1 .. 1 - 1 = {} /\ 1 .. 2 - 1 = {1} /\ 1 .. 3 - 1 = {1, 2}
      /\ 1 .. 4 - 1 = {1, 2, 3} /\ 1 .. 5 - 1 = {1, 2, 3, 4}
  OBVIOUS
<1>4. /\ p[1] = a1 /\ p[2] = a2 /\ p[3] = a3 /\ p[4] = a4 /\ p[5] = a5
      /\ q[1] = b1 /\ q[2] = b2 /\ q[3] = b3 /\ q[4] = b4 /\ q[5] = b5
  OBVIOUS
<1> HIDE DEF p, q
<1>5. /\ At(1) <=> a1 < b1
      /\ At(2) <=> a1 = b1 /\ a2 < b2
      /\ At(3) <=> a1 = b1 /\ a2 = b2 /\ a3 < b3
      /\ At(4) <=> a1 = b1 /\ a2 = b2 /\ a3 = b3 /\ a4 < b4
      /\ At(5) <=> a1 = b1 /\ a2 = b2 /\ a3 = b3 /\ a4 = b4 /\ a5 < b5
  BY <1>3, <1>4
<1> HIDE DEF At
<1>6. Before(p, q) <=>
           \/ a1 < b1
           \/ a1 = b1 /\ a2 < b2
           \/ a1 = b1 /\ a2 = b2 /\ a3 < b3
           \/ a1 = b1 /\ a2 = b2 /\ a3 = b3 /\ a4 < b4
           \/ a1 = b1 /\ a2 = b2 /\ a3 = b3 /\ a4 = b4 /\ a5 < b5
  BY <1>2, <1>5
<1> QED
  BY <1>6 DEF p, q

\* The readable headers, as the walk and as the bytes have them.
LEMMA HeadsAreHeaders ==
  ASSUME RanksHold, walked = Len(Files), NEW b
  PROVE  HeadersOf(b) = { p \in HeadsTo(walked) : NameAt(Files, p) = b }
<1>1. DOMAIN Files = 1..walked /\ \A f \in 1..walked : DOMAIN Files[f] = 1..Len(Files[f])
  BY ArchivesAreFiles DEF RanksHold
<1>2. ASSUME NEW f \in 1..walked
      PROVE  HeadsIn(Files, f, Len(Files[f])) = { p \in { <<f, i>> : i \in Whole(f) } : ItemAt(p).is = "boot" }
  BY <1>1, <1>2 DEF HeadsIn, Whole, ItemAt, Ends
<1>3. HeadsTo(walked) = { p \in Readable : ItemAt(p).is = "boot" }
  BY <1>1, <1>2 DEF HeadsTo, Readable
<1>4. \A p : NameAt(Files, p) = ItemAt(p).boot
  BY DEF NameAt, ItemAt
<1> QED
  BY <1>3, <1>4 DEF HeadersOf

\* Where the rank k points, in the bytes.
PlaceOf(first, k) == IF k = Len(ranks) + 1 THEN <<Len(Files) + 1, 0>> ELSE first[k]

\* A boot's rank points to where its first readable header is, and later ranks point later.
LEMMA RanksArePlaces ==
  ASSUME RanksHold, walked = Len(Files), NEW first, SeenAt(first, ranks, HeadsTo(walked), Files)
  PROVE  /\ Len(ranks) \in Nat
         /\ \A b : RankOf(b) \in 1..(Len(ranks) + 1) /\ PhysicalRank(b) = PlaceOf(first, RankOf(b))
         /\ \A k \in 1..(Len(ranks) + 1) : PlaceOf(first, k) \in Nat \X Nat
         /\ \A k, l \in 1..(Len(ranks) + 1) : k < l => Earlier(PlaceOf(first, k), PlaceOf(first, l))
<1> DEFINE n == Len(ranks)
           S == HeadsTo(walked)
<1>1. /\ ranks \in Seq({ NameAt(Files, p) : p \in S }) /\ first \in [1..n -> S]
      /\ \A k \in 1..n : NameAt(Files, first[k]) = ranks[k]
      /\ \A k \in 1..n, p \in S : NameAt(Files, p) = ranks[k] => p = first[k] \/ Earlier(first[k], p)
      /\ \A k, l \in 1..n : k < l => Earlier(first[k], first[l])
      /\ \A p \in S : \E k \in 1..n : ranks[k] = NameAt(Files, p)
  BY DEF SeenAt
<1>2. n \in Nat /\ DOMAIN ranks = 1..n
  BY <1>1, LenProperties
<1>3. walked \in Nat /\ S \subseteq Nat \X Nat /\ \A p \in S : p[1] \in 1..walked
  <2>1. archive \in Archives /\ walked \in 0..Len(Files)
    BY DEF RanksHold
  <2>2. Len(Files) \in Nat
    BY <2>1, ArchivesAreFiles
  <2>3. walked \in Nat
    BY <2>1, <2>2
  <2> QED
    BY <2>3, HeadsArePlaces
<1> HIDE DEF S
<1>4. \A p, q \in S : Before(p, q) <=> Earlier(p, q)
  <2> SUFFICES ASSUME NEW p \in S, NEW q \in S PROVE Before(p, q) <=> Earlier(p, q)
    OBVIOUS
  <2>1. p = <<p[1], p[2]>> /\ q = <<q[1], q[2]>> /\ p[1] \in Int /\ p[2] \in Int /\ q[1] \in Int /\ q[2] \in Int
    BY <1>3
  <2>2. Before(<<p[1], p[2]>>, <<q[1], q[2]>>) <=> Earlier(p, q)
    BY <2>1, PairsInOrder DEF Earlier
  <2> QED
    BY <2>1, <2>2
<1>5. \A k, l \in 1..n : ranks[k] = ranks[l] => k = l
  <2> SUFFICES ASSUME NEW k \in 1..n, NEW l \in 1..n, ranks[k] = ranks[l], k < l PROVE FALSE
    BY <1>2
  <2>1. first[k] \in S /\ first[l] \in S /\ Earlier(first[k], first[l]) /\ NameAt(Files, first[k]) = ranks[l]
    BY <1>1
  <2>2. first[k] = first[l] \/ Earlier(first[l], first[k])
    BY <1>1, <2>1
  <2> QED
    BY <2>1, <2>2, <1>3 DEF Earlier
<1>6. \A b : HeadersOf(b) = { p \in S : NameAt(Files, p) = b }
  BY HeadsAreHeaders DEF S
<1>7. ASSUME NEW k \in 1..n
      PROVE  RankOf(ranks[k]) = k /\ PhysicalRank(ranks[k]) = first[k]
  <2>1. { i \in DOMAIN ranks : ranks[i] = ranks[k] } = {k}
    BY <1>2, <1>5
  <2>2. RankOf(ranks[k]) = k
    BY <2>1 DEF RankOf
  <2> DEFINE H == HeadersOf(ranks[k])
  <2>3. first[k] \in H /\ H \subseteq S
    BY <1>1, <1>6
  <2>4. \A q \in H : q = first[k] \/ Earlier(first[k], q)
    BY <1>1, <1>6
  <2> HIDE DEF H
  <2>5. \A p \in H : (\A q \in H : ~Later(p, q)) <=> p = first[k]
    <3>1. \A p, q \in H : Later(p, q) <=> Earlier(q, p)
      BY <2>3, <1>4 DEF Later
    <3>2. \A p, q \in S : ~(Earlier(p, q) /\ Earlier(q, p)) /\ ~Earlier(p, p)
      BY <1>3 DEF Earlier
    <3> QED
      BY <3>1, <3>2, <2>3, <2>4
  <2>6. Earliest(H) = first[k]
    BY <2>3, <2>5 DEF Earliest
  <2>7. H # {}
    BY <2>3
  <2> QED
    BY <2>2, <2>6, <2>7 DEF PhysicalRank, H
<1>8. ASSUME NEW b, b \notin { ranks[k] : k \in 1..n }
      PROVE  RankOf(b) = n + 1 /\ PhysicalRank(b) = <<Len(Files) + 1, 0>>
  <2>1. { i \in DOMAIN ranks : ranks[i] = b } = {}
    BY <1>2, <1>8
  <2>2. HeadersOf(b) = {}
    BY <1>1, <1>6, <1>8
  <2> QED
    BY <2>1, <2>2 DEF RankOf, PhysicalRank
<1>9. ASSUME NEW b
      PROVE  RankOf(b) \in 1..(n + 1) /\ PhysicalRank(b) = PlaceOf(first, RankOf(b))
  <2>1. CASE b \in { ranks[k] : k \in 1..n }
    <3>1. PICK k \in 1..n : ranks[k] = b
      BY <2>1
    <3>2. k \in 1..(n + 1) /\ k # n + 1
      BY <1>2
    <3> QED
      BY <3>1, <3>2, <1>7 DEF PlaceOf
  <2>2. CASE b \notin { ranks[k] : k \in 1..n }
    <3>1. n + 1 \in 1..(n + 1)
      BY <1>2
    <3> QED
      BY <3>1, <2>2, <1>8 DEF PlaceOf
  <2> QED
    BY <2>1, <2>2
<1>10. \A k \in 1..(n + 1) : \/ k = n + 1 /\ PlaceOf(first, k) = <<walked + 1, 0>>
                             \/ k \in 1..n /\ PlaceOf(first, k) = first[k] /\ first[k] \in S
  <2> SUFFICES ASSUME NEW k \in 1..(n + 1), k # n + 1
               PROVE  k \in 1..n /\ PlaceOf(first, k) = first[k] /\ first[k] \in S
    BY DEF PlaceOf
  <2>1. k \in 1..n
    BY <1>2
  <2> QED
    BY <2>1, <1>1 DEF PlaceOf
<1>11. \A k \in 1..(n + 1) : PlaceOf(first, k) \in Nat \X Nat
  BY <1>3, <1>10
<1>12. ASSUME NEW k \in 1..(n + 1), NEW l \in 1..(n + 1), k < l
       PROVE  Earlier(PlaceOf(first, k), PlaceOf(first, l))
  <2>1. k \in 1..n /\ PlaceOf(first, k) = first[k] /\ first[k] \in S
    <3>1. k # n + 1
      BY <1>2, <1>12
    <3> QED
      BY <3>1, <1>10
  <2>2. CASE l = n + 1
    BY <2>1, <2>2, <1>3, <1>10 DEF Earlier, PlaceOf
  <2>3. CASE l # n + 1
    BY <2>1, <2>3, <1>1, <1>10, <1>12
  <2> QED
    BY <2>2, <2>3
<1> QED
  BY <1>2, <1>9, <1>11, <1>12

KeyOf(r) == PhysicalRank(r.boot) \o << r.mach, r.file, r.at >>

\* The key of a row in the code's order, and in that of the bytes.
KeysHold(first, i) ==
  LET r == logs[i]
      k == RankOf(r.boot)
      p == PlaceOf(first, k)
  IN  /\ i \in Nat /\ r.mach \in Nat /\ r.file \in Nat /\ r.at \in Nat
      /\ k \in 1..(Len(ranks) + 1) /\ k \in Nat /\ p[1] \in Nat /\ p[2] \in Nat
      /\ EventKey(i) = <<k, r.mach, r.file, r.at, i>>
      /\ KeyOf(r) = <<p[1], p[2], r.mach, r.file, r.at>>

LEMMA KeysOfRows ==
  ASSUME RanksHold, RowsHold, walked = Len(Files), NEW first,
         SeenAt(first, ranks, HeadsTo(walked), Files),
         NEW i \in 1..Len(logs)
  PROVE  KeysHold(first, i)
<1> DEFINE r == logs[i]
           k == RankOf(r.boot)
           p == PlaceOf(first, k)
<1>1. archive \in Archives
  BY DEF RanksHold
<1>2. /\ r.file \in DOMAIN archive.tracev3 /\ r.at \in DOMAIN archive.tracev3[r.file] /\ r.mach \in Nat
  BY DEF RowsHold
<1>3. r.file \in Nat /\ r.at \in Nat
  BY <1>1, <1>2, ArchivesAreFiles
<1>4. i \in Nat
  <2>1. Len(logs) \in Nat
    BY LenProperties DEF RowsHold
  <2> QED
    BY <2>1
<1>5. k \in 1..(Len(ranks) + 1) /\ k \in Nat /\ p \in Nat \X Nat /\ PhysicalRank(r.boot) = p
  BY RanksArePlaces
<1>6. EventKey(i) = <<k, r.mach, r.file, r.at, i>>
  BY DEF EventKey
<1>7. KeyOf(r) = <<p[1], p[2], r.mach, r.file, r.at>>
  <2>1. KeyOf(r) = p \o <<r.mach, r.file, r.at>>
    BY <1>5 DEF KeyOf
  <2>2. p = <<p[1], p[2]>>
    BY <1>5
  <2>3. ASSUME NEW a, NEW b, NEW c, NEW d, NEW e
        PROVE  <<a, b>> \o <<c, d, e>> = <<a, b, c, d, e>>
    <3> DEFINE X == {a, b, c, d, e}
               u == <<a, b>> \o <<c, d, e>>
    <3>1. /\ <<a, b>> \in Seq(X) /\ <<c, d, e>> \in Seq(X)
          /\ Len(<<a, b>>) = 2 /\ Len(<<c, d, e>>) = 3
      OBVIOUS
    <3> HIDE DEF X
    <3>2. /\ u \in Seq(X) /\ Len(u) = 5
          /\ \A n \in 1..5 : u[n] = IF n <= 2 THEN <<a, b>>[n] ELSE <<c, d, e>>[n - 2]
      BY <3>1, ConcatProperties
    <3> HIDE DEF u
    <3>3. u[1] = a /\ u[2] = b /\ u[3] = c /\ u[4] = d /\ u[5] = e
      BY <3>2
    <3>4. u = [n \in 1..5 |-> u[n]]
      BY <3>2, LenProperties
    <3>5. u = <<a, b, c, d, e>>
      BY <3>3, <3>4
    <3> QED
      BY <3>5 DEF u
  <2> HIDE DEF r, p
  <2>4. p \o <<r.mach, r.file, r.at>> = <<p[1], p[2]>> \o <<r.mach, r.file, r.at>>
    BY <2>2
  <2> QED
    BY <2>1, <2>3, <2>4
<1>8. p[1] \in Nat /\ p[2] \in Nat
  BY <1>5
<1> QED
  BY <1>2, <1>3, <1>4, <1>5, <1>6, <1>7, <1>8 DEF KeysHold

\* assign_ordering sorts by ranks, the bytes by places: it is the same order.
LEMMA SameOrder ==
  ASSUME RanksHold, RowsHold, walked = Len(Files), NEW i \in 1..Len(logs), NEW j \in 1..Len(logs), i # j
  PROVE  Before(EventKey(i), EventKey(j)) <=> Before(KeyOf(logs[i]), KeyOf(logs[j]))
<1>1. PICK first : SeenAt(first, ranks, HeadsTo(walked), Files)
  BY DEF RanksHold, InOrderSeen
<1> DEFINE r == logs[i]
           s == logs[j]
           k == RankOf(r.boot)
           l == RankOf(s.boot)
           p == PlaceOf(first, k)
           q == PlaceOf(first, l)
<1>2. KeysHold(first, i) /\ KeysHold(first, j)
  BY <1>1, KeysOfRows
<1>3. /\ EventKey(i) = <<k, r.mach, r.file, r.at, i>> /\ EventKey(j) = <<l, s.mach, s.file, s.at, j>>
      /\ KeyOf(r) = <<p[1], p[2], r.mach, r.file, r.at>> /\ KeyOf(s) = <<q[1], q[2], s.mach, s.file, s.at>>
  BY <1>2 DEF KeysHold
<1>4. /\ i \in Nat /\ r.mach \in Nat /\ r.file \in Nat /\ r.at \in Nat /\ k \in Nat /\ p[1] \in Nat /\ p[2] \in Nat
      /\ j \in Nat /\ s.mach \in Nat /\ s.file \in Nat /\ s.at \in Nat /\ l \in Nat /\ q[1] \in Nat /\ q[2] \in Nat
      /\ k \in 1..(Len(ranks) + 1) /\ l \in 1..(Len(ranks) + 1)
  BY <1>2 DEF KeysHold
<1>5. r.file = s.file => r.at # s.at
  BY DEF RowsHold
<1>6. /\ k < l => p[1] < q[1] \/ (p[1] = q[1] /\ p[2] < q[2])
      /\ l < k => q[1] < p[1] \/ (q[1] = p[1] /\ q[2] < p[2])
      /\ k = l => p[1] = q[1] /\ p[2] = q[2]
  BY <1>1, <1>4, RanksArePlaces DEF Earlier
<1> HIDE DEF r, s, k, l, p, q
<1>7. Before(EventKey(i), EventKey(j)) <=>
        \/ k < l
        \/ k = l /\ r.mach < s.mach
        \/ k = l /\ r.mach = s.mach /\ r.file < s.file
        \/ k = l /\ r.mach = s.mach /\ r.file = s.file /\ r.at < s.at
        \/ k = l /\ r.mach = s.mach /\ r.file = s.file /\ r.at = s.at /\ i < j
  BY <1>3, FivesInOrder
<1>8. Before(KeyOf(r), KeyOf(s)) <=>
        \/ p[1] < q[1]
        \/ p[1] = q[1] /\ p[2] < q[2]
        \/ p[1] = q[1] /\ p[2] = q[2] /\ r.mach < s.mach
        \/ p[1] = q[1] /\ p[2] = q[2] /\ r.mach = s.mach /\ r.file < s.file
        \/ p[1] = q[1] /\ p[2] = q[2] /\ r.mach = s.mach /\ r.file = s.file /\ r.at < s.at
  BY <1>3, FivesInOrder
<1>9. /\ k < l <=> p[1] < q[1] \/ (p[1] = q[1] /\ p[2] < q[2])
      /\ k = l <=> p[1] = q[1] /\ p[2] = q[2]
  <2>1. CASE k < l
    BY <2>1, <1>4, <1>6
  <2>2. CASE k = l
    BY <2>2, <1>4, <1>6, SMTT(30)
  <2>3. CASE l < k
    <3>1. ~(k < l) /\ k # l
      BY <2>3, <1>4
    <3>2. q[1] < p[1] \/ (q[1] = p[1] /\ q[2] < p[2])
      BY <2>3, <1>6
    <3>3. /\ ~(p[1] < q[1] \/ (p[1] = q[1] /\ p[2] < q[2]))
          /\ ~(p[1] = q[1] /\ p[2] = q[2])
      <4>1. \A a, b, c, d \in Nat : c < a \/ (c = a /\ d < b) =>
               ~(a < c \/ (a = c /\ b < d)) /\ ~(a = c /\ b = d)
        OBVIOUS
      <4>2. p[1] \in Nat /\ p[2] \in Nat /\ q[1] \in Nat /\ q[2] \in Nat
        BY <1>4
      <4> QED
        BY <4>1, <4>2, <3>2
    <3> QED
      BY <3>1, <3>3
  <2> QED
    BY <2>1, <2>2, <2>3, <1>4
<1>10. Before(EventKey(i), EventKey(j)) <=> Before(KeyOf(r), KeyOf(s))
  BY <1>5, <1>7, <1>8, <1>9
<1> QED
  BY <1>10 DEF r, s

\* The keys tell any two rows apart, and order them.
LEMMA EventsAreOrdered ==
  ASSUME RanksHold, RowsHold, walked = Len(Files)
  PROVE  Orders({ p \in (1..Len(logs)) \X (1..Len(logs)) : Before(EventKey(p[1]), EventKey(p[2])) },
                1..Len(logs))
<1> DEFINE D == 1..Len(logs)
           up == { p \in D \X D : Before(EventKey(p[1]), EventKey(p[2])) }
           K(i) == RankOf(logs[i].boot)
           M(i) == logs[i].mach
           F(i) == logs[i].file
           A(i) == logs[i].at
<1>1. PICK first : SeenAt(first, ranks, HeadsTo(walked), Files)
  BY DEF RanksHold, InOrderSeen
<1>2. \A i \in D : KeysHold(first, i)
  BY <1>1, KeysOfRows
<1>3. \A i \in D : /\ K(i) \in Nat /\ M(i) \in Nat /\ F(i) \in Nat /\ A(i) \in Nat /\ i \in Nat
                   /\ EventKey(i) = <<K(i), M(i), F(i), A(i), i>>
  BY <1>2 DEF KeysHold
<1>4. \A i, j \in D : <<i, j>> \in up <=> Before(EventKey(i), EventKey(j))
  OBVIOUS
<1> HIDE DEF up, D, K, M, F, A
<1>5. \A i, j \in D : <<i, j>> \in up <=>
           \/ K(i) < K(j)
           \/ K(i) = K(j) /\ M(i) < M(j)
           \/ K(i) = K(j) /\ M(i) = M(j) /\ F(i) < F(j)
           \/ K(i) = K(j) /\ M(i) = M(j) /\ F(i) = F(j) /\ A(i) < A(j)
           \/ K(i) = K(j) /\ M(i) = M(j) /\ F(i) = F(j) /\ A(i) = A(j) /\ i < j
  <2> SUFFICES ASSUME NEW i \in D, NEW j \in D
               PROVE  <<i, j>> \in up <=>
           \/ K(i) < K(j)
           \/ K(i) = K(j) /\ M(i) < M(j)
           \/ K(i) = K(j) /\ M(i) = M(j) /\ F(i) < F(j)
           \/ K(i) = K(j) /\ M(i) = M(j) /\ F(i) = F(j) /\ A(i) < A(j)
           \/ K(i) = K(j) /\ M(i) = M(j) /\ F(i) = F(j) /\ A(i) = A(j) /\ i < j
    OBVIOUS
  <2>1. EventKey(i) = <<K(i), M(i), F(i), A(i), i>> /\ EventKey(j) = <<K(j), M(j), F(j), A(j), j>>
    BY <1>3
  <2>2. <<i, j>> \in up <=> Before(<<K(i), M(i), F(i), A(i), i>>, <<K(j), M(j), F(j), A(j), j>>)
    BY <2>1, <1>4
  <2> QED
    BY <2>2, FivesInOrder
<1>6. \A i \in D : <<i, i>> \notin up
  BY <1>3, <1>5
<1>7. ASSUME NEW i \in D, NEW j \in D, i # j
      PROVE  <<i, j>> \in up \/ <<j, i>> \in up
  BY <1>3, <1>5, <1>7, SMTT(30)
<1>8. ASSUME NEW i \in D, NEW j \in D, NEW k \in D, <<i, j>> \in up, <<j, k>> \in up
      PROVE  <<i, k>> \in up
  <2> DEFINE Sooner(x, y) ==
           \/ K(x) < K(y)
           \/ K(x) = K(y) /\ M(x) < M(y)
           \/ K(x) = K(y) /\ M(x) = M(y) /\ F(x) < F(y)
           \/ K(x) = K(y) /\ M(x) = M(y) /\ F(x) = F(y) /\ A(x) < A(y)
           \/ K(x) = K(y) /\ M(x) = M(y) /\ F(x) = F(y) /\ A(x) = A(y) /\ x < y
  <2>1. Sooner(i, j) /\ Sooner(j, k)
    BY <1>5, <1>8
  <2>2. /\ K(i) \in Nat /\ M(i) \in Nat /\ F(i) \in Nat /\ A(i) \in Nat /\ i \in Nat
        /\ K(j) \in Nat /\ M(j) \in Nat /\ F(j) \in Nat /\ A(j) \in Nat /\ j \in Nat
        /\ K(k) \in Nat /\ M(k) \in Nat /\ F(k) \in Nat /\ A(k) \in Nat /\ k \in Nat
    BY <1>3
  <2>3. Sooner(i, k)
    BY <2>1, <2>2, SMTT(30)
  <2> QED
    BY <2>3, <1>5
<1> QED
  BY <1>6, <1>7, <1>8 DEF Orders, up, D

\* With the invariant, the numbers that assign_ordering gives compare as the places do.
LEMMA OrderIsCanonical == TimelineInv => TimelineIsCanonical
<1> SUFFICES ASSUME TimelineInv, order # <<>>
             PROVE  /\ DOMAIN order = DOMAIN logs
                    /\ \A i, j \in DOMAIN logs :
                         i # j =>
                         /\ (order[i].event < order[j].event) = Before(KeyOf(logs[i]), KeyOf(logs[j]))
                         /\ logs[i].file = logs[j].file =>
                              (order[i].source < order[j].source) = (logs[i].at < logs[j].at)
  BY DEF TimelineIsCanonical, KeyOf
<1> DEFINE D == 1..Len(logs)
<1>1. RanksHold /\ RowsHold /\ order = Numbered /\ tstep = "done"
  BY DEF TimelineInv, OrderHolds
<1>2. walked = Len(Files) /\ archive \in Archives
  BY <1>1 DEF RanksHold
<1>3. DOMAIN logs = D /\ Len(logs) \in Nat
  BY <1>1, LenProperties DEF RowsHold
<1>4. IsFiniteSet(D)
  BY <1>3, FS_Interval
<1>5. DOMAIN order = DOMAIN logs
  BY <1>1 DEF Numbered
<1>6. \A i \in D : logs[i].at \in Nat
  BY <1>1, <1>2, ArchivesAreFiles DEF RowsHold
<1>7. ASSUME NEW i \in D, NEW j \in D, i # j
      PROVE  (order[i].event < order[j].event) <=> Before(KeyOf(logs[i]), KeyOf(logs[j]))
  <2> DEFINE up == { p \in D \X D : Before(EventKey(p[1]), EventKey(p[2])) }
             Lower(id) == Cardinality({ k \in D : Before(EventKey(k), EventKey(id)) })
  <2>1. Orders(up, D)
    BY <1>1, <1>2, EventsAreOrdered
  <2>2. \A id \in D : order[id].event = 1 + Lower(id)
    BY <1>1, <1>3 DEF Numbered
  <2>3. \A id \in D : { k \in D : Before(EventKey(k), EventKey(id)) } = { k \in D : <<k, id>> \in up }
    OBVIOUS
  <2>4. <<i, j>> \in up <=> Before(EventKey(i), EventKey(j))
    OBVIOUS
  <2> HIDE DEF up
  <2>5. Lower(i) \in Nat /\ Lower(j) \in Nat /\ (Lower(i) < Lower(j) <=> <<i, j>> \in up)
    <3> DEFINE Below(z) == { w \in D : <<w, z>> \in up }
    <3>1. /\ Cardinality(Below(i)) \in Nat /\ Cardinality(Below(j)) \in Nat
          /\ Cardinality(Below(i)) < Cardinality(Below(j)) <=> <<i, j>> \in up
      <4>1. i \in D /\ j \in D
        OBVIOUS
      <4> HIDE DEF D
      <4> QED
        BY <4>1, <1>4, <2>1, BelowCounts
    <3>2. Lower(i) = Cardinality(Below(i)) /\ Lower(j) = Cardinality(Below(j))
      BY <2>3
    <3> QED
      BY <3>1, <3>2
  <2> HIDE DEF Lower
  <2>6. order[i].event < order[j].event <=> <<i, j>> \in up
    BY <2>2, <2>5
  <2> QED
    BY <2>4, <2>6, <1>1, <1>2, <1>7, SameOrder
<1>8. ASSUME NEW i \in D, NEW j \in D, i # j, logs[i].file = logs[j].file
      PROVE  (order[i].source < order[j].source) <=> (logs[i].at < logs[j].at)
  <2> DEFINE F == { k \in D : logs[k].file = logs[i].file }
             up == { p \in F \X F : Before(SourceKey(p[1]), SourceKey(p[2])) }
             Lower(id) == Cardinality({ k \in D : logs[k].file = logs[id].file /\ Before(SourceKey(k), SourceKey(id)) })
  <2>1. \A id \in D : order[id].source = 1 + Lower(id)
    BY <1>1, <1>3 DEF Numbered
  <2>2. \A x, y \in F : Before(SourceKey(x), SourceKey(y)) <=> logs[x].at < logs[y].at
    <3> SUFFICES ASSUME NEW x \in F, NEW y \in F
                 PROVE  Before(SourceKey(x), SourceKey(y)) <=> logs[x].at < logs[y].at
      OBVIOUS
    <3>1. x \in Int /\ y \in Int /\ logs[x].at \in Int /\ logs[y].at \in Int
      BY <1>3, <1>6
    <3>2. Before(SourceKey(x), SourceKey(y))
            <=> logs[x].at < logs[y].at \/ (logs[x].at = logs[y].at /\ x < y)
      BY <3>1, PairsInOrder DEF SourceKey
    <3>3. logs[x].at = logs[y].at => x = y
      BY <1>1 DEF RowsHold
    <3> QED
      BY <3>1, <3>2, <3>3
  <2>3. \A x, y \in F : <<x, y>> \in up <=> logs[x].at < logs[y].at
    BY <2>2
  <2>4. \A id \in F : { k \in D : logs[k].file = logs[id].file /\ Before(SourceKey(k), SourceKey(id)) }
                        = { k \in F : <<k, id>> \in up }
    OBVIOUS
  <2>5. IsFiniteSet(F) /\ i \in F /\ j \in F
    <3>1. F \in SUBSET D /\ i \in F /\ j \in F
      BY <1>8
    <3> HIDE DEF F
    <3> QED
      BY <3>1, <1>4, FS_Subset
  <2>6. \A x \in F : logs[x].at \in Nat
    BY <1>6
  <2>7. \A x, y \in F : logs[x].at = logs[y].at => x = y
    BY <1>1 DEF RowsHold
  <2> HIDE DEF F, up
  <2>8. Orders(up, F)
    BY <2>3, <2>6, <2>7 DEF Orders
  <2>9. Lower(i) \in Nat /\ Lower(j) \in Nat /\ (Lower(i) < Lower(j) <=> <<i, j>> \in up)
    <3> DEFINE Below(z) == { w \in F : <<w, z>> \in up }
    <3>1. /\ Cardinality(Below(i)) \in Nat /\ Cardinality(Below(j)) \in Nat
          /\ Cardinality(Below(i)) < Cardinality(Below(j)) <=> <<i, j>> \in up
      BY <2>5, <2>8, BelowCounts
    <3>2. Lower(i) = Cardinality(Below(i)) /\ Lower(j) = Cardinality(Below(j))
      BY <2>4, <2>5
    <3> QED
      BY <3>1, <3>2
  <2> HIDE DEF Lower
  <2> QED
    BY <2>1, <2>3, <2>5, <2>9
<1>9. ASSUME NEW i \in D, NEW j \in D, i # j
      PROVE  /\ (order[i].event < order[j].event) = Before(KeyOf(logs[i]), KeyOf(logs[j]))
             /\ logs[i].file = logs[j].file =>
                  (order[i].source < order[j].source) = (logs[i].at < logs[j].at)
  <2>1. (order[i].event < order[j].event) <=> Before(KeyOf(logs[i]), KeyOf(logs[j]))
    BY <1>7, <1>9
  <2>2. logs[i].file = logs[j].file => ((order[i].source < order[j].source) <=> (logs[i].at < logs[j].at))
    BY <1>8, <1>9
  <2>3. Before(KeyOf(logs[i]), KeyOf(logs[j])) \in BOOLEAN
    BY DEF Before
  <2>4. /\ (order[i].event < order[j].event) \in BOOLEAN
        /\ (order[i].source < order[j].source) \in BOOLEAN /\ (logs[i].at < logs[j].at) \in BOOLEAN
    OBVIOUS
  <2> QED
    BY <2>1, <2>2, <2>3, <2>4
<1> QED
  BY <1>3, <1>5, <1>9

-----------------------------------------------------------------------------
(* The theorems *)

\* timesync_setup.py and ordering.py, under the parse driver: for any archive, whatever files
\* of it cannot be walked, wherever their damage begins and in whatever order the tracev3
\* files are parsed, event_order is that of boot (by its first readable header), kernel
\* time, file and place, and source_order is that of the file.
THEOREM OrderIsThatOfTheBytes == TimelineSpec => []TimelineIsCanonical
<1> QED
  BY TimelineStarts, TimelineStep, OrderIsCanonical, PTL DEF TimelineSpec

-----------------------------------------------------------------------------
(* The times: the records of a boot, in the order the walk finds them.     *)

\* Of two places one is earlier, and earlier is transitive.
LEMMA PlacesAreOrdered ==
  ASSUME NEW p \in Nat \X Nat, NEW q \in Nat \X Nat
  PROVE  /\ p = q \/ Earlier(p, q) \/ Earlier(q, p)
         /\ ~(Earlier(p, q) /\ Earlier(q, p)) /\ ~Earlier(p, p)
         /\ \A r \in Nat \X Nat : Earlier(p, q) /\ Earlier(q, r) => Earlier(p, r)
<1>1. p = <<p[1], p[2]>> /\ q = <<q[1], q[2]>> /\ p[1] \in Nat /\ p[2] \in Nat /\ q[1] \in Nat /\ q[2] \in Nat
  OBVIOUS
<1>2. p = q \/ Earlier(p, q) \/ Earlier(q, p)
  BY <1>1 DEF Earlier
<1>3. ~(Earlier(p, q) /\ Earlier(q, p)) /\ ~Earlier(p, p)
  BY <1>1 DEF Earlier
<1>4. ASSUME NEW r \in Nat \X Nat, Earlier(p, q), Earlier(q, r) PROVE Earlier(p, r)
  <2>1. r[1] \in Nat /\ r[2] \in Nat
    OBVIOUS
  <2> QED
    BY <1>1, <1>4, <2>1 DEF Earlier
<1> QED
  BY <1>2, <1>3, <1>4

\* s lists the places of R in their order.
Rising(s, R) ==
  /\ s \in Seq(R)
  /\ \A p \in R : \E i \in 1..Len(s) : s[i] = p
  /\ \A i, j \in 1..Len(s) : i < j => Earlier(s[i], s[j])

\* s lists the places of R; it may repeat a run of those it has, but comes to no place
\* before every earlier one, and is at the latest so far whenever it goes on to a new one.
LatestSoFar(s, n) == \A k \in 1..n : s[k] = s[n] \/ Earlier(s[k], s[n])
RepeatsAfter(s, n) == n < Len(s) /\ \E k \in 1..n : s[k] = s[n + 1]
Comes(s, i, p) == \E k \in 1..Len(s) : k < i /\ s[k] = p
Follows(s, R) ==
  /\ s \in Seq(R)
  /\ \A p \in R : \E i \in 1..Len(s) : s[i] = p
  /\ \A i \in 1..Len(s), p \in R : Earlier(p, s[i]) => Comes(s, i, p)
  /\ \A n \in 1..Len(s) : LatestSoFar(s, n) \/ RepeatsAfter(s, n)

\* The parts of two sequences joined.
LEMMA PartsOfJoined ==
  ASSUME NEW T, NEW s \in Seq(T), NEW t \in Seq(T)
  PROVE  /\ s \o t \in Seq(T) /\ Len(s \o t) = Len(s) + Len(t) /\ Len(s) \in Nat /\ Len(t) \in Nat
         /\ \A i \in 1..Len(s) : i \in 1..Len(s \o t) /\ (s \o t)[i] = s[i]
         /\ \A i \in 1..Len(t) : Len(s) + i \in 1..Len(s \o t) /\ (s \o t)[Len(s) + i] = t[i]
         /\ \A i \in 1..Len(s \o t) : i \in 1..Len(s) \/ \E j \in 1..Len(t) : i = Len(s) + j
<1> DEFINE n == Len(s)
           k == Len(t)
           all == s \o t
<1>1. n \in Nat /\ k \in Nat
  BY LenProperties
<1>2. /\ all \in Seq(T) /\ Len(all) = n + k
      /\ \A i \in 1..n + k : all[i] = IF i <= n THEN s[i] ELSE t[i - n]
  BY ConcatProperties
<1> HIDE DEF all, n, k
<1>3. \A i \in 1..n : i \in 1..n + k /\ i <= n
  BY <1>1
<1>4. \A i \in 1..k : n + i \in 1..n + k /\ ~(n + i <= n) /\ n + i - n = i
  BY <1>1
<1>5. \A i \in 1..n + k : i \in 1..n \/ (i - n \in 1..k /\ i = n + (i - n))
  BY <1>1
<1>6. \A i \in 1..n : i \in 1..Len(all) /\ all[i] = s[i]
  BY <1>2, <1>3
<1>7. \A i \in 1..k : n + i \in 1..Len(all) /\ all[n + i] = t[i]
  <2> SUFFICES ASSUME NEW i \in 1..k PROVE n + i \in 1..Len(all) /\ all[n + i] = t[i]
    OBVIOUS
  <2> DEFINE j == n + i
  <2>1. j \in 1..n + k /\ ~(j <= n) /\ j - n = i
    BY <1>1
  <2> HIDE DEF j
  <2>2. j \in 1..Len(all) /\ all[j] = t[i]
    BY <1>2, <2>1
  <2> QED
    BY <2>2 DEF j
<1>8. \A i \in 1..Len(all) : i \in 1..n \/ \E j \in 1..k : i = n + j
  BY <1>2, <1>5
<1> QED
  BY <1>1, <1>2, <1>6, <1>7, <1>8 DEF all, n, k

\* A place after all of a rising listing goes to its end.
LEMMA RisingGoesOn ==
  ASSUME NEW s, NEW R, NEW p, R \subseteq Nat \X Nat, p \in Nat \X Nat, Rising(s, R),
         \A q \in R : Earlier(q, p)
  PROVE  Rising(Append(s, p), R \cup {p})
<1> DEFINE t == Append(s, p)
           n == Len(s)
<1>1. s \in Seq(R) /\ n \in Nat
  BY LenProperties DEF Rising
<1>2. s \in Seq(R \cup {p})
  BY <1>1
<1>3. /\ t \in Seq(R \cup {p}) /\ Len(t) = n + 1 /\ t[n + 1] = p
      /\ \A i \in 1..n : t[i] = s[i]
  <2> DEFINE X == R \cup {p}
  <2>1. p \in X /\ s \in Seq(X)
    BY <1>2
  <2> HIDE DEF X
  <2>2. t \in Seq(X) /\ Len(t) = n + 1 /\ t[n + 1] = p /\ \A i \in 1..n : t[i] = s[i]
    BY <2>1, AppendProperties
  <2> QED
    BY <2>2 DEF X
<1> HIDE DEF t
<1>4. \A i \in 1..(n + 1) : i \in 1..n \/ i = n + 1
  BY <1>1
<1>5. ASSUME NEW q \in R \cup {p} PROVE \E i \in 1..(n + 1) : t[i] = q
  <2>1. CASE q = p
    BY <1>1, <1>3, <2>1, SMTT(30)
  <2>2. CASE q \in R
    <3>1. PICK i \in 1..n : s[i] = q
      BY <2>2 DEF Rising
    <3>2. i \in 1..(n + 1)
      BY <1>1
    <3> QED
      BY <1>3, <3>1, <3>2
  <2> QED
    BY <2>1, <2>2
<1>6. ASSUME NEW i \in 1..(n + 1), NEW j \in 1..(n + 1), i < j PROVE Earlier(t[i], t[j])
  <2>1. i \in 1..n
    BY <1>1, <1>6
  <2>2. CASE j \in 1..n
    <3>1. Earlier(s[i], s[j])
      BY <1>6, <2>1, <2>2 DEF Rising
    <3> QED
      BY <1>3, <2>1, <2>2, <3>1
  <2>3. CASE j = n + 1
    <3>1. s[i] \in R
      BY <1>1, <2>1
    <3>2. Earlier(s[i], p)
      BY <3>1
    <3> QED
      BY <1>3, <2>1, <2>3, <3>2
  <2> QED
    BY <1>4, <2>2, <2>3
<1>7. Rising(t, R \cup {p})
  BY <1>3, <1>5, <1>6 DEF Rising
<1> QED
  BY <1>7 DEF t

\* A rising listing follows its places, and so does one that repeats its last part.
LEMMA RisingFollows ==
  ASSUME NEW s, NEW R, R \subseteq Nat \X Nat, Rising(s, R)
  PROVE  Follows(s, R)
<1>1. s \in Seq(R) /\ Len(s) \in Nat /\ \A i \in 1..Len(s) : s[i] \in R /\ s[i] \in Nat \X Nat
  BY LenProperties DEF Rising
<1>2. \A i, j \in 1..Len(s) : i < j => Earlier(s[i], s[j])
  BY DEF Rising
<1>3. ASSUME NEW i \in 1..Len(s), NEW p \in R, Earlier(p, s[i]) PROVE Comes(s, i, p)
  <2>1. PICK k \in 1..Len(s) : s[k] = p
    BY DEF Rising
  <2>2. ~(k = i) /\ ~(i < k)
    BY <1>1, <1>2, <1>3, <2>1, PlacesAreOrdered
  <2>3. k < i
    BY <2>2
  <2> QED
    BY <2>1, <2>3 DEF Comes
<1>4. ASSUME NEW n \in 1..Len(s) PROVE LatestSoFar(s, n)
  <2> SUFFICES ASSUME NEW k \in 1..n PROVE s[k] = s[n] \/ Earlier(s[k], s[n])
    BY DEF LatestSoFar
  <2>1. k \in 1..Len(s) /\ (k = n \/ k < n)
    BY <1>1
  <2> QED
    BY <1>2, <2>1
<1>5. \A p \in R : \E i \in 1..Len(s) : s[i] = p
  BY DEF Rising
<1> QED
  BY <1>1, <1>3, <1>4, <1>5 DEF Follows

\* The first part of such a sequence written once more: it still follows the records.
LEMMA RepeatedFollows ==
  ASSUME NEW s, NEW t, NEW R, R \subseteq Nat \X Nat, s \in Seq(R), t \in Seq(R), Rising(s \o t, R)
  PROVE  Follows((s \o t) \o t, R)
<1> DEFINE u == s \o t
           all == u \o t
           m == Len(s)
           n == Len(u)
           k == Len(t)
<1>1. /\ u \in Seq(R) /\ n = m + k /\ m \in Nat /\ k \in Nat
      /\ \A i \in 1..k : m + i \in 1..n /\ u[m + i] = t[i]
  <2>1. /\ u \in Seq(R) /\ Len(u) = Len(s) + Len(t) /\ Len(s) \in Nat /\ Len(t) \in Nat
        /\ \A i \in 1..Len(t) : Len(s) + i \in 1..Len(u) /\ u[Len(s) + i] = t[i]
    <3>1. s \in Seq(R) /\ t \in Seq(R)
      OBVIOUS
    <3> QED
      BY ONLY <3>1, PartsOfJoined, SMTT(30)
  <2> HIDE DEF u
  <2> QED
    BY <2>1
<1>2. Rising(u, R)
  OBVIOUS
<1>3. /\ all \in Seq(R) /\ Len(all) = n + k
      /\ \A i \in 1..n : i \in 1..Len(all) /\ all[i] = u[i]
      /\ \A i \in 1..k : n + i \in 1..Len(all) /\ all[n + i] = t[i]
      /\ \A i \in 1..Len(all) : i \in 1..n \/ \E j \in 1..k : i = n + j
  <2> HIDE DEF u
  <2>1. /\ u \o t \in Seq(R) /\ Len(u \o t) = Len(u) + Len(t)
        /\ \A i \in 1..Len(u) : i \in 1..Len(u \o t) /\ (u \o t)[i] = u[i]
        /\ \A i \in 1..Len(t) : Len(u) + i \in 1..Len(u \o t) /\ (u \o t)[Len(u) + i] = t[i]
        /\ \A i \in 1..Len(u \o t) : i \in 1..Len(u) \/ \E j \in 1..Len(t) : i = Len(u) + j
    <3>1. u \in Seq(R) /\ t \in Seq(R)
      BY <1>1
    <3> QED
      BY <3>1, PartsOfJoined
  <2> QED
    BY <2>1
<1> HIDE DEF u, all, m, n, k
<1>4. Follows(u, R)
  BY <1>2, RisingFollows
<1>5. /\ \A p \in R : \E i \in 1..n : u[i] = p
      /\ \A i \in 1..n, p \in R : Earlier(p, u[i]) => Comes(u, i, p)
      /\ \A i, j \in 1..n : i < j => Earlier(u[i], u[j])
  BY <1>2, <1>4 DEF Follows, Rising, n
<1>6. ASSUME NEW p \in R PROVE \E i \in 1..Len(all) : all[i] = p
  BY <1>3, <1>5
<1>7. ASSUME NEW i \in 1..Len(all), NEW p \in R, Earlier(p, all[i]) PROVE Comes(all, i, p)
  <2>1. CASE i \in 1..n
    <3>1. PICK x \in 1..n : x < i /\ u[x] = p
      BY <1>3, <1>5, <1>7, <2>1 DEF Comes, n
    <3> QED
      BY <1>3, <3>1 DEF Comes
  <2>2. CASE i \notin 1..n
    <3>1. PICK j \in 1..k : i = n + j
      BY <1>3, <2>2
    <3>2. all[i] = u[m + j] /\ m + j \in 1..n
      BY <1>1, <1>3, <3>1
    <3>3. PICK x \in 1..n : x < m + j /\ u[x] = p
      BY <1>5, <1>7, <3>2 DEF Comes, n
    <3>4. x < i
      BY <1>1, <3>1, <3>3
    <3> QED
      BY <1>3, <3>3, <3>4 DEF Comes
  <2> QED
    BY <2>1, <2>2
<1>8. ASSUME NEW i \in 1..Len(all) PROVE LatestSoFar(all, i) \/ RepeatsAfter(all, i)
  <2>1. CASE i \in 1..n
    <3> SUFFICES ASSUME NEW x \in 1..i PROVE all[x] = all[i] \/ Earlier(all[x], all[i])
      BY DEF LatestSoFar
    <3>1. x \in 1..n /\ (x = i \/ x < i)
      BY <1>1, <2>1
    <3> QED
      BY <1>3, <1>5, <2>1, <3>1
  <2>2. CASE i \notin 1..n
    <3>1. PICK j \in 1..k : i = n + j
      BY <1>3, <2>2
    <3>2. CASE j < k
      <4> DEFINE l == j + 1
      <4>1. l \in 1..k /\ n + l = i + 1 /\ m + l \in 1..n /\ m + l \in 1..i /\ i < n + k
        BY <1>1, <3>1, <3>2
      <4> HIDE DEF l
      <4>2. all[n + l] = t[l] /\ all[m + l] = u[m + l] /\ u[m + l] = t[l]
        BY <1>1, <1>3, <4>1
      <4>3. i < Len(all) /\ all[m + l] = all[i + 1]
        BY <1>3, <4>1, <4>2
      <4> QED
        BY <4>1, <4>3 DEF RepeatsAfter
    <3>3. CASE ~(j < k)
      <4>1. j = k /\ n \in 1..n
        BY <1>1, <3>1, <3>3
      <4>2. all[i] = u[n]
        BY <1>1, <1>3, <3>1, <4>1
      <4> SUFFICES ASSUME NEW x \in 1..i PROVE all[x] = all[i] \/ Earlier(all[x], all[i])
        BY DEF LatestSoFar
      <4>3. x \in 1..Len(all)
        BY <1>1, <1>3, <3>1
      <4>4. PICK y \in 1..n : all[x] = u[y]
        <5>1. CASE x \in 1..n
          BY <1>3, <5>1
        <5>2. CASE x \notin 1..n
          <6>1. PICK z \in 1..k : x = n + z
            BY <1>3, <4>3, <5>2
          <6>2. all[x] = t[z] /\ u[m + z] = t[z] /\ m + z \in 1..n
            BY <1>1, <1>3, <6>1
          <6> QED
            BY <6>2
        <5> QED
          BY <5>1, <5>2
      <4>5. y = n \/ y < n
        BY <1>1
      <4> QED
        BY <1>5, <4>1, <4>2, <4>4, <4>5
    <3> QED
      BY <3>2, <3>3
  <2> QED
    BY <2>1, <2>2
<1>9. Follows(all, R)
  BY <1>3, <1>6, <1>7, <1>8 DEF Follows
<1> QED
  BY <1>9 DEF all, u

\* Listings of earlier and of later places, one after the other.
LEMMA FollowsOn ==
  ASSUME NEW s, NEW t, NEW R, NEW S, R \subseteq Nat \X Nat, S \subseteq Nat \X Nat,
         Follows(s, R), Follows(t, S), \A p \in R, q \in S : Earlier(p, q)
  PROVE  Follows(s \o t, R \cup S)
<1> DEFINE all == s \o t
           n == Len(s)
           k == Len(t)
           X == R \cup S
<1>1. /\ s \in Seq(R) /\ t \in Seq(S)
      /\ \A i \in 1..n : s[i] \in R
      /\ \A i \in 1..k : t[i] \in S
  <2>1. s \in Seq(R) /\ t \in Seq(S)
    BY DEF Follows
  <2> QED
    BY <2>1, ElementOfSeq
<1>2. /\ all \in Seq(X) /\ Len(all) = n + k /\ n \in Nat /\ k \in Nat
      /\ \A i \in 1..n : i \in 1..Len(all) /\ all[i] = s[i]
      /\ \A i \in 1..k : n + i \in 1..Len(all) /\ all[n + i] = t[i]
      /\ \A i \in 1..Len(all) : i \in 1..n \/ \E j \in 1..k : i = n + j
  <2>1. s \in Seq(X) /\ t \in Seq(X)
    BY <1>1
  <2> HIDE DEF X
  <2> QED
    BY <2>1, PartsOfJoined
<1> HIDE DEF all, n, k
<1>3. /\ \A p \in R : \E i \in 1..n : s[i] = p
      /\ \A i \in 1..n, p \in R : Earlier(p, s[i]) => Comes(s, i, p)
      /\ \A i \in 1..n : LatestSoFar(s, i) \/ RepeatsAfter(s, i)
      /\ \A p \in S : \E i \in 1..k : t[i] = p
      /\ \A i \in 1..k, p \in S : Earlier(p, t[i]) => Comes(t, i, p)
      /\ \A i \in 1..k : LatestSoFar(t, i) \/ RepeatsAfter(t, i)
  BY DEF Follows, n, k
<1>4. ASSUME NEW p \in X PROVE \E i \in 1..Len(all) : all[i] = p
  BY <1>2, <1>3
<1>5. ASSUME NEW i \in 1..Len(all), NEW p \in X, Earlier(p, all[i]) PROVE Comes(all, i, p)
  <2>1. CASE i \in 1..n
    <3>1. p \in R
      <4>1. all[i] \in R
        BY <1>1, <1>2, <2>1
      <4> QED
        BY <1>5, <4>1, PlacesAreOrdered
    <3>2. PICK x \in 1..n : x < i /\ s[x] = p
      BY <1>2, <1>3, <1>5, <2>1, <3>1 DEF Comes, n
    <3> QED
      BY <1>2, <3>2 DEF Comes
  <2>2. CASE i \notin 1..n
    <3>1. PICK j \in 1..k : i = n + j
      BY <1>2, <2>2
    <3>2. CASE p \in R
      <4>1. PICK x \in 1..n : s[x] = p
        BY <1>3, <3>2
      <4>2. x < i
        BY <1>2, <3>1
      <4> QED
        BY <1>2, <4>1, <4>2 DEF Comes
    <3>3. CASE p \in S
      <4>1. PICK x \in 1..k : x < j /\ t[x] = p
        BY <1>2, <1>3, <1>5, <3>1, <3>3 DEF Comes, k
      <4>2. n + x < i
        BY <1>2, <3>1, <4>1
      <4> QED
        BY <1>2, <4>1, <4>2 DEF Comes
    <3> QED
      BY <3>2, <3>3
  <2> QED
    BY <2>1, <2>2
<1>6. ASSUME NEW i \in 1..Len(all) PROVE LatestSoFar(all, i) \/ RepeatsAfter(all, i)
  <2>1. CASE i \in 1..n /\ LatestSoFar(s, i)
    <3> SUFFICES ASSUME NEW x \in 1..i PROVE all[x] = all[i] \/ Earlier(all[x], all[i])
      BY DEF LatestSoFar
    <3>1. x \in 1..n
      BY <1>2, <2>1
    <3> QED
      BY <1>2, <2>1, <3>1 DEF LatestSoFar
  <2>2. CASE i \in 1..n /\ RepeatsAfter(s, i)
    <3>1. PICK x \in 1..i : i < n /\ s[x] = s[i + 1]
      BY <2>2 DEF RepeatsAfter, n
    <3>2. x \in 1..n /\ i + 1 \in 1..n /\ i < n + k
      BY <1>2, <2>2, <3>1
    <3>3. all[x] = all[i + 1] /\ i < Len(all)
      BY <1>2, <3>1, <3>2
    <3> QED
      BY <3>3 DEF RepeatsAfter
  <2>3. CASE i \notin 1..n
    <3>1. PICK j \in 1..k : i = n + j
      BY <1>2, <2>3
    <3>2. all[i] = t[j] /\ t[j] \in S
      BY <1>1, <1>2, <3>1
    <3>3. CASE LatestSoFar(t, j)
      <4> SUFFICES ASSUME NEW x \in 1..i PROVE all[x] = all[i] \/ Earlier(all[x], all[i])
        BY DEF LatestSoFar
      <4>1. x \in 1..Len(all)
        BY <1>2, <3>1
      <4>2. CASE x \in 1..n
        <5>1. all[x] \in R
          BY <1>1, <1>2, <4>2
        <5> QED
          BY <3>2, <5>1
      <4>3. CASE x \notin 1..n
        <5>1. PICK y \in 1..k : x = n + y
          BY <1>2, <4>1, <4>3
        <5>2. all[x] = t[y] /\ y \in 1..j
          BY <1>2, <3>1, <5>1
        <5> QED
          BY <3>2, <3>3, <5>2 DEF LatestSoFar
      <4> QED
        BY <4>2, <4>3
    <3>4. CASE RepeatsAfter(t, j)
      <4>1. PICK x \in 1..j : j < k /\ t[x] = t[j + 1]
        BY <3>4 DEF RepeatsAfter, k
      <4> DEFINE l == j + 1
      <4>2. x \in 1..k /\ l \in 1..k /\ n + l = i + 1 /\ n + x \in 1..i /\ i < n + k
        BY <1>2, <3>1, <4>1
      <4>3. t[x] = t[l]
        BY <4>1
      <4> HIDE DEF l
      <4>4. all[n + x] = all[n + l]
        BY <1>2, <4>2, <4>3
      <4> QED
        BY <1>2, <4>2, <4>4 DEF RepeatsAfter
    <3> QED
      BY <1>3, <3>3, <3>4
  <2> QED
    BY <1>3, <2>1, <2>2, <2>3
<1>7. Follows(all, X)
  BY <1>2, <1>4, <1>5, <1>6 DEF Follows
<1> QED
  BY <1>7 DEF all

-----------------------------------------------------------------------------
(* The dict of boots, and what it tells of the files.                      *)

\* What an entry of the dict is made of, and the dict: one entry a boot.
IsEntryOfBook(x) ==
  /\ x = [boot |-> x.boot, timebase |-> x.timebase, wall |-> x.wall, offset |-> x.offset,
          file |-> x.file, records |-> x.records]
  /\ x.records \in Seq(Range(x.records))
IsBook(d) ==
  /\ IsDict(d)
  /\ \A i \in 1..Len(d) : IsEntryOfBook(d[i])
  /\ \A i, j \in 1..Len(d) : d[i].boot = d[j].boot => i = j
Named(d, b) == \E i \in 1..Len(d) : d[i].boot = b
SameHead(x, y) ==
  /\ x.boot = y.boot /\ x.timebase = y.timebase /\ x.wall = y.wall
  /\ x.offset = y.offset /\ x.file = y.file

\* Reading a dict.
LEMMA BookIsRead ==
  ASSUME NEW d, IsBook(d)
  PROVE  /\ Len(d) \in Nat /\ DOMAIN d = 1..Len(d)
         /\ \A i \in 1..Len(d) : IndexOf(d, d[i].boot) = {i} /\ RecordsIn(d, d[i].boot) = d[i].records
         /\ \A b : ~Named(d, b) => IndexOf(d, b) = {} /\ RecordsIn(d, b) = <<>>
         /\ \A b : RecordsIn(d, b) \in Seq(Range(RecordsIn(d, b)))
<1>1. d \in Seq(Range(d))
  BY DEF IsBook, IsDict
<1>2. Len(d) \in Nat /\ DOMAIN d = 1..Len(d)
  BY <1>1, LenProperties
<1>3. ASSUME NEW i \in 1..Len(d)
      PROVE  IndexOf(d, d[i].boot) = {i} /\ RecordsIn(d, d[i].boot) = d[i].records
  <2>1. IndexOf(d, d[i].boot) = {i}
    BY <1>2 DEF IsBook, IndexOf
  <2>2. (CHOOSE k \in {i} : TRUE) = i
    OBVIOUS
  <2> QED
    BY <2>1, <2>2 DEF RecordsIn
<1>4. ASSUME NEW b, ~Named(d, b) PROVE IndexOf(d, b) = {} /\ RecordsIn(d, b) = <<>>
  BY <1>2, <1>4 DEF Named, IndexOf, RecordsIn
<1>5. ASSUME NEW b PROVE RecordsIn(d, b) \in Seq(Range(RecordsIn(d, b)))
  <2>1. CASE Named(d, b)
    <3>1. PICK i \in 1..Len(d) : d[i].boot = b
      BY <2>1 DEF Named
    <3>2. d[i].records \in Seq(Range(d[i].records))
      BY DEF IsBook, IsEntryOfBook
    <3> QED
      BY <1>3, <3>1, <3>2
  <2>2. CASE ~Named(d, b)
    <3>1. <<>> \in Seq(Range(<<>>))
      OBVIOUS
    <3> QED
      BY <1>4, <2>2, <3>1
  <2> QED
    BY <2>1, <2>2
<1> QED
  BY <1>2, <1>3, <1>4, <1>5

\* _merge_boot and merge_timesync_dicts: the records of a boot follow those it has, and its
\* header stays the first one.
LEMMA BooksMerged ==
  ASSUME NEW base, NEW new, IsBook(base), IsBook(new)
  PROVE  LET d == MergeDicts(base, new)
         IN  /\ IsBook(d)
             /\ \A b : RecordsIn(d, b) = RecordsIn(base, b) \o RecordsIn(new, b)
             /\ \A i \in 1..Len(d) : \/ i \in 1..Len(base) /\ SameHead(d[i], base[i])
                                     \/ /\ ~Named(base, d[i].boot)
                                        /\ \E j \in 1..Len(new) : d[i] = new[j]
             /\ \A i \in 1..Len(base) : i \in 1..Len(d) /\ SameHead(d[i], base[i])
             /\ \A j \in 1..Len(new) : Named(d, new[j].boot)
<1> DEFINE kept == [i \in DOMAIN base |-> [base[i] EXCEPT !.records = @ \o RecordsIn(new, base[i].boot)]]
           bad  == { x \in Range(new) : IndexOf(base, x.boot) # {} }
           rest == Without(new, bad)
           n == Len(base)
           m == Len(new)
           k == Len(rest)
           d == kept \o rest
<1>1. /\ n \in Nat /\ m \in Nat /\ DOMAIN base = 1..n /\ DOMAIN new = 1..m
      /\ \A i \in 1..n : IsEntryOfBook(base[i])
      /\ \A i \in 1..m : IsEntryOfBook(new[i])
      /\ \A i, j \in 1..n : base[i].boot = base[j].boot => i = j
      /\ \A i, j \in 1..m : new[i].boot = new[j].boot => i = j
      /\ new \in Seq(Range(new))
  BY BookIsRead DEF IsBook, IsDict
<1>2. MergeDicts(base, new) = d /\ IsDict(d)
  BY MergeNames DEF MergeDicts, NewIn, IsBook
<1>3. \A i \in 1..n :
        /\ IsEntryOfBook(kept[i]) /\ SameHead(kept[i], base[i])
        /\ kept[i].records = base[i].records \o RecordsIn(new, base[i].boot)
  <2> SUFFICES ASSUME NEW i \in 1..n
               PROVE  /\ IsEntryOfBook(kept[i]) /\ SameHead(kept[i], base[i])
                      /\ kept[i].records = base[i].records \o RecordsIn(new, base[i].boot)
    OBVIOUS
  <2> DEFINE x == base[i]
             rs == x.records \o RecordsIn(new, x.boot)
  <2>1. kept[i] = [x EXCEPT !.records = rs]
    BY <1>1
  <2>2. /\ x = [boot |-> x.boot, timebase |-> x.timebase, wall |-> x.wall, offset |-> x.offset,
                file |-> x.file, records |-> x.records]
        /\ x.records \in Seq(Range(x.records))
    BY <1>1 DEF IsEntryOfBook
  <2>3. rs \in Seq(Range(rs))
    <3> DEFINE X == Range(x.records) \cup Range(RecordsIn(new, x.boot))
    <3>1. RecordsIn(new, x.boot) \in Seq(Range(RecordsIn(new, x.boot)))
      BY BookIsRead
    <3>2. RecordsIn(new, x.boot) \in Seq(X) /\ x.records \in Seq(X)
      BY <2>2, <3>1
    <3> HIDE DEF X
    <3>3. rs \in Seq(X)
      BY <3>2, ConcatProperties
    <3> HIDE DEF rs
    <3> QED
      BY <3>3, SeqOfItsRange
  <2> HIDE DEF x, rs, kept
  <2>4. kept[i] = [boot |-> x.boot, timebase |-> x.timebase, wall |-> x.wall, offset |-> x.offset,
                   file |-> x.file, records |-> rs]
    BY <2>1, <2>2
  <2>5. IsEntryOfBook(kept[i]) /\ SameHead(kept[i], x) /\ kept[i].records = rs
    BY <2>3, <2>4 DEF IsEntryOfBook, SameHead
  <2> QED
    BY <2>5 DEF x, rs
<1>4. rest \in Seq(Range(new)) /\ \E h : KeptAt(h, new, bad)
  <2> HIDE DEF bad
  <2> QED
    BY <1>1, WithoutKeepsOrder
<1>5. PICK h : KeptAt(h, new, bad)
  BY <1>4
<1>6. /\ k \in Nat
      /\ h \in [1..k -> 1..m]
      /\ \A i \in 1..k : rest[i] = new[h[i]] /\ new[h[i]] \notin bad
      /\ \A i, j \in 1..k : i < j <=> h[i] < h[j]
      /\ \A i \in 1..m : new[i] \notin bad => \E j \in 1..k : h[j] = i
  BY <1>4, <1>5, LenProperties DEF KeptAt
<1>7. \A i \in 1..m : new[i] \in bad <=> Named(base, new[i].boot)
  <2>1. \A b : IndexOf(base, b) # {} <=> Named(base, b)
    BY <1>1 DEF IndexOf, Named
  <2>2. \A i \in 1..m : new[i] \in Range(new)
    BY <1>1 DEF Range
  <2> QED
    BY <2>1, <2>2
<1>8. /\ Len(d) = n + k
      /\ \A i \in 1..n : i \in 1..Len(d) /\ d[i] = kept[i]
      /\ \A i \in 1..k : n + i \in 1..Len(d) /\ d[n + i] = rest[i]
      /\ \A i \in 1..Len(d) : i \in 1..n \/ \E j \in 1..k : i = n + j
  <2> DEFINE X == Range(kept) \cup Range(new)
  <2>1. kept \in [1..n -> Range(kept)]
    BY <1>1 DEF Range
  <2> HIDE DEF kept
  <2>2. kept \in Seq(Range(kept)) /\ Len(kept) = n
    BY <1>1, <2>1
  <2>3. kept \in Seq(X) /\ rest \in Seq(X)
    BY <1>4, <2>2
  <2> HIDE DEF X, rest
  <2>4. /\ Len(d) = Len(kept) + Len(rest)
        /\ \A i \in 1..Len(kept) : i \in 1..Len(d) /\ d[i] = kept[i]
        /\ \A i \in 1..Len(rest) : Len(kept) + i \in 1..Len(d) /\ d[Len(kept) + i] = rest[i]
        /\ \A i \in 1..Len(d) : i \in 1..Len(kept) \/ \E j \in 1..Len(rest) : i = Len(kept) + j
    BY <2>3, PartsOfJoined
  <2> HIDE DEF d
  <2> QED
    BY <2>2, <2>4
<1> HIDE DEF kept, bad, rest, d, k
<1>9. \A i \in 1..n : /\ i \in 1..Len(d) /\ IsEntryOfBook(d[i]) /\ SameHead(d[i], base[i])
                      /\ d[i].boot = base[i].boot
                      /\ d[i].records = base[i].records \o RecordsIn(new, base[i].boot)
  BY <1>3, <1>8 DEF SameHead
<1>10. \A i \in 1..k : /\ n + i \in 1..Len(d) /\ d[n + i] = new[h[i]] /\ h[i] \in 1..m
                       /\ ~Named(base, new[h[i]].boot)
  BY <1>6, <1>7, <1>8
<1>11. \A i \in 1..Len(d) : \/ i \in 1..n
                            \/ \E j \in 1..k : i = n + j /\ d[i] = new[h[j]] /\ h[j] \in 1..m
                                               /\ ~Named(base, new[h[j]].boot)
  <2> SUFFICES ASSUME NEW i \in 1..Len(d), i \notin 1..n
               PROVE  \E j \in 1..k : i = n + j /\ d[i] = new[h[j]] /\ h[j] \in 1..m
                                       /\ ~Named(base, new[h[j]].boot)
    OBVIOUS
  <2>1. PICK j \in 1..k : i = n + j
    BY <1>8
  <2> QED
    BY <1>10, <2>1
<1>12. ASSUME NEW i \in 1..Len(d), NEW j \in 1..Len(d), d[i].boot = d[j].boot
       PROVE  i = j
  <2>1. CASE i \in 1..n /\ j \in 1..n
    BY <1>1, <1>9, <1>12, <2>1
  <2>2. CASE i \notin 1..n /\ j \notin 1..n
    <3>1. PICK x \in 1..k : i = n + x /\ d[i] = new[h[x]] /\ h[x] \in 1..m
      BY <1>11, <2>2
    <3>2. PICK y \in 1..k : j = n + y /\ d[j] = new[h[y]] /\ h[y] \in 1..m
      BY <1>11, <2>2
    <3>3. h[x] = h[y]
      BY <1>1, <1>12, <3>1, <3>2
    <3>4. ~(x < y) /\ ~(y < x)
      BY <1>6, <3>1, <3>3
    <3> QED
      BY <3>1, <3>2, <3>4
  <2>3. ASSUME NEW x \in 1..Len(d), NEW y \in 1..Len(d), x \in 1..n, y \notin 1..n
        PROVE  d[x].boot # d[y].boot
    <3>1. ~Named(base, d[y].boot)
      BY <1>11, <2>3
    <3> QED
      BY <1>9, <2>3, <3>1 DEF Named
  <2> QED
    BY <1>12, <2>1, <2>2, <2>3
<1>13. \A i \in 1..Len(d) : IsEntryOfBook(d[i])
  BY <1>1, <1>9, <1>11
<1>14. IsBook(d)
  BY <1>2, <1>12, <1>13 DEF IsBook
<1>15. ASSUME NEW b PROVE RecordsIn(d, b) = RecordsIn(base, b) \o RecordsIn(new, b)
  <2>0. RecordsIn(new, b) \in Seq(Range(RecordsIn(new, b)))
    BY BookIsRead
  <2>1. CASE Named(base, b)
    <3>1. PICK i \in 1..n : base[i].boot = b
      BY <2>1 DEF Named
    <3>2. RecordsIn(base, b) = base[i].records
      BY <3>1, BookIsRead
    <3>3. RecordsIn(d, b) = d[i].records
      <4>1. i \in 1..Len(d) /\ d[i].boot = b
        BY <1>9, <3>1
      <4> QED
        BY <1>14, <4>1, BookIsRead
    <3> QED
      BY <1>9, <3>1, <3>2, <3>3
  <2>2. CASE ~Named(base, b)
    <3>1. RecordsIn(base, b) = <<>>
      BY <2>2, BookIsRead
    <3>2. <<>> \o RecordsIn(new, b) = RecordsIn(new, b)
      BY <2>0, ConcatEmptySeq
    <3>3. RecordsIn(d, b) = RecordsIn(new, b)
      <4>1. CASE Named(new, b)
        <5>1. PICK j \in 1..m : new[j].boot = b
          BY <4>1 DEF Named
        <5>2. PICK x \in 1..k : h[x] = j
          BY <1>6, <1>7, <2>2, <5>1
        <5>3. n + x \in 1..Len(d) /\ d[n + x] = new[j]
          BY <1>10, <5>2
        <5>4. RecordsIn(d, b) = new[j].records /\ RecordsIn(new, b) = new[j].records
          BY <1>14, <5>1, <5>3, BookIsRead
        <5> QED
          BY <5>4
      <4>2. CASE ~Named(new, b)
        <5>1. ~Named(d, b)
          <6> SUFFICES ASSUME NEW i \in 1..Len(d), d[i].boot = b PROVE FALSE
            BY DEF Named
          <6>1. CASE i \in 1..n
            BY <1>9, <2>2, <6>1 DEF Named
          <6>2. CASE i \notin 1..n
            BY <1>11, <4>2, <6>2 DEF Named
          <6> QED
            BY <6>1, <6>2
        <5> QED
          BY <1>14, <4>2, <5>1, BookIsRead
      <4> QED
        BY <4>1, <4>2
    <3> QED
      BY <3>1, <3>2, <3>3
  <2> QED
    BY <2>1, <2>2
<1>16. \A i \in 1..Len(d) : \/ i \in 1..n /\ SameHead(d[i], base[i])
                            \/ /\ ~Named(base, d[i].boot)
                               /\ \E j \in 1..m : d[i] = new[j]
  BY <1>9, <1>11
<1>17. ASSUME NEW j \in 1..m PROVE Named(d, new[j].boot)
  <2>1. CASE Named(base, new[j].boot)
    BY <1>9, <2>1 DEF Named
  <2>2. CASE ~Named(base, new[j].boot)
    <3>1. PICK x \in 1..k : h[x] = j
      BY <1>6, <1>7, <2>2
    <3> QED
      BY <1>10, <3>1 DEF Named
  <2> QED
    BY <2>1, <2>2
<1>18. \A i \in 1..n : i \in 1..Len(d) /\ SameHead(d[i], base[i])
  BY <1>9
<1> QED
  BY <1>2, <1>14, <1>15, <1>16, <1>17, <1>18

\* Where records lie, the file with id i being file src[i].
PlaceIn(src, x) == <<src[x.file], x.offset>>
PlacesOf(src, rs) == [j \in 1..Len(rs) |-> PlaceIn(src, rs[j])]

\* A record belongs to the boot of the last header before it.
Owns(files, p, b) ==
  \E h \in 1..p[2] : /\ files[p[1]][h].is = "boot" /\ files[p[1]][h].boot = b
                     /\ \A j \in 1..p[2] : h < j => files[p[1]][j].is # "boot"
OwnedBy(files, P, b) == { p \in P : Owns(files, p, b) }
RecsIn(files, f, n) ==
  { p \in {f} \X (1..n) : /\ files[f][p[2]].is = "record"
                          /\ \A j \in 1..p[2] : files[f][j].is \notin Ends }

\* Records and headers as the files have them.
RecordTold(r, files, src, ids) ==
  /\ r.file \in 1..ids /\ r.offset \in Nat /\ r.offset # 0
  /\ r.kernel = files[src[r.file]][r.offset].kernel /\ r.kernel \in Nat
  /\ r.wall = files[src[r.file]][r.offset].wall
HeadTold(x, H, files, src, ids) ==
  /\ x.file \in 1..ids /\ PlaceIn(src, x) \in H /\ x.offset # 0
  /\ NameAt(files, PlaceIn(src, x)) = x.boot
  /\ x.wall = files[src[x.file]][x.offset].wall
  /\ x.timebase = files[src[x.file]][x.offset].timebase
  /\ \A q \in H : NameAt(files, q) = x.boot => q = PlaceIn(src, x) \/ Earlier(PlaceIn(src, x), q)
RecordsTold(rs, R, files, src, ids) ==
  /\ \A j \in 1..Len(rs) : RecordTold(rs[j], files, src, ids)
  /\ Follows(PlacesOf(src, rs), R)
BookTold(d, H, P, files, src, ids) ==
  /\ IsBook(d)
  /\ \A i \in 1..Len(d) : HeadTold(d[i], H, files, src, ids)
  /\ \A b : RecordsTold(RecordsIn(d, b), OwnedBy(files, P, b), files, src, ids)

\* The places of records joined are their places joined.
LEMMA PlacesJoined ==
  ASSUME NEW src, NEW r, NEW s, r \in Seq(Range(r)), s \in Seq(Range(s))
  PROVE  PlacesOf(src, r \o s) = PlacesOf(src, r) \o PlacesOf(src, s)
<1> DEFINE X == Range(r) \cup Range(s)
           P(a) == PlacesOf(src, a)
           all == r \o s
           n == Len(r)
           k == Len(s)
           Y == { PlaceIn(src, x) : x \in X }
<1>1. r \in Seq(X) /\ s \in Seq(X)
  OBVIOUS
<1>2. /\ all \in Seq(X) /\ Len(all) = n + k /\ n \in Nat /\ k \in Nat
      /\ \A i \in 1..n : i \in 1..Len(all) /\ all[i] = r[i]
      /\ \A i \in 1..k : n + i \in 1..Len(all) /\ all[n + i] = s[i]
      /\ \A i \in 1..Len(all) : i \in 1..n \/ \E j \in 1..k : i = n + j
  <2> HIDE DEF X
  <2> QED
    BY <1>1, PartsOfJoined
<1>3. \A a \in Seq(X) : P(a) \in Seq(Y) /\ Len(P(a)) = Len(a) /\ \A i \in 1..Len(a) : P(a)[i] = PlaceIn(src, a[i])
  <2> SUFFICES ASSUME NEW a \in Seq(X)
               PROVE  P(a) \in Seq(Y) /\ Len(P(a)) = Len(a) /\ \A i \in 1..Len(a) : P(a)[i] = PlaceIn(src, a[i])
    OBVIOUS
  <2>1. Len(a) \in Nat /\ \A i \in 1..Len(a) : a[i] \in X
    BY LenProperties, ElementOfSeq
  <2>2. \A i \in 1..Len(a) : PlaceIn(src, a[i]) \in Y
    BY <2>1
  <2> HIDE DEF X, Y
  <2>3. P(a) \in [1..Len(a) -> Y]
    BY <2>2 DEF PlacesOf
  <2>4. P(a) \in Seq(Y) /\ Len(P(a)) = Len(a)
    BY <2>1, <2>3
  <2> QED
    BY <2>4 DEF PlacesOf
<1> DEFINE both == P(r) \o P(s)
<1> HIDE DEF X, Y
<1>4. /\ both \in Seq(Y) /\ Len(both) = n + k
      /\ \A i \in 1..n : both[i] = P(r)[i]
      /\ \A i \in 1..k : both[n + i] = P(s)[i]
  <2>1. P(r) \in Seq(Y) /\ P(s) \in Seq(Y) /\ Len(P(r)) = n /\ Len(P(s)) = k
    BY <1>1, <1>3
  <2> DEFINE u == P(r)
             v == P(s)
  <2>2. u \in Seq(Y) /\ v \in Seq(Y) /\ Len(u) = n /\ Len(v) = k
    BY <2>1
  <2> HIDE DEF P, u, v
  <2>3. u \in Seq(Y) /\ v \in Seq(Y)
    BY <2>2
  <2>4. /\ u \o v \in Seq(Y) /\ Len(u \o v) = Len(u) + Len(v)
        /\ \A i \in 1..Len(u) : (u \o v)[i] = u[i]
        /\ \A i \in 1..Len(v) : (u \o v)[Len(u) + i] = v[i]
    BY <2>3, PartsOfJoined
  <2> HIDE DEF n, k
  <2>5. /\ u \o v \in Seq(Y) /\ Len(u \o v) = n + k
        /\ \A i \in 1..n : (u \o v)[i] = u[i]
        /\ \A i \in 1..k : (u \o v)[n + i] = v[i]
    BY <2>2, <2>4
  <2> QED
    BY <2>5 DEF u, v
<1>5. P(all) \in Seq(Y) /\ Len(P(all)) = n + k /\ \A i \in 1..Len(all) : P(all)[i] = PlaceIn(src, all[i])
  BY <1>2, <1>3
<1>6. /\ \A i \in 1..n : P(r)[i] = PlaceIn(src, r[i])
      /\ \A i \in 1..k : P(s)[i] = PlaceIn(src, s[i])
  BY <1>1, <1>3
<1> HIDE DEF P, all, both, n, k
<1>7. ASSUME NEW i \in 1..(n + k) PROVE P(all)[i] = both[i]
  <2>1. i \in 1..Len(all)
    BY <1>2
  <2>2. CASE i \in 1..n
    BY <1>2, <1>4, <1>5, <1>6, <2>2
  <2>3. CASE i \notin 1..n
    <3>1. PICK j \in 1..k : i = n + j
      BY <1>2, <2>1, <2>3
    <3> DEFINE m == n + j
    <3>2. i = m /\ m \in 1..Len(all) /\ all[m] = s[j] /\ both[m] = P(s)[j]
      BY <1>2, <1>4, <3>1
    <3> HIDE DEF m
    <3>3. P(all)[m] = PlaceIn(src, all[m])
      BY <1>5, <3>2
    <3>4. P(s)[j] = PlaceIn(src, s[j])
      BY <1>6
    <3> QED
      BY <3>2, <3>3, <3>4
  <2> QED
    BY <2>2, <2>3
<1>8. P(all) = [i \in 1..(n + k) |-> P(all)[i]] /\ both = [i \in 1..(n + k) |-> both[i]]
  <2>1. \A z \in Seq(Y) : z = [i \in 1..Len(z) |-> z[i]]
    OBVIOUS
  <2> QED
    BY <2>1, <1>4, <1>5
<1>9. P(all) = both
  BY <1>7, <1>8
<1> QED
  BY <1>9 DEF P, all, both

\* The places of records and of one more.
LEMMA PlacesAppended ==
  ASSUME NEW src, NEW r, NEW x, r \in Seq(Range(r))
  PROVE  PlacesOf(src, Append(r, x)) = Append(PlacesOf(src, r), PlaceIn(src, x))
<1> DEFINE n == Len(r)
           t == Append(r, x)
           P(a) == PlacesOf(src, a)
           q == PlaceIn(src, x)
           X == Range(r) \cup {x}
<1>1. r \in Seq(X) /\ x \in X /\ n \in Nat
  BY LenProperties
<1>2. Len(t) = n + 1 /\ t[n + 1] = x /\ \A i \in 1..n : t[i] = r[i]
  <2> HIDE DEF X
  <2> QED
    BY <1>1, AppendProperties
<1> HIDE DEF t
<1>3. P(t) = [i \in 1..(n + 1) |-> PlaceIn(src, t[i])] /\ P(r) = [i \in 1..n |-> PlaceIn(src, r[i])]
  BY <1>2 DEF PlacesOf
<1> DEFINE Y == { PlaceIn(src, r[i]) : i \in 1..n } \cup {q}
<1>4. P(r) \in Seq(Y) /\ Len(P(r)) = n /\ q \in Y
  <2>1. \A i \in 1..n : PlaceIn(src, r[i]) \in Y
    OBVIOUS
  <2> HIDE DEF Y
  <2>2. P(r) \in [1..n -> Y]
    BY <1>3, <2>1
  <2> HIDE DEF P
  <2>3. P(r) \in Seq(Y) /\ Len(P(r)) = n
    BY <1>1, <2>2
  <2> QED
    BY <2>3 DEF Y
<1> HIDE DEF Y, P, q
<1> DEFINE u == Append(P(r), q)
<1>5. u \in Seq(Y) /\ Len(u) = n + 1 /\ u[n + 1] = q /\ \A i \in 1..n : u[i] = P(r)[i]
  BY <1>4, AppendProperties
<1> HIDE DEF u
<1>6. u = [i \in 1..(n + 1) |-> u[i]]
  <2>1. \A z \in Seq(Y) : z = [i \in 1..Len(z) |-> z[i]]
    OBVIOUS
  <2> QED
    BY <2>1, <1>5
<1>7. ASSUME NEW i \in 1..(n + 1) PROVE u[i] = PlaceIn(src, t[i])
  <2>1. i \in 1..n \/ i = n + 1
    BY <1>1
  <2> QED
    BY <1>2, <1>3, <1>5, <2>1 DEF q
<1>8. u = P(t)
  BY <1>3, <1>6, <1>7
<1> QED
  BY <1>8 DEF u, P, t, q

\* The header of a boot is told as long as the headers that are added are later.
LEMMA HeadStaysTold ==
  ASSUME NEW x, NEW y, NEW H, NEW T, NEW files, NEW src, NEW ids,
         HeadTold(x, H, files, src, ids), SameHead(y, x), \A p \in H, q \in T : Earlier(p, q)
  PROVE  HeadTold(y, H \cup T, files, src, ids)
<1>1. PlaceIn(src, y) = PlaceIn(src, x) /\ PlaceIn(src, x) \in H
  BY DEF HeadTold, SameHead, PlaceIn
<1>2. \A q \in T : Earlier(PlaceIn(src, x), q)
  BY <1>1
<1> QED
  BY <1>1, <1>2 DEF HeadTold, SameHead

\* The readable items of a kind among the first n of a file, and the next one.
PlacesIn(files, f, n, kind) ==
  { p \in {f} \X (1..n) : /\ files[f][p[2]].is = kind
                          /\ \A j \in 1..p[2] : files[f][j].is \notin Ends }
Stopped(files, f, n) == \E j \in 1..n : files[f][j].is \in Ends
\* One item more: a place of its kind, unless the walk has stopped.
LEMMA ItemsGoOn ==
  ASSUME NEW files, NEW f \in Nat, NEW n \in Nat, NEW kind, kind \notin Ends
  PROVE  LET here  == PlacesIn(files, f, n, kind)
             p    == <<f, n + 1>>
         IN  /\ PlacesIn(files, f, n + 1, kind) =
                  IF ~Stopped(files, f, n) /\ files[f][n + 1].is = kind THEN here \cup {p} ELSE here
             /\ here \subseteq Nat \X Nat /\ p \in Nat \X Nat
             /\ \A q \in here : q = <<f, q[2]>> /\ q[2] \in 1..n /\ Earlier(q, p)
<1> DEFINE here == PlacesIn(files, f, n, kind)
           more == PlacesIn(files, f, n + 1, kind)
           p == <<f, n + 1>>
<1>1. 1..(n + 1) = (1..n) \cup {n + 1} /\ n + 1 \notin 1..n
  OBVIOUS
<1>2. \A q \in here : q = <<f, q[2]>> /\ q[2] \in 1..n /\ q \in Nat \X Nat
  BY DEF PlacesIn
<1>3. \A q \in here : Earlier(q, p)
  <2>1. \A q \in here : q[1] = f /\ q[2] < n + 1
    BY <1>2 DEF PlacesIn
  <2> QED
    BY <2>1 DEF Earlier
<1>4. here \subseteq more
  BY <1>1 DEF PlacesIn
<1>5. ASSUME NEW q \in more, q \notin here PROVE q = p
  <2>1. q = <<f, q[2]>> /\ q[2] \in 1..(n + 1)
    BY DEF PlacesIn
  <2>2. q[2] \notin 1..n
    BY <1>5 DEF PlacesIn
  <2> QED
    BY <1>1, <2>1, <2>2
<1>6. p \notin here
  BY <1>1 DEF PlacesIn
<1>7. p \in more <=> ~Stopped(files, f, n) /\ files[f][n + 1].is = kind
  <2>1. p \in more <=> files[f][n + 1].is = kind /\ \A j \in 1..(n + 1) : files[f][j].is \notin Ends
    BY <1>1 DEF PlacesIn
  <2> QED
    BY <1>1, <2>1 DEF Stopped
<1> HIDE DEF here, more, p
<1>8. more = IF ~Stopped(files, f, n) /\ files[f][n + 1].is = kind THEN here \cup {p} ELSE here
  BY <1>4, <1>5, <1>6, <1>7
<1>9. p \in Nat \X Nat
  BY DEF p
<1> QED
  BY <1>2, <1>3, <1>8, <1>9 DEF here, more, p

\* The records a boot owns are those there were, and the next one if it is one of its own.
LEMMA OwnedGoesOn ==
  ASSUME NEW files, NEW f \in Nat, NEW n \in Nat, NEW b
  PROVE  LET owned == OwnedBy(files, RecsIn(files, f, n), b)
             p    == <<f, n + 1>>
         IN  /\ OwnedBy(files, RecsIn(files, f, n + 1), b) =
                  IF ~Stopped(files, f, n) /\ files[f][n + 1].is = "record" /\ Owns(files, p, b)
                  THEN owned \cup {p} ELSE owned
             /\ owned \subseteq Nat \X Nat /\ p \in Nat \X Nat
             /\ \A q \in owned : Earlier(q, p)
<1> DEFINE here == RecsIn(files, f, n)
           more == RecsIn(files, f, n + 1)
           owned == OwnedBy(files, here, b)
           p == <<f, n + 1>>
<1>1. /\ more = IF ~Stopped(files, f, n) /\ files[f][n + 1].is = "record" THEN here \cup {p} ELSE here
      /\ here \subseteq Nat \X Nat /\ p \in Nat \X Nat
      /\ \A q \in here : Earlier(q, p)
  <2>1. "record" \notin Ends
    BY DEF Ends
  <2>2. \A k : PlacesIn(files, f, k, "record") = RecsIn(files, f, k)
    BY DEF PlacesIn, RecsIn
  <2> QED
    <3>1. /\ PlacesIn(files, f, n + 1, "record") =
               IF ~Stopped(files, f, n) /\ files[f][n + 1].is = "record" THEN PlacesIn(files, f, n, "record") \cup {p}
               ELSE PlacesIn(files, f, n, "record")
          /\ PlacesIn(files, f, n, "record") \subseteq Nat \X Nat /\ p \in Nat \X Nat
          /\ \A q \in PlacesIn(files, f, n, "record") : Earlier(q, p)
      <4>1. LET kept == PlacesIn(files, f, n, "record")
                q    == <<f, n + 1>>
            IN  /\ PlacesIn(files, f, n + 1, "record") =
                     IF ~Stopped(files, f, n) /\ files[f][n + 1].is = "record" THEN kept \cup {q} ELSE kept
                /\ kept \subseteq Nat \X Nat /\ q \in Nat \X Nat
                /\ \A r \in kept : r = <<f, r[2]>> /\ r[2] \in 1..n /\ Earlier(r, q)
        BY ONLY <2>1, ItemsGoOn, n \in Nat, f \in Nat
      <4> QED
        BY <4>1
    <3> HIDE DEF p, here, more
    <3>2. PlacesIn(files, f, n, "record") = here /\ PlacesIn(files, f, n + 1, "record") = more
      BY <2>2 DEF here, more
    <3> QED
      BY <3>1, <3>2
<1> HIDE DEF here, more, p
<1>2. OwnedBy(files, more, b) = IF ~Stopped(files, f, n) /\ files[f][n + 1].is = "record" /\ Owns(files, p, b)
                                THEN owned \cup {p} ELSE owned
  BY <1>1 DEF OwnedBy
<1>3. owned \subseteq here
  BY DEF OwnedBy
<1> HIDE DEF owned
<1> QED
  BY <1>1, <1>2, <1>3 DEF here, more, p, owned

\* The boot an item after the headers so far belongs to.
LastHeader(files, f, n, open) ==
  IF open = <<>> THEN \A j \in 1..n : files[f][j].is # "boot"
  ELSE \E h \in 1..n : /\ files[f][h].is = "boot" /\ files[f][h].boot = open[1].boot
                       /\ \A j \in 1..n : h < j => files[f][j].is # "boot"
\* A record read next belongs to the open boot, and no record to none.
LEMMA OwnerIsOpen ==
  ASSUME NEW files, NEW f \in Nat, NEW n \in Nat, NEW open, LastHeader(files, f, n, open),
         files[f][n + 1].is # "boot"
  PROVE  /\ LastHeader(files, f, n + 1, open)
         /\ \A b : Owns(files, <<f, n + 1>>, b) <=> open # <<>> /\ b = open[1].boot
<1>1. 1..(n + 1) = (1..n) \cup {n + 1} /\ n + 1 \notin 1..n
  OBVIOUS
<1>2. LastHeader(files, f, n + 1, open)
  BY <1>1 DEF LastHeader
<1>3. ASSUME NEW b PROVE Owns(files, <<f, n + 1>>, b) <=> open # <<>> /\ b = open[1].boot
  <2>1. Owns(files, <<f, n + 1>>, b) <=>
          \E h \in 1..(n + 1) : /\ files[f][h].is = "boot" /\ files[f][h].boot = b
                                /\ \A j \in 1..(n + 1) : h < j => files[f][j].is # "boot"
    BY DEF Owns
  <2>2. CASE open = <<>>
    BY <1>1, <2>1, <2>2 DEF LastHeader
  <2>3. CASE open # <<>>
    <3>1. PICK h \in 1..n : /\ files[f][h].is = "boot" /\ files[f][h].boot = open[1].boot
                            /\ \A j \in 1..n : h < j => files[f][j].is # "boot"
      BY <2>3 DEF LastHeader
    <3>2. b = open[1].boot => Owns(files, <<f, n + 1>>, b)
      BY <1>1, <2>1, <3>1
    <3>3. ASSUME Owns(files, <<f, n + 1>>, b) PROVE b = open[1].boot
      <4>1. PICK g \in 1..(n + 1) : /\ files[f][g].is = "boot" /\ files[f][g].boot = b
                                    /\ \A j \in 1..(n + 1) : g < j => files[f][j].is # "boot"
        BY <2>1, <3>3
      <4>2. g \in 1..n
        BY <1>1, <4>1
      <4>3. ~(g < h) /\ ~(h < g)
        BY <1>1, <3>1, <4>1, <4>2
      <4>4. g = h
        BY <4>2, <4>3
      <4> QED
        BY <3>1, <4>1, <4>4
    <3> QED
      BY <2>3, <3>2, <3>3
  <2> QED
    BY <2>2, <2>3
<1> QED
  BY <1>2, <1>3

\* The headers of a merged dict are those of the first, and of the second where it is new.
HeadFrom(base, new, x) ==
  \/ \E i \in 1..Len(base) : SameHead(x, base[i])
  \/ ~Named(base, x.boot) /\ \E j \in 1..Len(new) : SameHead(x, new[j])
\* _merge_boot keeps the header of the boot that is there.
LEMMA HeadsMerged ==
  ASSUME NEW base, NEW new, IsBook(base), IsBook(new)
  PROVE  LET d == MergeDicts(base, new)
         IN  /\ \A i \in 1..Len(d) : HeadFrom(base, new, d[i])
             /\ \A x : HeadFrom(base, new, x) => \E i \in 1..Len(d) : SameHead(x, d[i])
<1> DEFINE d == MergeDicts(base, new)
<1>1. /\ \A i \in 1..Len(d) : \/ i \in 1..Len(base) /\ SameHead(d[i], base[i])
                              \/ /\ ~Named(base, d[i].boot)
                                 /\ \E j \in 1..Len(new) : d[i] = new[j]
      /\ \A i \in 1..Len(base) : i \in 1..Len(d) /\ SameHead(d[i], base[i])
      /\ \A j \in 1..Len(new) : Named(d, new[j].boot)
      /\ \A i, j \in 1..Len(new) : new[i].boot = new[j].boot => i = j
  BY BooksMerged DEF IsBook
<1> HIDE DEF d
<1>2. \A i \in 1..Len(d) : HeadFrom(base, new, d[i])
  BY <1>1 DEF HeadFrom, SameHead
<1>3. ASSUME NEW x, HeadFrom(base, new, x) PROVE \E i \in 1..Len(d) : SameHead(x, d[i])
  <2>1. CASE \E i \in 1..Len(base) : SameHead(x, base[i])
    BY <1>1, <2>1 DEF SameHead
  <2>2. CASE ~Named(base, x.boot) /\ \E j \in 1..Len(new) : SameHead(x, new[j])
    <3>1. PICK j \in 1..Len(new) : SameHead(x, new[j])
      BY <2>2
    <3>2. x.boot = new[j].boot
      BY <3>1 DEF SameHead
    <3>3. PICK i \in 1..Len(d) : d[i].boot = new[j].boot
      BY <1>1 DEF Named
    <3>4. ~(i \in 1..Len(base) /\ SameHead(d[i], base[i]))
      <4> SUFFICES ASSUME i \in 1..Len(base), SameHead(d[i], base[i]) PROVE FALSE
        OBVIOUS
      <4>1. base[i].boot = x.boot
        BY <3>2, <3>3 DEF SameHead
      <4> QED
        BY <2>2, <4>1 DEF Named
    <3>5. PICK k \in 1..Len(new) : d[i] = new[k]
      BY <1>1, <3>4
    <3>6. k = j
      BY <1>1, <3>3, <3>5
    <3> QED
      BY <3>1, <3>5, <3>6
  <2> QED
    BY <1>3, <2>1, <2>2 DEF HeadFrom
<1> QED
  BY <1>2, <1>3 DEF d

\* Headers told stay told in a dict whose headers are among them, and later ones are added.
LEMMA HeadsStayTold ==
  ASSUME NEW d, NEW H, NEW T, NEW files, NEW src, NEW ids,
         \A i \in 1..Len(d) : HeadTold(d[i], H, files, src, ids),
         \A p \in H, q \in T : Earlier(p, q),
         NEW x, \E i \in 1..Len(d) : SameHead(x, d[i])
  PROVE  HeadTold(x, H \cup T, files, src, ids)
<1>1. PICK i \in 1..Len(d) : SameHead(x, d[i])
  OBVIOUS
<1> QED
  BY <1>1, HeadStaysTold

\* A dict of one boot without records.
LEMMA BookOfOne ==
  ASSUME NEW x, IsEntryOfBook(x), "boot" \in DOMAIN x
  PROVE  /\ IsBook(<<x>>) /\ Len(<<x>>) = 1 /\ <<x>>[1] = x
         /\ \A b : RecordsIn(<<x>>, b) = IF b = x.boot THEN x.records ELSE <<>>
<1>1. <<x>> \in Seq({x}) /\ Len(<<x>>) = 1 /\ <<x>>[1] = x /\ \A i \in 1..1 : i = 1
  OBVIOUS
<1> DEFINE d == <<x>>
<1> HIDE DEF d
<1>2. d \in Seq(Range(d))
  BY <1>1, SeqOfItsRange DEF d
<1>3. IsBook(d)
  BY <1>1, <1>2 DEF IsBook, IsDict, d
<1>4. ASSUME NEW b PROVE RecordsIn(d, b) = IF b = x.boot THEN x.records ELSE <<>>
  <2>1. CASE b = x.boot
    <3>1. 1 \in 1..Len(d) /\ d[1] = x
      BY <1>1 DEF d
    <3> QED
      BY <1>3, <2>1, <3>1, BookIsRead
  <2>2. CASE b # x.boot
    <3>1. ~Named(d, b)
      BY <1>1, <2>2 DEF Named, d
    <3> QED
      BY <1>3, <2>2, <3>1, BookIsRead
  <2> QED
    BY <2>1, <2>2
<1> QED
  BY <1>1, <1>3, <1>4 DEF d

\* The open boot with one more record.
GoesOn(u, open, r) == u = [open EXCEPT ![1].records = Append(@, r)]
\* _parse_timesync_record: the open boot is a dict of one boot still.
LEMMA OpenGoesOn ==
  ASSUME NEW open, IsBook(open), Len(open) <= 1, open # <<>>, NEW r, NEW u,
         GoesOn(u, open, r)
  PROVE  /\ IsBook(u) /\ Len(u) = 1 /\ u # <<>> /\ Len(open) = 1
         /\ SameHead(u[1], open[1]) /\ u[1].boot = open[1].boot
         /\ \A b : RecordsIn(u, b) = IF b = open[1].boot THEN Append(RecordsIn(open, b), r)
                                     ELSE RecordsIn(open, b)
<1> DEFINE o == open[1]
           x == [o EXCEPT !.records = Append(@, r)]
<1>1. open \in Seq(Range(open)) /\ Len(open) \in Nat /\ DOMAIN open = 1..Len(open)
  BY BookIsRead DEF IsBook, IsDict
<1>2. Len(open) = 1
  BY <1>1
<1>3. open = <<o>>
  BY <1>1, <1>2
<1>4. /\ o = [boot |-> o.boot, timebase |-> o.timebase, wall |-> o.wall, offset |-> o.offset,
              file |-> o.file, records |-> o.records]
      /\ o.records \in Seq(Range(o.records)) /\ "boot" \in DOMAIN o
  BY <1>2 DEF IsBook, IsEntryOfBook, IsDict
<1> HIDE DEF o
<1>5. x = [boot |-> o.boot, timebase |-> o.timebase, wall |-> o.wall, offset |-> o.offset,
           file |-> o.file, records |-> Append(o.records, r)]
  <2> DEFINE rs == Append(o.records, r)
  <2>1. x = [o EXCEPT !.records = rs]
    OBVIOUS
  <2> HIDE DEF x, rs
  <2>2. x = [boot |-> o.boot, timebase |-> o.timebase, wall |-> o.wall, offset |-> o.offset,
             file |-> o.file, records |-> rs]
    BY <1>4, <2>1
  <2> QED
    BY <2>2 DEF rs
<1>6. Append(o.records, r) \in Seq(Range(Append(o.records, r)))
  <2> DEFINE X == Range(o.records) \cup {r}
             rs == o.records
  <2>1. rs \in Seq(X) /\ r \in X
    BY <1>4
  <2> HIDE DEF X, rs
  <2>2. Append(rs, r) \in Seq(X)
    BY <2>1, AppendProperties
  <2> QED
    BY <2>2, SeqOfItsRange DEF rs
<1>7. IsEntryOfBook(x) /\ "boot" \in DOMAIN x /\ x.boot = o.boot /\ SameHead(x, o)
      /\ x.records = Append(o.records, r)
  BY <1>5, <1>6 DEF IsEntryOfBook, SameHead
<1>8. u = <<x>>
  <2>1. u = [open EXCEPT ![1] = x]
    BY DEF o, GoesOn
  <2> HIDE DEF x
  <2> QED
    BY <1>3, <2>1
<1> HIDE DEF x
<1>9. /\ IsBook(<<x>>) /\ Len(<<x>>) = 1 /\ <<x>>[1] = x
      /\ \A b : RecordsIn(<<x>>, b) = IF b = x.boot THEN x.records ELSE <<>>
  BY <1>7, BookOfOne
<1>10. \A b : RecordsIn(<<o>>, b) = IF b = o.boot THEN o.records ELSE <<>>
  <2>1. IsEntryOfBook(o)
    BY <1>4 DEF IsEntryOfBook
  <2> QED
    BY <1>4, <2>1, BookOfOne
<1>11. \A b : RecordsIn(u, b) = IF b = o.boot THEN Append(RecordsIn(open, b), r) ELSE RecordsIn(open, b)
  BY <1>3, <1>7, <1>8, <1>9, <1>10
<1>12. u # <<>> /\ u[1] = x
  BY <1>8
<1> QED
  BY <1>2, <1>7, <1>8, <1>9, <1>11, <1>12 DEF o

\* What the walk of a file has told after n items, the file being the one with number id.
RisesIn(src, d, files, P, b) == Rising(PlacesOf(src, RecordsIn(d, b)), OwnedBy(files, P, b))
WalkTold(s, files, f, n, id, src) ==
  LET d == MergeDicts(s.dict, s.open)
      P == RecsIn(files, f, n)
  IN  /\ IsBook(s.dict) /\ IsBook(s.open) /\ Len(s.open) <= 1
      /\ BookTold(d, HeadsIn(files, f, n), P, files, src, id)
      /\ ~s.stop => LastHeader(files, f, n, s.open) /\ \A b : RisesIn(src, d, files, P, b)

\* Nothing read, nothing told.
LEMMA NoBookTold ==
  ASSUME NEW files, NEW src, NEW ids
  PROVE  BookTold(<<>>, {}, {}, files, src, ids) /\ \A b : RisesIn(src, <<>>, files, {}, b)
<1>1. IsBook(<<>>) /\ Len(<<>>) = 0
  BY EmptyDict DEF IsBook
<1>2. \A b : RecordsIn(<<>>, b) = <<>>
  BY <1>1, BookIsRead DEF Named
<1>3. \A b : OwnedBy(files, {}, b) = {}
  BY DEF OwnedBy
<1>4. PlacesOf(src, <<>>) = <<>>
  BY DEF PlacesOf
<1>5. Rising(<<>>, {})
  BY DEF Rising
<1>6. Follows(<<>>, {})
  BY DEF Follows
<1>7. \A b : RisesIn(src, <<>>, files, {}, b)
  BY <1>2, <1>3, <1>4, <1>5 DEF RisesIn
<1>8. \A b : RecordsTold(RecordsIn(<<>>, b), OwnedBy(files, {}, b), files, src, ids)
  BY <1>2, <1>3, <1>4, <1>6 DEF RecordsTold
<1> QED
  BY <1>1, <1>7, <1>8 DEF BookTold

\* The walk before the first item.
LEMMA NothingTold ==
  ASSUME NEW files, NEW f, NEW id, NEW src
  PROVE  WalkTold(StartWalk, files, f, 0, id, src)
<1>1. HeadsIn(files, f, 0) = {} /\ RecsIn(files, f, 0) = {}
  BY DEF HeadsIn, RecsIn
<1>2. MergeDicts(<<>>, <<>>) = <<>> /\ IsBook(<<>>) /\ Len(<<>>) <= 1
  BY EmptyDict DEF IsBook
<1>3. BookTold(<<>>, {}, {}, files, src, id) /\ \A b : RisesIn(src, <<>>, files, {}, b)
  BY NoBookTold
<1>4. LastHeader(files, f, 0, <<>>)
  BY DEF LastHeader
<1>5. StartWalk.dict = <<>> /\ StartWalk.open = <<>>
  BY DEF StartWalk
<1> QED
  BY <1>1, <1>2, <1>3, <1>4, <1>5 DEF WalkTold

\* parse_timesync_file, one item: a record is told at the end of those of its boot, a header
\* when it is the first of its boot; the boot a damage ends is committed twice.
LEMMA WalkTells ==
  ASSUME NEW files, NEW f \in Nat, NEW n \in Nat, NEW id \in Nat \ {0}, NEW src, src[id] = f,
         NEW s, files[f][n + 1].is \in Kinds,
         files[f][n + 1].is = "record" => files[f][n + 1].kernel \in Nat,
         WalkHolds(s, files, f, n), WalkTold(s, files, f, n, id, src)
  PROVE  WalkTold(WalkItem(s, files[f][n + 1], n + 1, id), files, f, n + 1, id, src)
<1> DEFINE item == files[f][n + 1]
           t == WalkItem(s, item, n + 1, id)
           d == MergeDicts(s.dict, s.open)
           e == MergeDicts(t.dict, t.open)
           H == HeadsIn(files, f, n)
           R == RecsIn(files, f, n)
           H2 == HeadsIn(files, f, n + 1)
           R2 == RecsIn(files, f, n + 1)
           p == <<f, n + 1>>
           mine(b) == ~s.stop /\ item.is = "record" /\ Owns(files, p, b)
           own(b) == OwnedBy(files, R, b)
<1>1. /\ s = [dict |-> s.dict, open |-> s.open, stop |-> s.stop] /\ s.stop \in BOOLEAN
      /\ (s.stop <=> Stopped(files, f, n))
      /\ InOrderSeen(NamesOf(d), H, files)
  BY DEF WalkHolds, Stopped
<1>2. /\ IsBook(s.dict) /\ IsBook(s.open) /\ Len(s.open) <= 1
      /\ IsBook(d)
      /\ \A i \in 1..Len(d) : HeadTold(d[i], H, files, src, id)
      /\ \A b : RecordsTold(RecordsIn(d, b), own(b), files, src, id)
      /\ ~s.stop => LastHeader(files, f, n, s.open) /\ \A b : RisesIn(src, d, files, R, b)
  BY DEF WalkTold, BookTold
<1>3. /\ H2 = IF ~s.stop /\ item.is = "boot" THEN H \cup {p} ELSE H
      /\ \A q \in H : Earlier(q, p)
  <2>1. LET kept == PlacesIn(files, f, n, "boot")
            q    == <<f, n + 1>>
        IN  /\ PlacesIn(files, f, n + 1, "boot") =
                 IF ~Stopped(files, f, n) /\ files[f][n + 1].is = "boot" THEN kept \cup {q} ELSE kept
            /\ kept \subseteq Nat \X Nat /\ q \in Nat \X Nat
            /\ \A r \in kept : r = <<f, r[2]>> /\ r[2] \in 1..n /\ Earlier(r, q)
    <3>1. "boot" \notin Ends
      BY DEF Ends
    <3> QED
      BY ONLY <3>1, ItemsGoOn, n \in Nat, f \in Nat
  <2>2. H = PlacesIn(files, f, n, "boot") /\ H2 = PlacesIn(files, f, n + 1, "boot")
    BY DEF HeadsIn, PlacesIn
  <2> QED
    BY <1>1, <2>1, <2>2
<1>4. ASSUME NEW b
      PROVE  /\ OwnedBy(files, R2, b) = IF mine(b) THEN own(b) \cup {p} ELSE own(b)
             /\ own(b) \subseteq Nat \X Nat /\ p \in Nat \X Nat
             /\ \A q \in own(b) : Earlier(q, p)
  <2>1. LET owned == OwnedBy(files, RecsIn(files, f, n), b)
            q    == <<f, n + 1>>
         IN  /\ OwnedBy(files, RecsIn(files, f, n + 1), b) =
                  IF ~Stopped(files, f, n) /\ files[f][n + 1].is = "record" /\ Owns(files, q, b)
                  THEN owned \cup {q} ELSE owned
             /\ owned \subseteq Nat \X Nat /\ q \in Nat \X Nat
             /\ \A r \in owned : Earlier(r, q)
    BY ONLY OwnedGoesOn, n \in Nat, f \in Nat
  <2> QED
    BY <1>1, <2>1
<1>5. item.is \in {"boot", "record", "bad", "tail"}
  BY DEF Kinds, Ends
\* Most items leave the dict as it is.
<1>6. ASSUME e = d, t.dict = s.dict, t.open = s.open, H2 = H, \A b : ~mine(b),
             ~t.stop => ~s.stop /\ LastHeader(files, f, n + 1, t.open)
      PROVE  WalkTold(t, files, f, n + 1, id, src)
  <2>1. \A b : OwnedBy(files, R2, b) = own(b)
    BY <1>4, <1>6
  <2>2. \A b : RecordsTold(RecordsIn(e, b), OwnedBy(files, R2, b), files, src, id)
    BY <1>2, <1>6, <2>1
  <2>3. ~t.stop => LastHeader(files, f, n + 1, t.open) /\ \A b : RisesIn(src, e, files, R2, b)
    BY <1>2, <1>6, <2>1 DEF RisesIn
  <2>4. \A i \in 1..Len(e) : HeadTold(e[i], H2, files, src, id)
    BY <1>2, <1>6
  <2> HIDE DEF t, e, H2, R2, d
  <2>5. BookTold(e, H2, R2, files, src, id)
    BY <1>2, <1>6, <2>2, <2>4 DEF BookTold
  <2>6. IsBook(t.dict) /\ IsBook(t.open) /\ Len(t.open) <= 1
    BY <1>2, <1>6
  <2> QED
    BY <2>3, <2>5, <2>6 DEF WalkTold, e, H2, R2
<1>7. CASE s.stop
  <2>1. t = s
    BY <1>7 DEF WalkItem
  <2> QED
    BY <1>3, <1>6, <1>7, <2>1
<1>8. CASE ~s.stop /\ item.is = "record" /\ s.open = <<>>
  <2>1. t = s
    BY <1>8 DEF WalkItem
  <2>2. LastHeader(files, f, n + 1, s.open) /\ \A b : ~Owns(files, p, b)
    <3>1. LastHeader(files, f, n, s.open) /\ files[f][n + 1].is # "boot"
      BY <1>2, <1>8
    <3> QED
      BY <1>8, <3>1, OwnerIsOpen
  <2> QED
    BY <1>3, <1>6, <1>8, <2>1, <2>2
<1>9. CASE ~s.stop /\ item.is = "tail"
  <2>1. t = [dict |-> s.dict, open |-> s.open, stop |-> TRUE]
    <3>1. t = [s EXCEPT !.stop = TRUE]
      BY <1>9 DEF WalkItem
    <3> HIDE DEF t
    <3> QED
      BY <3>1, <1>1
  <2> QED
    BY <1>3, <1>6, <1>9, <2>1
<1>10. CASE ~s.stop /\ item.is = "record" /\ s.open # <<>>
  <2> DEFINE r == RecordAt(item, n + 1, id)
             u == [s.open EXCEPT ![1].records = Append(@, r)]
             o == s.open[1].boot
  <2>1. t = [dict |-> s.dict, open |-> u, stop |-> s.stop]
    <3>1. t = [s EXCEPT !.open = u]
      BY <1>10 DEF WalkItem
    <3> HIDE DEF t, u
    <3> QED
      BY <3>1, <1>1
  <2>2. /\ IsBook(u) /\ Len(u) = 1 /\ u # <<>> /\ Len(s.open) = 1
        /\ SameHead(u[1], s.open[1]) /\ u[1].boot = s.open[1].boot
        /\ \A b : RecordsIn(u, b) = IF b = o THEN Append(RecordsIn(s.open, b), r) ELSE RecordsIn(s.open, b)
    <3>1. u = [s.open EXCEPT ![1].records = Append(@, r)]
      OBVIOUS
    <3> HIDE DEF u, r
    <3>2. IsBook(s.open) /\ Len(s.open) <= 1 /\ s.open # <<>>
      BY <1>2, <1>10
    <3> DEFINE w == s.open
    <3> HIDE DEF w
    <3>3. w # <<>> /\ IsBook(w) /\ Len(w) <= 1 /\ GoesOn(u, w, r)
      BY <3>1, <3>2 DEF w, GoesOn
    <3>4. /\ IsBook(u) /\ Len(u) = 1 /\ u # <<>> /\ Len(w) = 1
          /\ SameHead(u[1], w[1]) /\ u[1].boot = w[1].boot
          /\ \A b : RecordsIn(u, b) = IF b = w[1].boot THEN Append(RecordsIn(w, b), r) ELSE RecordsIn(w, b)
      BY ONLY <3>3, OpenGoesOn
    <3> QED
      BY <3>4 DEF w
  <2>3. LastHeader(files, f, n + 1, u) /\ \A b : Owns(files, p, b) <=> b = o
    <3>1. LastHeader(files, f, n, s.open) /\ files[f][n + 1].is # "boot"
      BY <1>2, <1>10
    <3>2. LastHeader(files, f, n + 1, s.open) /\ \A b : Owns(files, p, b) <=> s.open # <<>> /\ b = o
      BY <3>1, OwnerIsOpen
    <3> HIDE DEF u
    <3> QED
      BY <1>10, <2>2, <3>2 DEF LastHeader
  <2> HIDE DEF u, t
  <2>4. t.dict = s.dict /\ t.open = u /\ ~t.stop
    BY <1>10, <2>1
  <2>5. IsBook(e) /\ \A b : RecordsIn(e, b) = RecordsIn(s.dict, b) \o RecordsIn(u, b)
    BY <1>2, <2>2, <2>4, BooksMerged
  <2>6. \A b : RecordsIn(d, b) = RecordsIn(s.dict, b) \o RecordsIn(s.open, b)
    BY <1>2, BooksMerged
  <2>7. ASSUME NEW b
        PROVE  RecordsIn(e, b) = IF b = o THEN Append(RecordsIn(d, b), r) ELSE RecordsIn(d, b)
    <3> DEFINE x == RecordsIn(s.dict, b)
               y == RecordsIn(s.open, b)
    <3>1. x \in Seq(Range(x)) /\ y \in Seq(Range(y))
      BY <1>2, BookIsRead
    <3> HIDE DEF x, y
    <3>2. x \o Append(y, r) = Append(x \o y, r)
      <4> DEFINE X == Range(x) \cup Range(y) \cup {r}
      <4>1. x \in Seq(X) /\ y \in Seq(X) /\ r \in X
        BY <3>1
      <4> HIDE DEF X, r
      <4> QED
        BY <4>1
    <3>3. RecordsIn(e, b) = x \o RecordsIn(u, b) /\ RecordsIn(d, b) = x \o y
      BY <2>5, <2>6 DEF x, y
    <3>4. RecordsIn(u, b) = IF b = o THEN Append(y, r) ELSE y
      BY <2>2 DEF y
    <3> HIDE DEF r, o, e, d
    <3> QED
      BY <3>2, <3>3, <3>4
  <2>8. RecordTold(r, files, src, id) /\ PlaceIn(src, r) = p
    <3>1. r.file = id /\ r.offset = n + 1 /\ r.kernel = item.kernel /\ r.wall = item.wall
      BY DEF RecordAt
    <3>2. id \in 1..id /\ n + 1 \in Nat /\ n + 1 # 0 /\ item.kernel \in Nat
      BY <1>10
    <3> HIDE DEF r
    <3> QED
      BY <3>1, <3>2 DEF RecordTold, PlaceIn
  <2>9. ASSUME NEW b
        PROVE  /\ RecordsTold(RecordsIn(e, b), OwnedBy(files, R2, b), files, src, id)
               /\ RisesIn(src, e, files, R2, b)
    <3>1. /\ RecordsTold(RecordsIn(d, b), own(b), files, src, id)
          /\ Rising(PlacesOf(src, RecordsIn(d, b)), own(b))
      BY <1>2, <1>10 DEF RisesIn
    <3>2. CASE b # o
      <4>1. RecordsIn(e, b) = RecordsIn(d, b) /\ OwnedBy(files, R2, b) = own(b)
        BY <1>4, <2>3, <2>7, <3>2
      <4> QED
        BY <3>1, <4>1 DEF RisesIn
    <3>3. CASE b = o
      <4>1. RecordsIn(e, b) = Append(RecordsIn(d, b), r) /\ OwnedBy(files, R2, b) = own(b) \cup {p}
        BY <1>4, <1>10, <2>3, <2>7, <3>3
      <4> DEFINE rs == RecordsIn(d, b)
      <4>2. rs \in Seq(Range(rs)) /\ Len(rs) \in Nat
        BY <1>2, BookIsRead, LenProperties
      <4>3. PlacesOf(src, Append(rs, r)) = Append(PlacesOf(src, rs), p)
        BY <2>8, <4>2, PlacesAppended
      <4>4. Rising(Append(PlacesOf(src, rs), p), own(b) \cup {p})
        <5>1. own(b) \subseteq Nat \X Nat /\ p \in Nat \X Nat /\ \A q \in own(b) : Earlier(q, p)
          BY <1>4
        <5>2. Rising(PlacesOf(src, rs), own(b))
          BY <3>1
        <5> HIDE DEF own, p, rs
        <5> QED
          BY <5>1, <5>2, RisingGoesOn
      <4>5. Follows(Append(PlacesOf(src, rs), p), own(b) \cup {p})
        <5>1. own(b) \cup {p} \subseteq Nat \X Nat
          BY <1>4
        <5> HIDE DEF own, p, rs
        <5> QED
          BY <4>4, <5>1, RisingFollows
      <4>6. \A j \in 1..Len(Append(rs, r)) : RecordTold(Append(rs, r)[j], files, src, id)
        <5>1. \A j \in 1..Len(rs) : RecordTold(rs[j], files, src, id)
          BY <3>1 DEF RecordsTold
        <5> DEFINE X == Range(rs) \cup {r}
        <5>2. rs \in Seq(X) /\ r \in X
          BY <4>2
        <5> HIDE DEF X, rs, r
        <5>3. /\ Len(Append(rs, r)) = Len(rs) + 1 /\ Append(rs, r)[Len(rs) + 1] = r
              /\ \A j \in 1..Len(rs) : Append(rs, r)[j] = rs[j]
          BY <5>2, AppendProperties
        <5>4. \A j \in 1..(Len(rs) + 1) : j \in 1..Len(rs) \/ j = Len(rs) + 1
          BY <4>2
        <5> QED
          BY <2>8, <5>1, <5>3, <5>4
      <4> HIDE DEF rs, r, own, e, R2, p
      <4>7. RecordsTold(Append(rs, r), own(b) \cup {p}, files, src, id)
        BY <4>3, <4>5, <4>6 DEF RecordsTold
      <4>8. RecordsIn(e, b) = Append(rs, r)
        BY <4>1 DEF rs
      <4> QED
        BY <4>1, <4>3, <4>4, <4>7, <4>8 DEF RisesIn
    <3> QED
      BY <3>2, <3>3
  <2>10. ASSUME NEW i \in 1..Len(e) PROVE HeadTold(e[i], H2, files, src, id)
    <3>1. HeadFrom(s.dict, u, e[i])
      BY <1>2, <2>2, <2>4, HeadsMerged
    <3>2. HeadFrom(s.dict, s.open, e[i])
      <4>1. \A x : (\E j \in 1..Len(u) : SameHead(x, u[j])) => \E j \in 1..Len(s.open) : SameHead(x, s.open[j])
        BY <2>2 DEF SameHead
      <4> QED
        BY <3>1, <4>1 DEF HeadFrom
    <3>3. \E j \in 1..Len(d) : SameHead(e[i], d[j])
      BY <1>2, <3>2, HeadsMerged
    <3>4. HeadTold(e[i], H \cup {}, files, src, id)
      BY <1>2, <3>3, HeadsStayTold
    <3>5. H2 = H /\ H \cup {} = H
      BY <1>3, <1>10
    <3> QED
      BY <3>4, <3>5
  <2> HIDE DEF e, H2, R2
  <2>11. BookTold(e, H2, R2, files, src, id)
    BY <2>5, <2>9, <2>10 DEF BookTold
  <2>12. \A b : RisesIn(src, e, files, R2, b)
    BY <2>9
  <2>13. IsBook(t.dict) /\ IsBook(t.open) /\ Len(t.open) <= 1 /\ LastHeader(files, f, n + 1, t.open)
    <3>1. IsBook(s.dict) /\ IsBook(u) /\ Len(u) <= 1
      BY <1>2, <2>2
    <3> QED
      BY <2>3, <2>4, <3>1
  <2>14. ~t.stop => LastHeader(files, f, n + 1, t.open) /\ \A b : RisesIn(src, e, files, R2, b)
    BY <2>12, <2>13
  <2> QED
    BY <2>11, <2>13, <2>14 DEF WalkTold, e, H2, R2, t, item
<1>11. CASE ~s.stop /\ item.is = "boot"
  <2> DEFINE x == BootAt(item, n + 1, id)
  <2>1. t = [dict |-> d, open |-> <<x>>, stop |-> s.stop]
    <3>1. t = [s EXCEPT !.dict = d, !.open = <<x>>]
      BY <1>11 DEF WalkItem
    <3> HIDE DEF t, d, x
    <3> QED
      BY <3>1, <1>1
  <2>2. /\ IsEntryOfBook(x) /\ "boot" \in DOMAIN x /\ x.boot = item.boot /\ x.records = <<>>
        /\ x.file = id /\ x.offset = n + 1 /\ x.wall = item.wall /\ x.timebase = item.timebase
    <3>1. <<>> \in Seq(Range(<<>>))
      OBVIOUS
    <3> QED
      BY <3>1 DEF BootAt, IsEntryOfBook
  <2>3. t.dict = d /\ t.open = <<x>> /\ ~t.stop
    BY <1>11, <2>1
  <2> HIDE DEF x, t
  <2>4. /\ IsBook(<<x>>) /\ Len(<<x>>) = 1 /\ <<x>>[1] = x
        /\ \A b : RecordsIn(<<x>>, b) = <<>>
    BY <2>2, BookOfOne
  <2>5. IsBook(e) /\ \A b : RecordsIn(e, b) = RecordsIn(d, b)
    <3>1. IsBook(e) /\ \A b : RecordsIn(e, b) = RecordsIn(d, b) \o <<>>
      <4> HIDE DEF d
      <4> QED
        <5>1. IsBook(d) /\ IsBook(<<x>>) /\ e = MergeDicts(d, <<x>>)
          BY <1>2, <2>3, <2>4
        <5> HIDE DEF e
        <5>2. IsBook(e) /\ \A b : RecordsIn(e, b) = RecordsIn(d, b) \o RecordsIn(<<x>>, b)
          BY ONLY <5>1, BooksMerged, SMTT(60)
        <5> QED
          BY <2>4, <5>2
    <3>2. \A b : RecordsIn(d, b) \in Seq(Range(RecordsIn(d, b)))
      <4> HIDE DEF d
      <4> QED
        BY <1>2, BookIsRead
    <3> HIDE DEF d, e
    <3> QED
      BY <3>1, <3>2, ConcatEmptySeq
  <2>6. H2 = H \cup {p} /\ \A b : OwnedBy(files, R2, b) = own(b)
    BY <1>3, <1>4, <1>11
  <2>7. LastHeader(files, f, n + 1, <<x>>)
    <3>1. n + 1 \in 1..(n + 1) /\ item.is = "boot" /\ \A j \in 1..(n + 1) : ~(n + 1 < j)
      BY <1>11
    <3> QED
      BY <2>2, <2>4, <3>1 DEF LastHeader
  <2>8. \A b : RecordsTold(RecordsIn(e, b), OwnedBy(files, R2, b), files, src, id)
    BY <1>2, <2>5, <2>6
  <2>9. \A b : RisesIn(src, e, files, R2, b)
    BY <1>2, <1>11, <2>5, <2>6 DEF RisesIn
  <2>10. ASSUME NEW i \in 1..Len(e) PROVE HeadTold(e[i], H2, files, src, id)
    <3>1. HeadFrom(d, <<x>>, e[i])
      <4> HIDE DEF d
      <4> QED
        BY <1>2, <2>3, <2>4, HeadsMerged
    <3>2. CASE \E j \in 1..Len(d) : SameHead(e[i], d[j])
      <4> HIDE DEF d, p, H, e
      <4>1. \A q \in H, r \in {p} : Earlier(q, r)
        BY <1>3
      <4>2. HeadTold(e[i], H \cup {p}, files, src, id)
        BY <1>2, <3>2, <4>1, HeadsStayTold
      <4> QED
        BY <2>6, <4>2
    <3>3. CASE ~Named(d, e[i].boot) /\ \E j \in 1..Len(<<x>>) : SameHead(e[i], <<x>>[j])
      <4>1. SameHead(e[i], x)
        BY <2>4, <3>3
      <4>2. PlaceIn(src, e[i]) = p
        BY <2>2, <4>1 DEF SameHead, PlaceIn
      <4>3. \A q \in H : NameAt(files, q) # e[i].boot
        <5> SUFFICES ASSUME NEW q \in H, NameAt(files, q) = e[i].boot PROVE FALSE
          OBVIOUS
        <5>1. PICK k \in 1..Len(NamesOf(d)) : NamesOf(d)[k] = NameAt(files, q)
          BY <1>1 DEF InOrderSeen, SeenAt
        <5>2. Len(NamesOf(d)) = Len(d) /\ \A j \in 1..Len(d) : NamesOf(d)[j] = d[j].boot
          <6> HIDE DEF d
          <6> QED
            BY <1>2, NamesAreNames DEF IsBook
        <5> QED
          BY <3>3, <5>1, <5>2 DEF Named
      <4>4. NameAt(files, p) = e[i].boot
        BY <2>2, <4>1 DEF SameHead, NameAt
      <4>5. /\ e[i].file = id /\ e[i].offset = n + 1 /\ e[i].wall = item.wall /\ e[i].timebase = item.timebase
            /\ id \in 1..id /\ n + 1 # 0
        BY <2>2, <4>1 DEF SameHead
      <4>6. \A q \in H2 : NameAt(files, q) = e[i].boot => q = p
        BY <2>6, <4>3
      <4>7. p \in H2
        BY <2>6
      <4> HIDE DEF e, H2, p, H
      <4> QED
        BY <4>2, <4>4, <4>5, <4>6, <4>7 DEF HeadTold
    <3> QED
      BY <3>1, <3>2, <3>3 DEF HeadFrom
  <2> HIDE DEF e, H2, R2, d
  <2>11. BookTold(e, H2, R2, files, src, id)
    BY <2>5, <2>8, <2>10 DEF BookTold
  <2>12. IsBook(t.dict) /\ IsBook(t.open) /\ Len(t.open) <= 1 /\ LastHeader(files, f, n + 1, t.open)
    BY <1>2, <2>3, <2>4, <2>7 DEF d
  <2>13. ~t.stop => LastHeader(files, f, n + 1, t.open) /\ \A b : RisesIn(src, e, files, R2, b)
    BY <2>9, <2>12
  <2> QED
    BY <2>11, <2>12, <2>13 DEF WalkTold, e, H2, R2, t, item
<1>12. CASE ~s.stop /\ item.is = "bad"
  <2>1. t = [dict |-> d, open |-> s.open, stop |-> TRUE]
    <3>1. t = [s EXCEPT !.dict = d, !.stop = TRUE]
      BY <1>12 DEF WalkItem
    <3> HIDE DEF t, d
    <3> QED
      BY <3>1, <1>1
  <2>2. t.dict = d /\ t.open = s.open /\ t.stop
    BY <2>1
  <2> HIDE DEF t
  <2>3. IsBook(e) /\ \A b : RecordsIn(e, b) = RecordsIn(d, b) \o RecordsIn(s.open, b)
    <3> HIDE DEF d
    <3> QED
      BY <1>2, <2>2, BooksMerged
  <2>4. \A b : RecordsIn(d, b) = RecordsIn(s.dict, b) \o RecordsIn(s.open, b)
    BY <1>2, BooksMerged
  <2>5. H2 = H /\ \A b : OwnedBy(files, R2, b) = own(b)
    BY <1>3, <1>4, <1>12
  <2>6. ASSUME NEW b PROVE RecordsTold(RecordsIn(e, b), OwnedBy(files, R2, b), files, src, id)
    <3> DEFINE x == RecordsIn(s.dict, b)
               y == RecordsIn(s.open, b)
    <3>1. x \in Seq(Range(x)) /\ y \in Seq(Range(y)) /\ RecordsIn(d, b) \in Seq(Range(RecordsIn(d, b)))
      BY <1>2, BookIsRead
    <3>2. RecordsIn(d, b) = x \o y /\ RecordsIn(e, b) = (x \o y) \o y
      BY <2>3, <2>4
    <3>3. /\ \A j \in 1..Len(x \o y) : RecordTold((x \o y)[j], files, src, id)
          /\ Rising(PlacesOf(src, x \o y), own(b))
      BY <1>2, <1>12, <3>2 DEF RecordsTold, RisesIn
    <3> HIDE DEF x, y, own, d, e
    <3>4. PlacesOf(src, x \o y) = PlacesOf(src, x) \o PlacesOf(src, y)
      BY <3>1, PlacesJoined
    <3>5. PlacesOf(src, (x \o y) \o y) = (PlacesOf(src, x) \o PlacesOf(src, y)) \o PlacesOf(src, y)
      <4> DEFINE xy == x \o y
      <4>1. xy \in Seq(Range(xy)) /\ y \in Seq(Range(y))
        BY <3>1, <3>2
      <4> HIDE DEF xy
      <4>2. PlacesOf(src, xy \o y) = PlacesOf(src, xy) \o PlacesOf(src, y)
        BY <4>1, PlacesJoined
      <4> QED
        BY <3>4, <4>2 DEF xy
    <3> DEFINE X == Range(x) \cup Range(y)
    <3>6. x \in Seq(X) /\ y \in Seq(X)
      BY <3>1
    <3>7. Follows(PlacesOf(src, (x \o y) \o y), own(b))
      <4> DEFINE px == PlacesOf(src, x)
                 py == PlacesOf(src, y)
                 n1 == Len(x)
                 n2 == Len(y)
      <4>1. Rising(px \o py, own(b))
        BY <3>3, <3>4
      <4>2. \A z \in Seq(X) : PlacesOf(src, z) \in Seq({ PlaceIn(src, w) : w \in X }) /\ Len(PlacesOf(src, z)) = Len(z)
        <5> SUFFICES ASSUME NEW z \in Seq(X)
                     PROVE  PlacesOf(src, z) \in Seq({ PlaceIn(src, w) : w \in X }) /\ Len(PlacesOf(src, z)) = Len(z)
          OBVIOUS
        <5>1. Len(z) \in Nat /\ \A j \in 1..Len(z) : PlaceIn(src, z[j]) \in { PlaceIn(src, w) : w \in X }
          <6>1. \A j \in 1..Len(z) : z[j] \in X
            BY ElementOfSeq
          <6> HIDE DEF X
          <6> QED
            BY <6>1, LenProperties
        <5> HIDE DEF X
        <5> QED
          BY <5>1 DEF PlacesOf
      <4> HIDE DEF px, py, X
      <4>3. px \in Seq({ PlaceIn(src, w) : w \in X }) /\ py \in Seq({ PlaceIn(src, w) : w \in X })
        BY <3>6, <4>2 DEF px, py
      <4>4. px \in Seq(own(b)) /\ py \in Seq(own(b))
        <5> DEFINE Y == { PlaceIn(src, w) : w \in X }
                   all == px \o py
        <5>1. px \in Seq(Y) /\ py \in Seq(Y)
          BY <4>3
        <5> HIDE DEF Y
        <5>2. /\ Len(px) \in Nat /\ Len(py) \in Nat
              /\ \A i \in 1..Len(px) : i \in 1..Len(all) /\ all[i] = px[i]
              /\ \A i \in 1..Len(py) : Len(px) + i \in 1..Len(all) /\ all[Len(px) + i] = py[i]
          BY <5>1, PartsOfJoined
        <5> HIDE DEF all
        <5>3. all \in Seq(own(b))
          BY <4>1 DEF Rising, all
        <5>4. \A i \in 1..Len(all) : all[i] \in own(b)
          BY <5>3, ElementOfSeq
        <5>5. (\A i \in 1..Len(px) : px[i] \in own(b)) /\ (\A i \in 1..Len(py) : py[i] \in own(b))
          BY <5>2, <5>4
        <5>6. px = [i \in 1..Len(px) |-> px[i]] /\ py = [i \in 1..Len(py) |-> py[i]]
          BY <5>1
        <5> QED
          BY <5>2, <5>5, <5>6, SMTT(30)
      <4>5. own(b) \subseteq Nat \X Nat
        BY <1>4
      <4>6. Follows((px \o py) \o py, own(b))
        BY <4>1, <4>4, <4>5, RepeatedFollows
      <4> QED
        BY <3>5, <4>6 DEF px, py
    <3>8. \A j \in 1..Len((x \o y) \o y) : RecordTold(((x \o y) \o y)[j], files, src, id)
      <4> DEFINE xy == x \o y
      <4> HIDE DEF X
      <4>1. /\ xy \in Seq(X) /\ Len(xy) = Len(x) + Len(y) /\ Len(x) \in Nat /\ Len(y) \in Nat
            /\ \A i \in 1..Len(y) : Len(x) + i \in 1..Len(xy) /\ xy[Len(x) + i] = y[i]
        BY <3>6, PartsOfJoined
      <4> HIDE DEF xy
      <4> DEFINE all == xy \o y
      <4>2. /\ \A i \in 1..Len(xy) : all[i] = xy[i]
            /\ \A i \in 1..Len(y) : all[Len(xy) + i] = y[i]
            /\ \A i \in 1..Len(all) : i \in 1..Len(xy) \/ \E j \in 1..Len(y) : i = Len(xy) + j
        <5>1. xy \in Seq(X) /\ y \in Seq(X)
          BY <3>6, <4>1
        <5> QED
          BY <5>1, PartsOfJoined
      <4> HIDE DEF all
      <4>3. \A j \in 1..Len(xy) : RecordTold(xy[j], files, src, id)
        BY <3>3 DEF xy
      <4>4. \A i \in 1..Len(y) : RecordTold(y[i], files, src, id)
        BY <4>1, <4>3
      <4>5. \A j \in 1..Len(all) : RecordTold(all[j], files, src, id)
        BY <4>2, <4>3, <4>4
      <4> QED
        BY <4>5 DEF all, xy
    <3> QED
      BY <2>5, <3>2, <3>7, <3>8 DEF RecordsTold
  <2>7. ASSUME NEW i \in 1..Len(e) PROVE HeadTold(e[i], H2, files, src, id)
    <3>1. HeadFrom(d, s.open, e[i])
      <4> HIDE DEF d
      <4> QED
        BY <1>2, <2>2, HeadsMerged
    <3>2. \A j \in 1..Len(s.open) : Named(d, s.open[j].boot)
      BY <1>2, BooksMerged
    <3>3. \E j \in 1..Len(d) : SameHead(e[i], d[j])
      <4> HIDE DEF d, e
      <4> QED
        BY <3>1, <3>2 DEF HeadFrom, SameHead
    <3>4. HeadTold(e[i], H \cup {}, files, src, id)
      <4> HIDE DEF d, e, H
      <4> QED
        BY <1>2, <3>3, HeadsStayTold
    <3>5. H \cup {} = H
      OBVIOUS
    <3> QED
      BY <2>5, <3>4, <3>5
  <2> HIDE DEF e, H2, R2, d
  <2>8. BookTold(e, H2, R2, files, src, id)
    BY <2>3, <2>6, <2>7 DEF BookTold
  <2>9. IsBook(t.dict) /\ IsBook(t.open) /\ Len(t.open) <= 1
    BY <1>2, <2>2 DEF d
  <2>10. ~t.stop => LastHeader(files, f, n + 1, t.open) /\ \A b : RisesIn(src, e, files, R2, b)
    BY <2>2
  <2> QED
    BY <2>8, <2>9, <2>10 DEF WalkTold, e, H2, R2, t, item
<1> QED
  BY <1>5, <1>7, <1>8, <1>9, <1>10, <1>11, <1>12

\* parse_timesync_file: the dict of a file tells its readable headers and records.
LEMMA FileIsTold ==
  ASSUME NEW files, NEW f \in Nat, NEW id \in Nat \ {0}, NEW src, src[id] = f, Len(files[f]) \in Nat,
         \A i \in 1..Len(files[f]) :
           files[f][i].is \in Kinds /\ (files[f][i].is = "record" => files[f][i].kernel \in Nat)
  PROVE  LET found == ParseTimesync(files[f], id)
             m     == Len(files[f])
         IN  /\ BookTold(found, HeadsIn(files, f, m), RecsIn(files, f, m), files, src, id)
             /\ InOrderSeen(NamesOf(found), HeadsIn(files, f, m), files)
<1> DEFINE m == Len(files[f])
           w == WalkItems(files[f], id)
           S == { n \in 0..m : WalkHolds(w[n], files, f, n) /\ WalkTold(w[n], files, f, n, id, src) }
<1>1. /\ w[0] = StartWalk
      /\ \A n \in 1..m : w[n] = WalkItem(w[n - 1], files[f][n], n, id)
  BY WalkIsALoop
<1> HIDE DEF w
<1>2. 0 \in S
  BY <1>1, WalkStarts, NothingTold
<1>3. ASSUME NEW n \in 0..(m - 1), n \in S
      PROVE  n + 1 \in S
  <2>1. n + 1 \in 1..m /\ n + 1 - 1 = n /\ n \in Nat
    OBVIOUS
  <2>2. w[n + 1] = WalkItem(w[n], files[f][n + 1], n + 1, id)
    BY <1>1, <2>1
  <2>3. /\ files[f][n + 1].is \in Kinds /\ WalkHolds(w[n], files, f, n)
        /\ WalkTold(w[n], files, f, n, id, src)
        /\ (files[f][n + 1].is = "record" => files[f][n + 1].kernel \in Nat)
    BY <1>3, <2>1
  <2>4. WalkHolds(w[n + 1], files, f, n + 1)
    BY <2>1, <2>2, <2>3, WalkSteps
  <2>5. WalkTold(w[n + 1], files, f, n + 1, id, src)
    BY <2>1, <2>2, <2>3, WalkTells
  <2> QED
    BY <2>1, <2>4, <2>5
<1> HIDE DEF S
<1>4. m \in S
  <2>1. \A n \in 0..m : n \in S
    BY <1>2, <1>3, CountingUp
  <2> QED
    BY <2>1
<1>5. WalkHolds(w[m], files, f, m) /\ WalkTold(w[m], files, f, m, id, src)
  BY <1>4 DEF S
<1>6. ParseTimesync(files[f], id) = MergeDicts(w[m].dict, w[m].open)
  BY DEF ParseTimesync, w
<1> QED
  BY <1>5, <1>6 DEF WalkHolds, WalkTold

\* Records of two parts.
LEMMA RecordsOfBoth ==
  ASSUME NEW r, NEW s, NEW R, NEW S, NEW files, NEW src, NEW ids,
         r \in Seq(Range(r)), s \in Seq(Range(s)), R \subseteq Nat \X Nat, S \subseteq Nat \X Nat,
         RecordsTold(r, R, files, src, ids), RecordsTold(s, S, files, src, ids),
         \A p \in R, q \in S : Earlier(p, q)
  PROVE  RecordsTold(r \o s, R \cup S, files, src, ids)
<1> DEFINE all == r \o s
           X == Range(r) \cup Range(s)
<1>1. r \in Seq(X) /\ s \in Seq(X)
  OBVIOUS
<1> HIDE DEF X
<1>2. /\ \A i \in 1..Len(r) : all[i] = r[i]
      /\ \A i \in 1..Len(s) : all[Len(r) + i] = s[i]
      /\ \A i \in 1..Len(all) : i \in 1..Len(r) \/ \E j \in 1..Len(s) : i = Len(r) + j
  BY <1>1, PartsOfJoined
<1> HIDE DEF all
<1>3. \A j \in 1..Len(all) : RecordTold(all[j], files, src, ids)
  <2>1. /\ \A j \in 1..Len(r) : RecordTold(r[j], files, src, ids)
        /\ \A j \in 1..Len(s) : RecordTold(s[j], files, src, ids)
    BY DEF RecordsTold
  <2> QED
    BY <1>2, <2>1
<1>4. PlacesOf(src, all) = PlacesOf(src, r) \o PlacesOf(src, s)
  BY PlacesJoined DEF all
<1>5. Follows(PlacesOf(src, r), R) /\ Follows(PlacesOf(src, s), S)
  BY DEF RecordsTold
<1>6. Follows(PlacesOf(src, all), R \cup S)
  BY <1>4, <1>5, FollowsOn
<1>7. RecordsTold(all, R \cup S, files, src, ids)
  BY <1>3, <1>6 DEF RecordsTold
<1> QED
  BY <1>7 DEF all

\* merge_timesync_dicts: a dict of later files merged into one of earlier files.
LEMMA MergedTold ==
  ASSUME NEW base, NEW new, NEW H, NEW T, NEW P, NEW Q, NEW files, NEW src, NEW ids,
         BookTold(base, H, P, files, src, ids), BookTold(new, T, Q, files, src, ids),
         P \subseteq Nat \X Nat, Q \subseteq Nat \X Nat,
         \A p \in H, q \in T : Earlier(p, q), \A p \in P, q \in Q : Earlier(p, q),
         \A q \in H : Named(base, NameAt(files, q))
  PROVE  BookTold(MergeDicts(base, new), H \cup T, P \cup Q, files, src, ids)
<1> DEFINE d == MergeDicts(base, new)
<1>1. IsBook(base) /\ IsBook(new)
  BY DEF BookTold
<1>2. IsBook(d) /\ \A b : RecordsIn(d, b) = RecordsIn(base, b) \o RecordsIn(new, b)
  BY <1>1, BooksMerged
<1>3. \A i \in 1..Len(d) : HeadFrom(base, new, d[i])
  BY <1>1, HeadsMerged
<1> HIDE DEF d
<1>4. ASSUME NEW i \in 1..Len(d) PROVE HeadTold(d[i], H \cup T, files, src, ids)
  <2>1. CASE \E j \in 1..Len(base) : SameHead(d[i], base[j])
    <3>1. \A j \in 1..Len(base) : HeadTold(base[j], H, files, src, ids)
      BY DEF BookTold
    <3> QED
      BY <2>1, <3>1, HeadsStayTold
  <2>2. CASE ~Named(base, d[i].boot) /\ \E j \in 1..Len(new) : SameHead(d[i], new[j])
    <3>1. PICK j \in 1..Len(new) : SameHead(d[i], new[j])
      BY <2>2
    <3>2. HeadTold(new[j], T, files, src, ids)
      BY DEF BookTold
    <3>3. \A q \in H : NameAt(files, q) # d[i].boot
      BY <2>2
    <3>4. PlaceIn(src, d[i]) = PlaceIn(src, new[j])
      BY <3>1 DEF SameHead, PlaceIn
    <3> QED
      BY <3>1, <3>2, <3>3, <3>4 DEF HeadTold, SameHead
  <2> QED
    BY <1>3, <2>1, <2>2 DEF HeadFrom
<1>5. ASSUME NEW b PROVE RecordsTold(RecordsIn(d, b), OwnedBy(files, P \cup Q, b), files, src, ids)
  <2> DEFINE r == RecordsIn(base, b)
             s == RecordsIn(new, b)
             R == OwnedBy(files, P, b)
             S == OwnedBy(files, Q, b)
  <2>1. r \in Seq(Range(r)) /\ s \in Seq(Range(s))
    BY <1>1, BookIsRead
  <2>2. RecordsTold(r, R, files, src, ids) /\ RecordsTold(s, S, files, src, ids)
    BY DEF BookTold
  <2>3. /\ R \subseteq P /\ S \subseteq Q
        /\ OwnedBy(files, P \cup Q, b) = R \cup S
    BY DEF OwnedBy
  <2>4. RecordsIn(d, b) = r \o s
    BY <1>2
  <2> HIDE DEF r, s, R, S
  <2>5. R \subseteq Nat \X Nat /\ S \subseteq Nat \X Nat /\ \A p \in R, q \in S : Earlier(p, q)
    BY <2>3
  <2>6. RecordsTold(r \o s, R \cup S, files, src, ids)
    BY <2>1, <2>2, <2>5, RecordsOfBoth
  <2> QED
    BY <2>3, <2>4, <2>6
<1> QED
  BY <1>2, <1>4, <1>5 DEF BookTold, d

\* A file without boots adds nothing.
LEMMA NothingMerged ==
  ASSUME NEW d, IsBook(d)
  PROVE  MergeDicts(d, <<>>) = d
<1>1. d \in Seq(Range(d)) /\ Len(d) \in Nat /\ DOMAIN d = 1..Len(d) /\ \A i \in 1..Len(d) : IsEntryOfBook(d[i])
  BY BookIsRead DEF IsBook, IsDict
<1>2. \A b : RecordsIn(<<>>, b) = <<>>
  BY DEF RecordsIn, IndexOf
<1>3. ASSUME NEW i \in 1..Len(d)
      PROVE  [d[i] EXCEPT !.records = @ \o RecordsIn(<<>>, d[i].boot)] = d[i]
  <2> DEFINE x == d[i]
             rs == x.records \o RecordsIn(<<>>, x.boot)
  <2>1. rs = x.records
    <3>1. x.records \in Seq(Range(x.records))
      BY <1>1 DEF IsEntryOfBook
    <3> HIDE DEF x
    <3> QED
      BY <1>2, <3>1, ConcatEmptySeq
  <2>2. x = [boot |-> x.boot, timebase |-> x.timebase, wall |-> x.wall, offset |-> x.offset,
             file |-> x.file, records |-> x.records]
    BY <1>1 DEF IsEntryOfBook
  <2> DEFINE y == [x EXCEPT !.records = @ \o RecordsIn(<<>>, x.boot)]
  <2>3. y = [x EXCEPT !.records = rs]
    OBVIOUS
  <2> HIDE DEF x, rs, y
  <2>4. y = [boot |-> x.boot, timebase |-> x.timebase, wall |-> x.wall, offset |-> x.offset,
             file |-> x.file, records |-> rs]
    BY <2>2, <2>3
  <2>5. y = x
    BY <2>1, <2>2, <2>4
  <2> QED
    BY <2>5 DEF y, x
<1>4. [i \in DOMAIN d |-> [d[i] EXCEPT !.records = @ \o RecordsIn(<<>>, d[i].boot)]] = d
  <2>1. d = [i \in 1..Len(d) |-> d[i]]
    BY <1>1
  <2>2. [i \in DOMAIN d |-> [d[i] EXCEPT !.records = @ \o RecordsIn(<<>>, d[i].boot)]] = [i \in 1..Len(d) |-> d[i]]
    BY <1>1, <1>3
  <2> QED
    BY <2>1, <2>2
<1>5. NewIn(d, <<>>) = <<>>
  <2>1. { x \in Range(<<>>) : IndexOf(d, x.boot) # {} } = {}
    BY DEF Range
  <2>2. Without(<<>>, {}) = <<>>
    <3>1. <<>> \in Seq({}) /\ \A i \in 1..Len(<<>>) : <<>>[i] \in {}
      OBVIOUS
    <3> QED
      BY <3>1, NothingLeft
  <2> QED
    BY <2>1, <2>2 DEF NewIn
<1>6. d \o <<>> = d
  BY <1>1, ConcatEmptySeq
<1> QED
  BY <1>4, <1>5, <1>6 DEF MergeDicts

\* What was told of the files registered stays told when another one is.
LEMMA ToldWithMore ==
  ASSUME NEW d, NEW H, NEW P, NEW files, NEW src, NEW more, NEW ids \in Nat, NEW ids2 \in Nat,
         BookTold(d, H, P, files, src, ids), ids <= ids2, \A k \in 1..ids : more[k] = src[k]
  PROVE  BookTold(d, H, P, files, more, ids2)
<1>1. \A k \in 1..ids : k \in 1..ids2
  OBVIOUS
<1>2. ASSUME NEW i \in 1..Len(d) PROVE HeadTold(d[i], H, files, more, ids2)
  <2>1. HeadTold(d[i], H, files, src, ids)
    BY DEF BookTold
  <2>2. PlaceIn(more, d[i]) = PlaceIn(src, d[i]) /\ d[i].file \in 1..ids
    BY <2>1 DEF HeadTold, PlaceIn
  <2> QED
    BY <1>1, <2>1, <2>2 DEF HeadTold
<1>3. ASSUME NEW b PROVE RecordsTold(RecordsIn(d, b), OwnedBy(files, P, b), files, more, ids2)
  <2> DEFINE rs == RecordsIn(d, b)
             R == OwnedBy(files, P, b)
  <2>1. RecordsTold(rs, R, files, src, ids)
    BY DEF BookTold
  <2> HIDE DEF rs, R
  <2>2. \A j \in 1..Len(rs) : rs[j].file \in 1..ids /\ PlaceIn(more, rs[j]) = PlaceIn(src, rs[j])
    BY <2>1 DEF RecordsTold, RecordTold, PlaceIn
  <2>3. PlacesOf(more, rs) = PlacesOf(src, rs)
    BY <2>2 DEF PlacesOf
  <2>4. \A j \in 1..Len(rs) : RecordTold(rs[j], files, more, ids2)
    BY <1>1, <2>1, <2>2 DEF RecordsTold, RecordTold
  <2> QED
    BY <2>1, <2>3, <2>4 DEF RecordsTold, rs, R
<1> QED
  BY <1>2, <1>3 DEF BookTold

-----------------------------------------------------------------------------
(* The anchors: the table of those wanted.                                 *)

\* h joins the first i of the sequences, for every i.
JoinsUpTo(h, seqs) == h = [i \in 1..Len(seqs) |-> IF i = 1 THEN seqs[i] ELSE h[i - 1] \o seqs[i]]

\* g[i] is the first i of the n sequences in one.
Joined(g, n, T, seqs) ==
  /\ g \in [0..n -> Seq(T)] /\ g[0] = <<>>
  /\ \A i \in 1..n : g[i] = g[i - 1] \o seqs[i]
  /\ n > 0 => FlattenSeq(seqs) = g[n]

\* FlattenSeq joins its sequences one after the other.
LEMMA Flattened ==
  ASSUME NEW T, NEW n \in Nat, NEW seqs, Len(seqs) = n, \A i \in 1..n : seqs[i] \in Seq(T)
  PROVE  \E g : Joined(g, n, T, seqs)
<1> DEFINE step == [p \in (1..n) \X Seq(T) |-> p[2] \o seqs[p[1]]]
<1>1. step \in [(1..n) \X Seq(T) -> Seq(T)]
  <2>1. \A p \in (1..n) \X Seq(T) : p[2] \o seqs[p[1]] \in Seq(T)
    BY ConcatProperties
  <2> QED
    BY <2>1
<1>2. \E g : Loops(g, n, Seq(T), <<>>, step)
  <2> HIDE DEF step
  <2>1. <<>> \in Seq(T)
    OBVIOUS
  <2> QED
    BY <1>1, <2>1, LoopsEnd
<1>3. PICK g : Loops(g, n, Seq(T), <<>>, step)
  BY <1>2
<1>4. g \in [0..n -> Seq(T)] /\ g[0] = <<>> /\ \A i \in 1..n : g[i] = step[<<i, g[i - 1]>>]
  BY <1>3 DEF Loops
<1>5. \A i \in 1..n : g[i] = g[i - 1] \o seqs[i] /\ g[i - 1] \in Seq(T)
  <2> SUFFICES ASSUME NEW i \in 1..n PROVE g[i] = g[i - 1] \o seqs[i] /\ g[i - 1] \in Seq(T)
    OBVIOUS
  <2>1. g[i - 1] \in Seq(T)
    BY <1>4
  <2>2. <<i, g[i - 1]>> \in (1..n) \X Seq(T)
    BY <2>1
  <2> QED
    BY <1>4, <2>1, <2>2
<1> HIDE DEF step
<1>6. ASSUME n > 0 PROVE FlattenSeq(seqs) = g[n]
  <2>1. 1 \in 1..n /\ g[1] = seqs[1]
    <3>1. 1 \in 1..n
      BY <1>6
    <3>2. g[1] = g[1 - 1] \o seqs[1] /\ seqs[1] \in Seq(T)
      BY <1>5, <3>1
    <3>3. g[1] = <<>> \o seqs[1]
      <4>1. 1 - 1 = 0
        OBVIOUS
      <4> QED
        BY <1>4, <3>2, <4>1
    <3>4. <<>> \o seqs[1] = seqs[1]
      BY <3>2, ConcatEmptySeq
    <3> QED
      BY <3>1, <3>3, <3>4
  <2> DEFINE h == [i \in 1..n |-> g[i]]
             flat == CHOOSE x : JoinsUpTo(x, seqs)
  <2>2. JoinsUpTo(h, seqs)
    <3>1. \A i \in 1..n : h[i] = IF i = 1 THEN seqs[i] ELSE h[i - 1] \o seqs[i]
      <4> SUFFICES ASSUME NEW i \in 1..n PROVE h[i] = IF i = 1 THEN seqs[i] ELSE h[i - 1] \o seqs[i]
        OBVIOUS
      <4>1. CASE i = 1
        BY <2>1, <4>1
      <4>2. CASE i # 1
        <5>1. i - 1 \in 1..n
          BY <4>2
        <5>2. h[i - 1] = g[i - 1] /\ h[i] = g[i]
          BY <5>1
        <5> HIDE DEF h
        <5> QED
          BY <1>5, <4>2, <5>2
      <4> QED
        BY <4>1, <4>2
    <3>2. h = [i \in 1..n |-> h[i]]
      OBVIOUS
    <3> HIDE DEF h
    <3> QED
      BY <3>1, <3>2 DEF JoinsUpTo
  <2>3. JoinsUpTo(flat, seqs)
    <3> HIDE DEF h
    <3> QED
      BY <2>2
  <2>4. FlattenSeq(seqs) = flat[n]
    BY <1>6 DEF FlattenSeq, JoinsUpTo
  <2> HIDE DEF flat
  <2>5. \A i \in 1..n : flat[i] = IF i = 1 THEN seqs[i] ELSE flat[i - 1] \o seqs[i]
    BY <2>3 DEF JoinsUpTo
  <2> DEFINE S == { i \in 0..n : i > 0 => flat[i] = g[i] }
  <2>6. 0 \in S
    OBVIOUS
  <2>7. ASSUME NEW i \in 0..(n - 1), i \in S PROVE i + 1 \in S
    <3>1. i + 1 \in 1..n /\ i + 1 - 1 = i
      OBVIOUS
    <3>2. flat[i + 1] = g[i + 1]
      <4>1. CASE i = 0
        <5>1. flat[1] = seqs[1]
          BY <2>1, <2>5
        <5>2. i + 1 = 1
          BY <4>1
        <5> QED
          BY <2>1, <5>1, <5>2
      <4>2. CASE i # 0
        <5>1. flat[i] = g[i] /\ i + 1 # 1
          BY <2>7, <4>2
        <5> DEFINE k == i + 1
        <5>4. k \in 1..n /\ k # 1 /\ k - 1 = i
          BY <3>1, <5>1
        <5> HIDE DEF k
        <5>2. flat[k] = flat[k - 1] \o seqs[k]
          BY <2>5, <5>4
        <5>3. g[k] = g[k - 1] \o seqs[k]
          BY <1>5, <5>4
        <5> QED
          BY <5>1, <5>2, <5>3, <5>4 DEF k
      <4> QED
        BY <4>1, <4>2
    <3> QED
      BY <3>1, <3>2
  <2> HIDE DEF S
  <2>8. \A i \in 0..n : i \in S
    BY <2>6, <2>7, CountingUp
  <2>9. flat[n] = g[n]
    BY <1>6, <2>8 DEF S
  <2> QED
    BY <2>4, <2>9
<1>7. Joined(g, n, T, seqs)
  BY <1>4, <1>5, <1>6 DEF Joined
<1> QED
  BY <1>7

\* FlattenSeq has every element of every part.
LEMMA AllFlattened ==
  ASSUME NEW T, NEW n \in Nat, NEW seqs, Len(seqs) = n, \A i \in 1..n : seqs[i] \in Seq(T)
  PROVE  /\ n > 0 => FlattenSeq(seqs) \in Seq(T)
         /\ \A i \in 1..n : \A j \in 1..Len(seqs[i]) :
              \E k \in 1..Len(FlattenSeq(seqs)) : FlattenSeq(seqs)[k] = seqs[i][j]
<1>1. PICK g : Joined(g, n, T, seqs)
  BY Flattened
<1>2. /\ g \in [0..n -> Seq(T)] /\ g[0] = <<>>
      /\ \A i \in 1..n : g[i] = g[i - 1] \o seqs[i]
      /\ n > 0 => FlattenSeq(seqs) = g[n]
  BY <1>1 DEF Joined
<1> DEFINE Has(m, x) == \E k \in 1..Len(g[m]) : g[m][k] = x
           S == { m \in 0..n : \A i \in 1..m : \A j \in 1..Len(seqs[i]) : Has(m, seqs[i][j]) }
<1>3. 0 \in S
  OBVIOUS
<1>4. ASSUME NEW m \in 0..(n - 1), m \in S PROVE m + 1 \in S
  <2> DEFINE l == m + 1
  <2>1. l \in 1..n /\ l - 1 = m /\ l \in 0..n /\ m \in 0..n /\ \A i \in 1..l : i \in 1..m \/ i = l
    OBVIOUS
  <2> HIDE DEF l
  <2>2. g[l] = g[m] \o seqs[l] /\ g[m] \in Seq(T) /\ seqs[l] \in Seq(T)
    BY <1>2, <2>1
  <2>3. g[m] \in Seq(T) /\ seqs[l] \in Seq(T)
    BY <2>2
  <2>4. /\ \A i \in 1..Len(g[m]) : i \in 1..Len(g[l]) /\ g[l][i] = g[m][i]
        /\ \A i \in 1..Len(seqs[l]) : Len(g[m]) + i \in 1..Len(g[l]) /\ g[l][Len(g[m]) + i] = seqs[l][i]
    <3> DEFINE u == g[m]
               v == seqs[l]
    <3>1. u \in Seq(T) /\ v \in Seq(T)
      BY <2>3
    <3> HIDE DEF u, v
    <3>2. /\ \A i \in 1..Len(u) : i \in 1..Len(u \o v) /\ (u \o v)[i] = u[i]
          /\ \A i \in 1..Len(v) : Len(u) + i \in 1..Len(u \o v) /\ (u \o v)[Len(u) + i] = v[i]
      BY <3>1, PartsOfJoined, SMTT(30)
    <3> QED
      BY <2>2, <3>2 DEF u, v
  <2>5. \A x : Has(m, x) => Has(l, x)
    BY <2>4
  <2>6. \A j \in 1..Len(seqs[l]) : Has(l, seqs[l][j])
    BY <2>4
  <2>7. \A i \in 1..m : \A j \in 1..Len(seqs[i]) : Has(m, seqs[i][j])
    BY <1>4
  <2> HIDE DEF Has
  <2>8. \A i \in 1..l : \A j \in 1..Len(seqs[i]) : Has(l, seqs[i][j])
    BY <2>1, <2>5, <2>6, <2>7
  <2>9. l \in S
    BY <2>1, <2>8
  <2> QED
    BY <2>9 DEF l
<1> HIDE DEF S
<1>5. n \in S
  <2>1. \A m \in 0..n : m \in S
    BY <1>3, <1>4, CountingUp
  <2> QED
    BY <2>1
<1>6. \A i \in 1..n : \A j \in 1..Len(seqs[i]) : Has(n, seqs[i][j])
  BY <1>5 DEF S
<1>7. n > 0 => FlattenSeq(seqs) \in Seq(T)
  BY <1>2
<1> HIDE DEF Has
<1>8. ASSUME NEW i \in 1..n, NEW j \in 1..Len(seqs[i])
      PROVE  \E k \in 1..Len(FlattenSeq(seqs)) : FlattenSeq(seqs)[k] = seqs[i][j]
  <2>1. n > 0 /\ Has(n, seqs[i][j])
    BY <1>6
  <2>2. FlattenSeq(seqs) = g[n]
    BY <1>2, <2>1
  <2> QED
    BY <2>1, <2>2 DEF Has
<1> QED
  BY <1>7, <1>8

\* get_or_insert_timesync_anchor, called for each anchor wanted: it is there afterwards.
SamePlace(x, y) == x.file = y.file /\ x.offset = y.offset
InsertsUpTo(t, wanted, m) ==
  t = [n \in 0..m |-> IF n = 0 THEN <<>> ELSE InsertAnchor(t[n - 1], wanted[n])]
\* By the end every anchor wanted is in the table, whatever the table was after each.
LEMMA InsertsAreThere ==
  ASSUME NEW wanted, NEW m \in Nat, NEW T, \A n \in 1..m : wanted[n] \in T
  PROVE  /\ \E t : InsertsUpTo(t, wanted, m)
         /\ \A t : InsertsUpTo(t, wanted, m) =>
              t[0] = <<>> /\ \A n \in 1..m : t[n] = InsertAnchor(t[n - 1], wanted[n])
<1> DEFINE step == [p \in (1..m) \X Seq(T) |-> InsertAnchor(p[2], wanted[p[1]])]
<1>1. step \in [(1..m) \X Seq(T) -> Seq(T)]
  <2>1. ASSUME NEW p \in (1..m) \X Seq(T) PROVE InsertAnchor(p[2], wanted[p[1]]) \in Seq(T)
    <3>1. p[2] \in Seq(T) /\ wanted[p[1]] \in T
      OBVIOUS
    <3>2. Append(p[2], wanted[p[1]]) \in Seq(T)
      BY <3>1, AppendProperties
    <3> QED
      BY <3>1, <3>2 DEF InsertAnchor
  <2> QED
    BY <2>1
<1>2. <<>> \in Seq(T)
  OBVIOUS
<1> HIDE DEF step
<1>3. PICK t : Loops(t, m, Seq(T), <<>>, step)
  BY <1>1, <1>2, LoopsEnd
<1>4. /\ t \in [0..m -> Seq(T)] /\ t[0] = <<>>
      /\ \A n \in 1..m : t[n] = InsertAnchor(t[n - 1], wanted[n])
  <2>1. t \in [0..m -> Seq(T)] /\ t[0] = <<>> /\ \A n \in 1..m : t[n] = step[<<n, t[n - 1]>>]
    BY <1>3 DEF Loops
  <2>2. ASSUME NEW n \in 1..m PROVE step[<<n, t[n - 1]>>] = InsertAnchor(t[n - 1], wanted[n])
    <3>1. n - 1 \in 0..m /\ <<n, t[n - 1]>> \in (1..m) \X Seq(T)
      BY <2>1
    <3> QED
      BY <3>1 DEF step
  <2> QED
    BY <2>1, <2>2
<1>5. InsertsUpTo(t, wanted, m)
  <2>1. t = [n \in 0..m |-> t[n]]
    BY <1>4
  <2>2. ASSUME NEW n \in 0..m PROVE t[n] = IF n = 0 THEN <<>> ELSE InsertAnchor(t[n - 1], wanted[n])
    <3>1. n = 0 \/ n \in 1..m
      OBVIOUS
    <3> QED
      BY <1>4, <3>1
  <2> QED
    BY <2>1, <2>2 DEF InsertsUpTo
<1>6. ASSUME NEW u, InsertsUpTo(u, wanted, m)
      PROVE  u[0] = <<>> /\ \A n \in 1..m : u[n] = InsertAnchor(u[n - 1], wanted[n])
  <2>1. \A n \in 0..m : u[n] = IF n = 0 THEN <<>> ELSE InsertAnchor(u[n - 1], wanted[n])
    BY <1>6 DEF InsertsUpTo
  <2>2. 0 \in 0..m /\ \A n \in 1..m : n \in 0..m /\ n # 0
    OBVIOUS
  <2> QED
    BY <2>1, <2>2
<1> QED
  BY <1>5, <1>6

\* The table PreinsertAnchors leaves.
LEMMA AllInserted ==
  ASSUME NEW wanted, NEW T, wanted \in Seq(T)
  PROVE  /\ DOMAIN Inserted(wanted) = 1..Len(Inserted(wanted))
         /\ \A i \in 1..Len(wanted) : \E k \in 1..Len(Inserted(wanted)) : SamePlace(Inserted(wanted)[k], wanted[i])
<1> DEFINE m == Len(wanted)
           t == CHOOSE f : f = [n \in 0..m |-> IF n = 0 THEN <<>> ELSE InsertAnchor(f[n - 1], wanted[n])]
<1>1. m \in Nat /\ \A n \in 1..m : wanted[n] \in T
  BY LenProperties, ElementOfSeq
<1>2. Inserted(wanted) = t[m]
  BY DEF Inserted
<1>3. t = CHOOSE f : InsertsUpTo(f, wanted, m)
  BY DEF InsertsUpTo
<1> HIDE DEF t, m
<1>4. InsertsUpTo(t, wanted, m)
  BY <1>1, <1>3, InsertsAreThere
<1>5. t[0] = <<>> /\ \A n \in 1..m : t[n] = InsertAnchor(t[n - 1], wanted[n])
  BY <1>1, <1>4, InsertsAreThere
<1> DEFINE Has(n, x) == \E k \in 1..Len(t[n]) : SamePlace(t[n][k], x)
           S == { n \in 0..m : t[n] \in Seq(T) /\ \A i \in 1..n : Has(n, wanted[i]) }
<1>6. 0 \in S
  <2>1. t[0] \in Seq(T)
    BY <1>5
  <2> QED
    BY <1>1, <2>1
<1>7. ASSUME NEW n \in 0..(m - 1), n \in S PROVE n + 1 \in S
  <2> DEFINE l == n + 1
             a == wanted[l]
             s == t[n]
             u == t[l]
  <2>1. l \in 1..m /\ l - 1 = n /\ l \in 0..m /\ \A i \in 1..l : i \in 1..n \/ i = l
    BY <1>1
  <2> HIDE DEF l
  <2>2. u = InsertAnchor(s, a) /\ a \in T /\ s \in Seq(T)
    BY <1>1, <1>5, <1>7, <2>1
  <2>3. Len(s) \in Nat /\ DOMAIN s = 1..Len(s)
    BY <2>2, LenProperties
  <2>4. \A i \in 1..n : Has(n, wanted[i])
    BY <1>7
  <2> HIDE DEF a
  <2>5. CASE \E i \in DOMAIN s : s[i].file = a.file /\ s[i].offset = a.offset
    <3>1. u = s
      BY <2>2, <2>5 DEF InsertAnchor
    <3>2. Has(l, a)
      BY <2>3, <2>5, <3>1 DEF SamePlace
    <3>3. \A x : Has(n, x) => Has(l, x)
      BY <3>1
    <3> HIDE DEF Has
    <3>4. \A i \in 1..l : Has(l, wanted[i])
      BY <2>1, <2>4, <3>2, <3>3 DEF a
    <3>5. l \in S
      BY <2>1, <2>2, <3>1, <3>4
    <3> QED
      BY <3>5 DEF l
  <2>6. CASE ~(\E i \in DOMAIN s : s[i].file = a.file /\ s[i].offset = a.offset)
    <3>1. u = Append(s, a)
      BY <2>2, <2>6 DEF InsertAnchor
    <3> HIDE DEF s, u
    <3>2. /\ u \in Seq(T) /\ Len(u) = Len(s) + 1 /\ u[Len(s) + 1] = a
          /\ \A i \in 1..Len(s) : i \in 1..Len(u) /\ u[i] = s[i]
      <4>1. /\ Append(s, a) \in Seq(T) /\ Len(Append(s, a)) = Len(s) + 1 /\ Append(s, a)[Len(s) + 1] = a
            /\ \A i \in 1..Len(s) : Append(s, a)[i] = s[i]
        BY <2>2, AppendProperties
      <4>2. \A i \in 1..Len(s) : i \in 1..(Len(s) + 1)
        BY <2>3
      <4> QED
        BY <3>1, <4>1, <4>2
    <3>3. Has(l, a)
      <4>1. Len(s) + 1 \in 1..Len(u)
        BY <2>3, <3>2
      <4> QED
        BY <3>2, <4>1 DEF SamePlace, u
    <3>4. \A x : Has(n, x) => Has(l, x)
      BY <3>2 DEF s, u
    <3> HIDE DEF Has
    <3>5. \A i \in 1..l : Has(l, wanted[i])
      BY <2>1, <2>4, <3>3, <3>4 DEF a
    <3>6. l \in S
      BY <2>1, <3>2, <3>5 DEF u
    <3> QED
      BY <3>6 DEF l
  <2> QED
    BY <2>5, <2>6
<1> HIDE DEF S
<1>8. m \in S
  <2>1. \A n \in 0..m : n \in S
    BY <1>1, <1>6, <1>7, CountingUp
  <2> QED
    BY <1>1, <2>1
<1>9. t[m] \in Seq(T) /\ \A i \in 1..m : Has(m, wanted[i])
  BY <1>8 DEF S
<1>10. DOMAIN t[m] = 1..Len(t[m])
  BY <1>9, LenProperties
<1> QED
  BY <1>2, <1>9, <1>10 DEF m

-----------------------------------------------------------------------------
(* The invariant of the times, and its steps.                              *)

RecsTo(w) == UNION { RecsIn(Files, f, Len(Files[f])) : f \in (1..w) \ skipped }

\* The boots tell the records and headers of the files walked, under the ids of the files
\* registered; once there are anchors, each header and record has one; each row is what
\* the boots say of its entry.
Anchored(x) == \E k \in 1..Len(anchors) : SamePlace(anchors[k], x)
BooksHold ==
  /\ sources \in Seq(1..walked) /\ ranks = NamesOf(boots)
  /\ BookTold(boots, HeadsTo(walked), RecsTo(walked), Files, sources, Len(sources))
Parsing == tstep \in {"parse", "order", "done"}
AnchorsHold ==
  Parsing =>
    /\ DOMAIN anchors = 1..Len(anchors)
    /\ \A i \in 1..Len(boots) :
         Anchored(boots[i]) /\ \A j \in 1..Len(boots[i].records) : Anchored(boots[i].records[j])
EntryOf(row) == archive.tracev3[row.file][row.at]
LogsHold ==
  /\ ~Parsing => logs = <<>>
  /\ \A id \in 1..Len(logs) : logs[id] = RowOfEntry(EntryOf(logs[id]), logs[id].at, logs[id].file)
TimesInv == BooksHold /\ AnchorsHold /\ LogsHold

\* The records of the files walked are places of these files.
LEMMA RecordsArePlaces ==
  ASSUME NEW w \in Nat
  PROVE  /\ RecsTo(w) \subseteq Nat \X Nat
         /\ \A p \in RecsTo(w) : p[1] \in 1..w
<1>1. \A f \in 1..w : RecsIn(Files, f, Len(Files[f])) \subseteq Nat \X Nat
                      /\ \A p \in RecsIn(Files, f, Len(Files[f])) : p[1] = f
  BY DEF RecsIn
<1> QED
  BY <1>1 DEF RecsTo

\* A file walked: its boots are merged into those of the files before it.
LEMMA WalkKeepsBooks == RanksHold /\ BooksHold /\ WalkFile => BooksHold'
<1> SUFFICES ASSUME RanksHold, BooksHold, WalkFile PROVE BooksHold'
  OBVIOUS
<1> DEFINE f == walked + 1
           n == Len(sources)
           id == n + 1
           more == Append(sources, f)
           found == ParseTimesync(Files[f], id)
           heads == HeadsIn(Files, f, Len(Files[f]))
           recs == RecsIn(Files, f, Len(Files[f]))
           H == HeadsTo(walked)
           P == RecsTo(walked)
<1>1. /\ archive \in Archives /\ walked \in Nat /\ f \in 1..Len(Files) /\ f \in Nat
      /\ skipped \subseteq 1..walked /\ InOrderSeen(ranks, H, Files)
  BY ArchivesAreFiles DEF RanksHold, WalkFile
<1>2. /\ archive' = archive /\ walked' = f /\ skipped' = skipped
      /\ ranks' = ranks \o Without([i \in DOMAIN found |-> found[i].boot], Range(ranks))
      /\ boots' = MergeDicts(boots, found)
      /\ sources' = IF found = <<>> THEN sources ELSE more
  BY DEF WalkFile
<1>3. /\ sources \in Seq(1..walked) /\ ranks = NamesOf(boots)
      /\ BookTold(boots, H, P, Files, sources, n) /\ IsBook(boots)
  BY DEF BooksHold, BookTold
<1>4. /\ n \in Nat /\ id \in Nat \ {0} /\ n <= id
      /\ more \in Seq(1..f) /\ Len(more) = id /\ more[id] = f
      /\ \A k \in 1..n : more[k] = sources[k]
  <2>1. n \in Nat
    BY <1>3, LenProperties
  <2>2. sources \in Seq(1..f) /\ f \in 1..f
    <3>1. 1..walked \subseteq 1..f /\ f \in 1..f
      BY <1>1
    <3> QED
      BY <1>3, <3>1, SeqMonotonic
  <2> HIDE DEF f
  <2>3. /\ Append(sources, f) \in Seq(1..f) /\ Len(Append(sources, f)) = Len(sources) + 1
        /\ Append(sources, f)[Len(sources) + 1] = f
        /\ \A k \in 1..Len(sources) : Append(sources, f)[k] = sources[k]
    BY <2>2, AppendProperties
  <2> QED
    BY <2>1, <2>3
<1>5. BookTold(found, heads, recs, Files, more, id) /\ InOrderSeen(NamesOf(found), heads, Files)
  <2>1. /\ Len(Files[f]) \in Nat
        /\ \A i \in 1..Len(Files[f]) :
             Files[f][i].is \in Kinds /\ (Files[f][i].is = "record" => Files[f][i].kernel \in Nat)
    BY <1>1, TimelineAssumption DEF IsSequence, Files, Kinds, Ends
  <2> HIDE DEF f, id, more
  <2> QED
    BY <1>1, <1>4, <2>1, FileIsTold
<1> HIDE DEF found
<1>6. IsDict(found) /\ IsBook(found)
  BY <1>5 DEF BookTold, IsBook
<1>7. ranks' = NamesOf(boots')
  <2>1. [i \in DOMAIN found |-> found[i].boot] = NamesOf(found)
    <3>1. DOMAIN found = 1..Len(found)
      BY <1>6, LenProperties DEF IsDict
    <3> QED
      BY <3>1 DEF NamesOf
  <2>2. NamesOf(MergeDicts(boots, found)) = NamesOf(boots) \o Without(NamesOf(found), Range(NamesOf(boots)))
    BY <1>3, <1>6, MergeNames DEF IsBook
  <2> QED
    BY <1>2, <1>3, <2>1, <2>2
<1>8. /\ H \subseteq Nat \X Nat /\ P \subseteq Nat \X Nat
      /\ \A p \in H : p[1] \in 1..walked
      /\ \A p \in P : p[1] \in 1..walked
  BY <1>1, HeadsArePlaces, RecordsArePlaces
<1>9. /\ recs \subseteq Nat \X Nat
      /\ \A q \in heads : q[1] = f
      /\ \A q \in recs : q[1] = f
  BY <1>1 DEF HeadsIn, RecsIn
<1>10. Files' = Files
  BY <1>2 DEF Files
<1>11. HeadsTo(walked)' = H \cup heads /\ RecsTo(walked)' = P \cup recs
  <2>1. (1..walked') \ skipped' = ((1..walked) \ skipped) \cup {f}
    BY <1>1, <1>2
  <2>2. /\ HeadsTo(walked)' = UNION { HeadsIn(Files, g, Len(Files[g])) : g \in (1..walked') \ skipped' }
        /\ RecsTo(walked)' = UNION { RecsIn(Files, g, Len(Files[g])) : g \in (1..walked') \ skipped' }
    BY <1>10 DEF HeadsTo, RecsTo
  <2>3. HeadsTo(walked)' = H \cup heads
    BY <2>1, <2>2 DEF HeadsTo
  <2>4. RecsTo(walked)' = P \cup recs
    BY <2>1, <2>2 DEF RecsTo
  <2> QED
    BY <2>3, <2>4
<1>12. (\A p \in H, q \in heads : Earlier(p, q)) /\ (\A p \in P, q \in recs : Earlier(p, q))
  BY <1>1, <1>8, <1>9 DEF Earlier
<1>13. \A q \in H : Named(boots, NameAt(Files, q))
  <2> SUFFICES ASSUME NEW q \in H PROVE Named(boots, NameAt(Files, q))
    OBVIOUS
  <2>1. PICK k \in 1..Len(NamesOf(boots)) : NamesOf(boots)[k] = NameAt(Files, q)
    BY <1>1, <1>3 DEF InOrderSeen, SeenAt
  <2>2. Len(NamesOf(boots)) = Len(boots) /\ \A j \in 1..Len(boots) : NamesOf(boots)[j] = boots[j].boot
    BY <1>3, NamesAreNames DEF IsBook
  <2> QED
    BY <2>1, <2>2 DEF Named
<1>14. walked' = f /\ 1..walked \subseteq 1..f
  BY <1>1, <1>2
<1> HIDE DEF H, P, heads, recs, f, id, n, more
<1>15. BookTold(boots', H \cup heads, P \cup recs, Files, sources', Len(sources'))
  <2>1. CASE found # <<>>
    <3>1. BookTold(boots, H, P, Files, more, id)
      BY <1>3, <1>4, ToldWithMore
    <3>2. BookTold(MergeDicts(boots, found), H \cup heads, P \cup recs, Files, more, id)
      BY <1>5, <1>8, <1>9, <1>12, <1>13, <3>1, MergedTold
    <3> QED
      BY <1>2, <1>4, <2>1, <3>2
  <2>2. CASE found = <<>>
    <3>1. boots' = boots /\ sources' = sources
      BY <1>2, <1>3, <2>2, NothingMerged
    <3>2. heads = {}
      <4>1. NamesOf(found) = <<>> /\ Len(<<>>) = 0
        BY <2>2, EmptyDict
      <4> QED
        BY <1>5, <4>1 DEF InOrderSeen, SeenAt
    <3>3. \A b : OwnedBy(Files, recs, b) = {}
      <4> SUFFICES ASSUME NEW b, NEW p \in OwnedBy(Files, recs, b) PROVE FALSE
        OBVIOUS
      <4>1. RecordsIn(found, b) = <<>>
        BY <1>6, <2>2, BookIsRead DEF Named
      <4>2. Follows(PlacesOf(more, <<>>), OwnedBy(Files, recs, b))
        BY <1>5, <4>1 DEF BookTold, RecordsTold
      <4>3. PlacesOf(more, <<>>) = <<>>
        BY DEF PlacesOf
      <4>4. \E i \in 1..Len(<<>>) : <<>>[i] = p
        BY <4>2, <4>3 DEF Follows
      <4> QED
        BY <4>4
    <3>4. \A b : OwnedBy(Files, P \cup recs, b) = OwnedBy(Files, P, b)
      <4> SUFFICES ASSUME NEW b PROVE OwnedBy(Files, P \cup recs, b) = OwnedBy(Files, P, b)
        OBVIOUS
      <4>1. OwnedBy(Files, P \cup recs, b) = OwnedBy(Files, P, b) \cup OwnedBy(Files, recs, b)
        BY DEF OwnedBy
      <4> QED
        BY <3>3, <4>1
    <3>5. H \cup heads = H
      BY <3>2
    <3>6. BookTold(boots, H, P \cup recs, Files, sources, n)
      BY <1>3, <3>4 DEF BookTold
    <3> QED
      BY <3>1, <3>5, <3>6 DEF n
  <2> QED
    BY <2>1, <2>2
<1>16. sources' \in Seq(1..walked')
  <2>1. sources \in Seq(1..f)
    BY <1>3, <1>14, SeqMonotonic
  <2> QED
    BY <1>2, <1>4, <1>14, <2>1
<1> QED
  BY <1>7, <1>10, <1>11, <1>15, <1>16 DEF BooksHold

\* The other steps leave the books alone.
LEMMA OthersKeepBooks ==
  ASSUME RanksHold, BooksHold, UNCHANGED <<archive, boots, sources, ranks>>,
         \/ UNCHANGED <<walked, skipped>>
         \/ walked' = walked + 1 /\ skipped' = skipped \cup {walked + 1}
  PROVE  BooksHold'
<1>1. Files' = Files
  BY DEF Files
<1>2. walked \in Nat /\ skipped \subseteq 1..walked
  <2>1. archive \in Archives /\ walked \in 0..Len(Files) /\ skipped \subseteq 1..walked
    BY DEF RanksHold
  <2>2. Len(Files) \in Nat
    BY <2>1, ArchivesAreFiles
  <2> QED
    BY <2>1, <2>2
<1>3. (1..walked') \ skipped' = (1..walked) \ skipped /\ 1..walked \subseteq 1..walked'
  BY <1>2
<1>4. HeadsTo(walked)' = HeadsTo(walked) /\ RecsTo(walked)' = RecsTo(walked)
  <2>1. /\ HeadsTo(walked)' = UNION { HeadsIn(Files, g, Len(Files[g])) : g \in (1..walked') \ skipped' }
        /\ RecsTo(walked)' = UNION { RecsIn(Files, g, Len(Files[g])) : g \in (1..walked') \ skipped' }
    BY <1>1 DEF HeadsTo, RecsTo
  <2> QED
    BY <2>1, <1>3 DEF HeadsTo, RecsTo
<1>5. sources' \in Seq(1..walked')
  <2>1. sources \in Seq(1..walked)
    BY DEF BooksHold
  <2>2. sources \in Seq(1..walked')
    BY <1>3, <2>1, SeqMonotonic
  <2> QED
    BY <2>2
<1> QED
  BY <1>1, <1>4, <1>5 DEF BooksHold

\* preinsert_timesync_anchors: the header and every record get an anchor.
LEMMA AnchorsAreThere ==
  ASSUME IsBook(boots), anchors' = Inserted(Wanted), boots' = boots
  PROVE  /\ DOMAIN anchors' = 1..Len(anchors')
         /\ \A i \in 1..Len(boots) :
              Anchored(boots[i])' /\ \A j \in 1..Len(boots[i].records) : Anchored(boots[i].records[j])'
<1> DEFINE n == Len(boots)
           seqs == [i \in DOMAIN boots |-> AnchorsOf(boots[i])]
           T == UNION { Range(AnchorsOf(boots[i])) : i \in 1..n }
<1>1. n \in Nat /\ DOMAIN boots = 1..n
  BY BookIsRead
<1>2. ASSUME NEW i \in 1..n
      PROVE  LET a  == AnchorsOf(boots[i])
                 rs == boots[i].records
             IN  /\ a \in Seq(Range(a)) /\ 1 \in 1..Len(a) /\ SamePlace(a[1], boots[i])
                 /\ \A j \in 1..Len(rs) : \E k \in 1..Len(a) : SamePlace(a[k], rs[j])
  <2> DEFINE b == boots[i]
             rs == b.records
             Row(x, k) == [file |-> x.file, offset |-> x.offset, boot |-> b.boot, kernel |-> k, wall |-> x.wall]
             head == << Row(b, 0) >>
             rows == [j \in DOMAIN rs |-> Row(rs[j], rs[j].kernel)]
             X == { Row(rs[j], rs[j].kernel) : j \in 1..Len(rs) } \cup { Row(b, 0) }
  <2>1. AnchorsOf(b) = head \o rows
    BY DEF AnchorsOf
  <2>2. rs \in Seq(Range(rs)) /\ Len(rs) \in Nat /\ DOMAIN rs = 1..Len(rs)
    BY LenProperties DEF IsBook, IsEntryOfBook
  <2>3. SamePlace(Row(b, 0), b) /\ \A j \in 1..Len(rs) : SamePlace(Row(rs[j], rs[j].kernel), rs[j])
    BY DEF SamePlace
  <2>4. rows \in Seq(X) /\ Len(rows) = Len(rs) /\ \A j \in 1..Len(rs) : rows[j] = Row(rs[j], rs[j].kernel)
    <3>1. \A j \in 1..Len(rs) : Row(rs[j], rs[j].kernel) \in X
      OBVIOUS
    <3> HIDE DEF X, Row
    <3>2. rows \in [1..Len(rs) -> X] /\ \A j \in 1..Len(rs) : rows[j] = Row(rs[j], rs[j].kernel)
      BY <2>2, <3>1
    <3> HIDE DEF rows
    <3> QED
      BY <2>2, <3>2, SMTT(30)
  <2>5. head \in Seq(X) /\ Len(head) = 1 /\ head[1] = Row(b, 0)
    <3>1. Row(b, 0) \in X
      OBVIOUS
    <3> HIDE DEF X, Row
    <3> QED
      BY <3>1
  <2> HIDE DEF X, rows, head, Row
  <2>6. /\ head \o rows \in Seq(X)
        /\ \A j \in 1..Len(head) : j \in 1..Len(head \o rows) /\ (head \o rows)[j] = head[j]
        /\ \A j \in 1..Len(rows) : Len(head) + j \in 1..Len(head \o rows) /\ (head \o rows)[Len(head) + j] = rows[j]
    <3>1. head \in Seq(X) /\ rows \in Seq(X)
      BY <2>4, <2>5
    <3>2. ASSUME NEW j \in 1..Len(head)
          PROVE  j \in 1..Len(head \o rows) /\ (head \o rows)[j] = head[j]
      BY ONLY <3>1, PartsOfJoined, SMTT(30)
    <3>3. ASSUME NEW j \in 1..Len(rows)
          PROVE  Len(head) + j \in 1..Len(head \o rows) /\ (head \o rows)[Len(head) + j] = rows[j]
      BY ONLY <3>1, PartsOfJoined, SMTT(30)
    <3>4. head \o rows \in Seq(X)
      BY ONLY <3>1, PartsOfJoined, SMTT(30)
    <3> QED
      BY ONLY <3>2, <3>3, <3>4, Zenon
  <2> DEFINE a == head \o rows
  <2> HIDE DEF a
  <2>7. a \in Seq(Range(a)) /\ 1 \in 1..Len(a) /\ SamePlace(a[1], b)
    <3>1. a \in Seq(X) /\ 1 \in 1..Len(head)
      BY <2>5, <2>6 DEF a
    <3>2. a[1] = Row(b, 0) /\ 1 \in 1..Len(a)
      BY <2>5, <2>6, <3>1 DEF a
    <3> QED
      BY <2>3, <3>1, <3>2, SeqOfItsRange
  <2>8. ASSUME NEW j \in 1..Len(rs) PROVE \E k \in 1..Len(a) : SamePlace(a[k], rs[j])
    <3>1. j \in 1..Len(rows) /\ SamePlace(rows[j], rs[j])
      BY <2>3, <2>4
    <3> QED
      BY <2>6, <3>1 DEF a
  <2> QED
    BY <2>1, <2>7, <2>8 DEF a
<1>3. Len(seqs) = n /\ \A i \in 1..n : seqs[i] = AnchorsOf(boots[i]) /\ seqs[i] \in Seq(T)
  <2>1. \A i \in 1..n : seqs[i] = AnchorsOf(boots[i])
    BY <1>1
  <2>2. \A i \in 1..n : AnchorsOf(boots[i]) \in Seq(T)
    <3> SUFFICES ASSUME NEW i \in 1..n PROVE AnchorsOf(boots[i]) \in Seq(T)
      OBVIOUS
    <3> DEFINE a == AnchorsOf(boots[i])
    <3>1. a \in Seq(Range(a))
      BY <1>2
    <3>2. Range(a) \subseteq T
      OBVIOUS
    <3> HIDE DEF a, T
    <3>3. a \in Seq(T)
      BY <3>1, <3>2, SeqMonotonic
    <3> QED
      BY <3>3 DEF a
  <2>3. Len(seqs) = n
    BY <1>1
  <2> QED
    BY <2>1, <2>2, <2>3
<1>4. Wanted = FlattenSeq(seqs)
  BY DEF Wanted
<1> HIDE DEF seqs, T, n
<1>5. /\ n > 0 => Wanted \in Seq(T)
      /\ \A i \in 1..n : \A j \in 1..Len(AnchorsOf(boots[i])) :
           \E k \in 1..Len(Wanted) : Wanted[k] = AnchorsOf(boots[i])[j]
  <2>1. /\ n > 0 => FlattenSeq(seqs) \in Seq(T)
        /\ \A i \in 1..n : \A j \in 1..Len(seqs[i]) :
             \E k \in 1..Len(FlattenSeq(seqs)) : FlattenSeq(seqs)[k] = seqs[i][j]
    BY <1>1, <1>3, AllFlattened, SMTT(30)
  <2> QED
    BY <1>3, <1>4, <2>1
<1>6. CASE n > 0
  <2>1. /\ DOMAIN anchors' = 1..Len(anchors')
        /\ \A i \in 1..Len(Wanted) : \E k \in 1..Len(anchors') : SamePlace(anchors'[k], Wanted[i])
    BY <1>5, <1>6, AllInserted
  <2>2. \A x, y, z : SamePlace(x, y) /\ SamePlace(y, z) => SamePlace(x, z)
    BY DEF SamePlace
  <2>3. ASSUME NEW i \in 1..n, NEW j \in 1..Len(AnchorsOf(boots[i])), NEW x, SamePlace(AnchorsOf(boots[i])[j], x)
        PROVE  \E k \in 1..Len(anchors') : SamePlace(anchors'[k], x)
    <3>1. PICK l \in 1..Len(Wanted) : Wanted[l] = AnchorsOf(boots[i])[j]
      BY <1>5
    <3>2. PICK k \in 1..Len(anchors') : SamePlace(anchors'[k], Wanted[l])
      BY <2>1
    <3> QED
      BY <2>2, <2>3, <3>1, <3>2
  <2>4. ASSUME NEW i \in 1..n
        PROVE  /\ \E k \in 1..Len(anchors') : SamePlace(anchors'[k], boots[i])
               /\ \A j \in 1..Len(boots[i].records) :
                    \E k \in 1..Len(anchors') : SamePlace(anchors'[k], boots[i].records[j])
    <3>1. \E k \in 1..Len(anchors') : SamePlace(anchors'[k], boots[i])
      BY <1>2, <2>3
    <3>2. ASSUME NEW j \in 1..Len(boots[i].records)
          PROVE  \E k \in 1..Len(anchors') : SamePlace(anchors'[k], boots[i].records[j])
      <4>1. PICK l \in 1..Len(AnchorsOf(boots[i])) : SamePlace(AnchorsOf(boots[i])[l], boots[i].records[j])
        BY <1>2
      <4> QED
        BY <2>3, <4>1
    <3> QED
      BY <3>1, <3>2
  <2> QED
    BY <2>1, <2>4 DEF Anchored, n
<1>7. CASE ~(n > 0)
  <2>1. 1..n = {}
    BY <1>1, <1>7
  <2>2. Wanted = <<>>
    <3>1. DOMAIN boots = {}
      BY <1>1, <2>1
    <3>2. seqs = <<>>
      BY <3>1 DEF seqs
    <3> QED
      BY <1>4, <3>2 DEF FlattenSeq
  <2>3. <<>> \in Seq({})
    OBVIOUS
  <2>4. DOMAIN anchors' = 1..Len(anchors')
    BY <2>2, <2>3, AllInserted
  <2> QED
    BY <2>1, <2>4 DEF n
<1> QED
  BY <1>6, <1>7

\* What an entry becomes depends on the boots, the anchors and the owners alone.
LEMMA RowsStay ==
  ASSUME UNCHANGED <<boots, anchors, owner>>
  PROVE  \A e, i, f : RowOfEntry(e, i, f)' = RowOfEntry(e, i, f)
<1>1. \A e : Resolve(e.boot, e.base + e.delta, BaseOf(e))' = Resolve(e.boot, e.base + e.delta, BaseOf(e))
  BY DEF Resolve, SelectAnchor, IndexOf, Scaled, BaseOf
<1>2. \A a : AnchorId(a)' = AnchorId(a)
  BY DEF AnchorId
<1> QED
  BY <1>1, <1>2 DEF RowOfEntry

\* A file parsed: each of its rows is that of its entry.
LEMMA StoreKeepsLogs ==
  ASSUME archive \in Archives, RowsHold, LogsHold, NEW f \in unread, StoreFile(f)
  PROVE  LogsHold'
<1> DEFINE entries == archive.tracev3[f]
           more == [i \in DOMAIN entries |-> RowOfEntry(entries[i], i, f)]
           n == Len(logs)
           k == Len(entries)
<1>1. /\ logs' = logs \o more /\ archive' = archive /\ f \in DOMAIN archive.tracev3
      /\ logs \in Seq(Range(logs)) /\ n \in Nat
      /\ tstep = "parse" /\ tstep' = tstep /\ UNCHANGED <<boots, anchors, owner>>
  BY LenProperties DEF StoreFile, RowsHold
<1>2. k \in Nat /\ DOMAIN entries = 1..k
  BY <1>1, ArchivesAreFiles
<1>3. \A i \in 1..k : RowOfEntry(entries[i], i, f).file = f /\ RowOfEntry(entries[i], i, f).at = i
  BY DEF RowOfEntry
<1>4. more \in Seq(Range(more)) /\ Len(more) = k /\ \A i \in 1..k : more[i] = RowOfEntry(entries[i], i, f)
  <2> HIDE DEF entries
  <2>1. more = [i \in 1..k |-> RowOfEntry(entries[i], i, f)]
    BY <1>2
  <2> DEFINE X == { RowOfEntry(entries[i], i, f) : i \in 1..k }
  <2>2. \A i \in 1..k : RowOfEntry(entries[i], i, f) \in X
    OBVIOUS
  <2> HIDE DEF X, more
  <2>3. more \in Seq(X) /\ Len(more) = k /\ \A i \in 1..k : more[i] = RowOfEntry(entries[i], i, f)
    BY <1>2, <2>1, <2>2
  <2> QED
    BY <2>3, SeqOfItsRange
<1> HIDE DEF more
<1>5. /\ \A i \in 1..n : logs'[i] = logs[i]
      /\ \A i \in 1..k : logs'[n + i] = more[i]
      /\ \A i \in 1..Len(logs') : i \in 1..n \/ \E j \in 1..k : i = n + j
  <2> DEFINE X == Range(logs) \cup Range(more)
  <2>1. logs \in Seq(X) /\ more \in Seq(X)
    BY <1>1, <1>4
  <2> HIDE DEF X
  <2>2. /\ Len(more) = Len(more)
        /\ \A i \in 1..Len(logs) : (logs \o more)[i] = logs[i]
        /\ \A i \in 1..Len(more) : (logs \o more)[Len(logs) + i] = more[i]
        /\ \A i \in 1..Len(logs \o more) : i \in 1..Len(logs) \/ \E j \in 1..Len(more) : i = Len(logs) + j
    BY <2>1, PartsOfJoined
  <2> QED
    BY <2>2, <1>1, <1>4
<1>6. \A e, i, g : RowOfEntry(e, i, g)' = RowOfEntry(e, i, g)
  BY <1>1, RowsStay
<1>7. \A r : EntryOf(r)' = archive.tracev3[r.file][r.at]
  BY <1>1 DEF EntryOf
<1>8. ASSUME NEW id \in 1..Len(logs')
      PROVE  logs'[id] = RowOfEntry(archive.tracev3[logs'[id].file][logs'[id].at], logs'[id].at, logs'[id].file)
  <2>1. CASE id \in 1..n
    <3>1. logs[id] = RowOfEntry(EntryOf(logs[id]), logs[id].at, logs[id].file)
      BY <2>1 DEF LogsHold
    <3>2. logs'[id] = logs[id]
      BY <1>5, <2>1
    <3> QED
      BY <3>1, <3>2 DEF EntryOf
  <2>2. CASE id \notin 1..n
    <3>1. PICK j \in 1..k : id = n + j
      BY <1>5, <2>2
    <3>2. logs'[id] = RowOfEntry(entries[j], j, f)
      BY <1>4, <1>5, <3>1
    <3>3. logs'[id].file = f /\ logs'[id].at = j
      BY <1>3, <3>2
    <3> QED
      BY <3>2, <3>3
  <2> QED
    BY <2>1, <2>2
<1>9. (\A id \in 1..Len(logs) : logs[id] = RowOfEntry(EntryOf(logs[id]), logs[id].at, logs[id].file))'
  BY <1>6, <1>7, <1>8
<1> QED
  BY <1>1, <1>9 DEF LogsHold, Parsing

\* Nothing walked, nothing told.
LEMMA TimesStart == TimelineInit => TimesInv
<1> SUFFICES ASSUME TimelineInit PROVE TimesInv
  OBVIOUS
<1>1. /\ walked = 0 /\ sources = <<>> /\ boots = <<>> /\ ranks = <<>> /\ logs = <<>> /\ tstep = "walk"
  BY DEF TimelineInit
<1>2. HeadsTo(0) = {} /\ RecsTo(0) = {}
  BY DEF HeadsTo, RecsTo
<1>3. BookTold(<<>>, {}, {}, Files, <<>>, 0)
  BY NoBookTold
<1>4. BooksHold
  <2>1. NamesOf(<<>>) = <<>> /\ Len(<<>>) = 0 /\ <<>> \in Seq(1..0)
    BY EmptyDict
  <2> QED
    BY <1>1, <1>2, <1>3, <2>1 DEF BooksHold
<1>5. AnchorsHold /\ LogsHold
  BY <1>1 DEF AnchorsHold, LogsHold, Parsing
<1> QED
  BY <1>4, <1>5 DEF TimesInv

\* Every step of the timeline keeps it.
LEMMA TimesStep ==
  TimelineInv /\ TimesInv /\ [TimelineNext]_timeline => TimesInv'
<1> SUFFICES ASSUME TimelineInv, TimesInv, [TimelineNext]_timeline PROVE TimesInv'
  OBVIOUS
<1>1. RanksHold /\ RowsHold /\ BooksHold /\ AnchorsHold /\ LogsHold
  BY DEF TimelineInv, TimesInv
<1>2. archive \in Archives
  BY <1>1 DEF RanksHold
\* The steps that leave boots, anchors and rows alone.
<1>3. ASSUME UNCHANGED <<archive, boots, anchors, owner, logs>>, Parsing' = Parsing
      PROVE  AnchorsHold' /\ LogsHold'
  <2>1. AnchorsHold'
    BY <1>1, <1>3 DEF AnchorsHold, Anchored
  <2>2. \A e, i, f : RowOfEntry(e, i, f)' = RowOfEntry(e, i, f)
    BY <1>3, RowsStay
  <2>3. \A r : EntryOf(r)' = EntryOf(r)
    BY <1>3 DEF EntryOf
  <2>4. \A id \in 1..Len(logs) : logs[id] = RowOfEntry(EntryOf(logs[id]), logs[id].at, logs[id].file)
    BY <1>1 DEF LogsHold
  <2>5. (\A id \in 1..Len(logs) : logs[id] = RowOfEntry(EntryOf(logs[id]), logs[id].at, logs[id].file))'
    BY <1>3, <2>2, <2>3, <2>4
  <2>6. LogsHold'
    BY <1>1, <1>3, <2>5 DEF LogsHold
  <2> QED
    BY <2>1, <2>6
\* Before the parsing there are no rows.
<1>4. ASSUME ~Parsing, ~Parsing', logs' = logs
      PROVE  AnchorsHold' /\ LogsHold'
  <2>1. logs' = <<>> /\ Len(<<>>) = 0
    BY <1>1, <1>4 DEF LogsHold
  <2>2. LogsHold'
    BY <1>4, <2>1 DEF LogsHold
  <2> QED
    BY <1>4, <2>2 DEF AnchorsHold
<1>5. CASE WalkFile
  <2>1. UNCHANGED <<logs, tstep>> /\ tstep = "walk"
    BY <1>5 DEF WalkFile
  <2>2. ~Parsing /\ ~Parsing'
    BY <2>1 DEF Parsing
  <2> QED
    BY <1>1, <1>4, <1>5, <2>1, <2>2, WalkKeepsBooks DEF TimesInv
<1>6. CASE SkipFile
  <2>1. /\ UNCHANGED <<archive, boots, sources, ranks, logs, tstep>> /\ tstep = "walk"
        /\ walked' = walked + 1 /\ skipped' = skipped \cup {walked + 1}
    BY <1>6 DEF SkipFile
  <2>2. ~Parsing /\ ~Parsing'
    BY <2>1 DEF Parsing
  <2>3. BooksHold'
    BY <1>1, <2>1, OthersKeepBooks
  <2> QED
    BY <1>4, <2>1, <2>2, <2>3 DEF TimesInv
<1>7. CASE RegisterBoots \/ AnchorOverflows
  <2>1. /\ UNCHANGED <<archive, boots, sources, ranks, logs, walked, skipped>>
        /\ tstep \in {"walk", "anchors"} /\ tstep' \in {"anchors", "failed"}
    BY <1>7 DEF RegisterBoots, AnchorOverflows
  <2>2. ~Parsing /\ ~Parsing'
    BY <2>1 DEF Parsing
  <2>3. BooksHold'
    BY <1>1, <2>1, OthersKeepBooks
  <2> QED
    BY <1>4, <2>1, <2>2, <2>3 DEF TimesInv
<1>8. CASE PreinsertAnchors
  <2>1. /\ UNCHANGED <<archive, boots, sources, ranks, logs, walked, skipped>>
        /\ tstep = "anchors" /\ anchors' = Inserted(Wanted)
    BY <1>8 DEF PreinsertAnchors
  <2>2. BooksHold'
    BY <1>1, <2>1, OthersKeepBooks
  <2>3. IsBook(boots)
    BY <1>1 DEF BooksHold, BookTold
  <2>4. AnchorsHold'
    <3>1. /\ DOMAIN anchors' = 1..Len(anchors')
          /\ \A i \in 1..Len(boots) :
               Anchored(boots[i])' /\ \A j \in 1..Len(boots[i].records) : Anchored(boots[i].records[j])'
      BY <2>1, <2>3, AnchorsAreThere
    <3> QED
      BY <2>1, <3>1 DEF AnchorsHold
  <2>5. LogsHold'
    <3>1. logs' = <<>> /\ Len(<<>>) = 0
      BY <1>1, <2>1 DEF LogsHold, Parsing
    <3> QED
      BY <3>1 DEF LogsHold
  <2> QED
    BY <2>2, <2>4, <2>5 DEF TimesInv
<1>9. ASSUME NEW f \in unread, StoreFile(f)
      PROVE  TimesInv'
  <2>1. /\ UNCHANGED <<archive, boots, sources, ranks, anchors, walked, skipped, tstep>>
    BY <1>9 DEF StoreFile
  <2>2. BooksHold'
    BY <1>1, <2>1, OthersKeepBooks
  <2>3. AnchorsHold'
    BY <1>1, <2>1 DEF AnchorsHold, Anchored, Parsing
  <2>4. LogsHold'
    BY <1>1, <1>2, <1>9, StoreKeepsLogs
  <2> QED
    BY <2>2, <2>3, <2>4 DEF TimesInv
<1>10. CASE ParseDone \/ AssignOrdering \/ UNCHANGED timeline
  <2>1. /\ UNCHANGED <<archive, boots, sources, ranks, anchors, owner, logs, walked, skipped>>
        /\ \/ tstep \in {"parse", "order"} /\ tstep' \in {"order", "done"}
           \/ tstep' = tstep
    BY <1>10 DEF ParseDone, AssignOrdering, timeline
  <2>2. Parsing' = Parsing
    BY <2>1 DEF Parsing
  <2>3. BooksHold'
    BY <1>1, <2>1, OthersKeepBooks
  <2> QED
    BY <1>3, <2>1, <2>2, <2>3 DEF TimesInv
<1> QED
  BY <1>5, <1>6, <1>7, <1>8, <1>9, <1>10 DEF TimelineNext

-----------------------------------------------------------------------------
(* _select_anchor, against the bytes.                                      *)

\* A set of the first numbers is an interval, and as many as its last one.
LEMMA FirstNumbers ==
  ASSUME NEW L \in Nat, NEW S, S \subseteq 1..L, \A i \in S : \A j \in 1..i : j \in S
  PROVE  Cardinality(S) \in 0..L /\ S = 1..Cardinality(S)
<1>1. \A c \in Nat : Cardinality(1..c) = c
  <2> SUFFICES ASSUME NEW c \in Nat PROVE Cardinality(1..c) = c
    OBVIOUS
  <2>1. Cardinality(1..c) = IF 1 > c THEN 0 ELSE c - 1 + 1
    BY FS_Interval
  <2> QED
    BY <2>1
<1>2. ASSUME NEW c \in 0..L, S = 1..c PROVE Cardinality(S) \in 0..L /\ S = 1..Cardinality(S)
  BY <1>1, <1>2
<1> DEFINE K == { c \in 0..L : \A i \in 1..c : i \in S }
<1>3. 0 \in K
  OBVIOUS
<1>4. CASE L \in K
  <2>1. S = 1..L
    BY <1>4
  <2> QED
    BY <1>2, <2>1
<1>5. CASE L \notin K
  <2>1. \E c \in 0..(L - 1) : c \in K /\ c + 1 \notin K
    <3> HIDE DEF K
    <3> QED
      BY <1>3, <1>5, CountingUp
  <2>2. PICK c \in 0..(L - 1) : c \in K /\ c + 1 \notin K
    BY <2>1
  <2>3. c + 1 \notin S
    <3>1. c + 1 \in 0..L /\ \A i \in 1..(c + 1) : i \in 1..c \/ i = c + 1
      OBVIOUS
    <3> QED
      BY <2>2, <3>1
  <2>4. \A i \in S : i \in 1..c
    <3> SUFFICES ASSUME NEW i \in S, i \notin 1..c PROVE FALSE
      OBVIOUS
    <3>1. i \in Nat /\ c + 1 \in 1..i
      BY <2>2
    <3> QED
      BY <2>3, <3>1
  <2>5. S = 1..c
    BY <2>2, <2>4
  <2> QED
    BY <1>2, <2>2, <2>5
<1> QED
  BY <1>4, <1>5

\* Keys that ascend step by step ascend.
LEMMA AscendingThroughout ==
  ASSUME NEW rs, Len(rs) \in Nat, \A i \in 1..Len(rs) : rs[i].kernel \in Nat, Ascending(rs)
  PROVE  \A j \in 1..Len(rs) : \A i \in 1..j : rs[i].kernel <= rs[j].kernel
<1> DEFINE n == Len(rs)
           S == { j \in 0..n : \A i \in 1..j : rs[i].kernel <= rs[j].kernel }
<1>1. 0 \in S
  OBVIOUS
<1>2. ASSUME NEW j \in 0..(n - 1), j \in S PROVE j + 1 \in S
  <2> DEFINE l == j + 1
  <2>1. l \in 1..n /\ l \in 0..n /\ \A i \in 1..l : i \in 1..j \/ i = l
    OBVIOUS
  <2>2. j > 0 => rs[j].kernel <= rs[l].kernel /\ j \in 1..n
    BY DEF Ascending
  <2> HIDE DEF l
  <2>3. ASSUME NEW i \in 1..l PROVE rs[i].kernel <= rs[l].kernel
    <3>1. CASE i = l
      BY <2>1, <3>1
    <3>2. CASE i \in 1..j
      <4>1. j > 0 /\ i \in 1..n
        BY <3>2
      <4>2. rs[i].kernel <= rs[j].kernel
        BY <1>2, <3>2
      <4>3. rs[i].kernel \in Nat /\ rs[j].kernel \in Nat /\ rs[l].kernel \in Nat
        BY <2>1, <2>2, <4>1
      <4> QED
        BY <2>2, <4>1, <4>2, <4>3
    <3> QED
      BY <2>1, <3>1, <3>2
  <2>4. l \in S
    BY <2>1, <2>3
  <2> QED
    BY <2>4 DEF l
<1> HIDE DEF S
<1>3. \A j \in 0..n : j \in S
  BY <1>1, <1>2, CountingUp
<1> QED
  BY <1>3 DEF S

\* _select_anchor: bisected or walked, the records up to the one found are at or before the
\* target, and the next one is not.
AtOrBefore(rs, t) == IF Ascending(rs) THEN Bisect(rs, t) ELSE Leading(rs, t)
\* The records up to the one found are the ones to choose from, for bisect and walk alike.
LEMMA FoundIsLastAtOrBefore ==
  ASSUME NEW rs, Len(rs) \in Nat, DOMAIN rs = 1..Len(rs),
         \A i \in 1..Len(rs) : rs[i].kernel \in Nat, NEW t \in Nat
  PROVE  /\ AtOrBefore(rs, t) \in 0..Len(rs)
         /\ \A i \in 1..AtOrBefore(rs, t) : rs[i].kernel <= t
         /\ AtOrBefore(rs, t) < Len(rs) => ~(rs[AtOrBefore(rs, t) + 1].kernel <= t)
<1> DEFINE L == Len(rs)
           n == AtOrBefore(rs, t)
<1>1. CASE Ascending(rs)
  <2> DEFINE S == { i \in DOMAIN rs : rs[i].kernel <= t }
  <2>1. S \subseteq 1..L
    OBVIOUS
  <2>2. \A i \in S : \A j \in 1..i : j \in S
    <3> SUFFICES ASSUME NEW i \in S, NEW j \in 1..i PROVE j \in S
      OBVIOUS
    <3>1. i \in 1..L /\ j \in 1..L
      OBVIOUS
    <3>2. rs[j].kernel <= rs[i].kernel
      BY <1>1, <3>1, AscendingThroughout
    <3>3. rs[j].kernel \in Nat /\ rs[i].kernel \in Nat /\ rs[i].kernel <= t
      BY <3>1
    <3>4. rs[j].kernel <= t
      BY <3>2, <3>3
    <3> QED
      BY <3>1, <3>4
  <2>3. n = Cardinality(S)
    BY <1>1 DEF AtOrBefore, Bisect
  <2> HIDE DEF S, n
  <2>4. n \in 0..L /\ S = 1..n
    BY <2>1, <2>2, <2>3, FirstNumbers
  <2>5. n < L => n + 1 \in 1..L /\ n + 1 \notin S
    BY <2>4
  <2>6. (\A i \in 1..n : rs[i].kernel <= t) /\ (n < L => ~(rs[n + 1].kernel <= t))
    BY <2>4, <2>5 DEF S
  <2> QED
    BY <2>4, <2>6 DEF n
<1>2. CASE ~Ascending(rs)
  <2> DEFINE S == { i \in DOMAIN rs : \A j \in 1 .. i : rs[j].kernel <= t }
  <2>1. S \subseteq 1..L
    OBVIOUS
  <2>2. \A i \in S : \A j \in 1..i : j \in S
    <3> SUFFICES ASSUME NEW i \in S, NEW j \in 1..i PROVE j \in S
      OBVIOUS
    <3>1. i \in 1..L /\ j \in 1..L /\ \A k \in 1..j : k \in 1..i
      OBVIOUS
    <3> QED
      BY <3>1
  <2>3. n = Cardinality(S)
    BY <1>2 DEF AtOrBefore, Leading
  <2> HIDE DEF S, n
  <2>4. n \in 0..L /\ S = 1..n
    BY <2>1, <2>2, <2>3, FirstNumbers
  <2>5. \A i \in 1..n : rs[i].kernel <= t
    <3> SUFFICES ASSUME NEW i \in 1..n PROVE rs[i].kernel <= t
      OBVIOUS
    <3>1. i \in S /\ i \in 1..i
      BY <2>4
    <3> QED
      BY <3>1 DEF S
  <2>6. n < L => ~(rs[n + 1].kernel <= t)
    <3> SUFFICES ASSUME n < L, rs[n + 1].kernel <= t PROVE FALSE
      OBVIOUS
    <3>1. n + 1 \in 1..L /\ n + 1 \notin S /\ \A i \in 1..(n + 1) : i \in 1..n \/ i = n + 1
      BY <2>4
    <3>2. \A i \in 1..(n + 1) : rs[i].kernel <= t
      BY <2>5, <3>1
    <3> QED
      BY <3>1, <3>2 DEF S
  <2> QED
    BY <2>4, <2>5, <2>6 DEF n
<1> QED
  BY <1>1, <1>2

\* What is later than all the others is the latest, and the first place the earliest.
LEMMA TheLatest ==
  ASSUME NEW S, S \subseteq Nat \X Nat, NEW p \in S
  PROVE  /\ (\A q \in S : q = p \/ Earlier(q, p)) => Latest(S) = p
         /\ (\A q \in S : q = p \/ Earlier(p, q)) => Earliest(S) = p
<1>1. ASSUME NEW q \in S, NEW r \in S PROVE Later(q, r) <=> Earlier(r, q)
  <2>1. q = <<q[1], q[2]>> /\ r = <<r[1], r[2]>> /\ {q[1], q[2], r[1], r[2]} \subseteq Int
    OBVIOUS
  <2>2. Before(<<r[1], r[2]>>, <<q[1], q[2]>>) <=> r[1] < q[1] \/ (r[1] = q[1] /\ r[2] < q[2])
    BY <2>1, PairsInOrder
  <2> QED
    BY <2>1, <2>2 DEF Later, Earlier
<1>2. \A q \in S, r \in S : ~(Earlier(q, r) /\ Earlier(r, q)) /\ ~Earlier(q, q)
  BY PlacesAreOrdered
<1>3. ASSUME \A q \in S : q = p \/ Earlier(q, p) PROVE Latest(S) = p
  <2> DEFINE Is(x) == \A q \in S : ~Later(q, x)
  <2>1. Is(p)
    BY <1>1, <1>2, <1>3
  <2>2. \A x \in S : Is(x) => x = p
    BY <1>1, <1>3
  <2>3. Latest(S) = CHOOSE x \in S : Is(x)
    BY DEF Latest
  <2> HIDE DEF Is
  <2> QED
    BY <2>1, <2>2, <2>3
<1>4. ASSUME \A q \in S : q = p \/ Earlier(p, q) PROVE Earliest(S) = p
  <2> DEFINE Is(x) == \A q \in S : ~Later(x, q)
  <2>1. Is(p)
    BY <1>1, <1>2, <1>4
  <2>2. \A x \in S : Is(x) => x = p
    BY <1>1, <1>4
  <2>3. Earliest(S) = CHOOSE x \in S : Is(x)
    BY DEF Earliest
  <2> HIDE DEF Is
  <2> QED
    BY <2>1, <2>2, <2>3
<1> QED
  BY <1>3, <1>4

\* In records that ascend, the last one found is the latest at or before the target; it does
\* not matter that the walk committed a part twice.
LatestIsAt(pl, n, R, k, t) ==
  LET low == { p \in R : k[p] <= t }
  IN  /\ n > 0 => pl[n] \in low /\ Latest(low) = pl[n]
      /\ n = 0 => low = {}
\* The record found is the latest of those at or before the target.
LEMMA Selected ==
  ASSUME NEW R, R \subseteq Nat \X Nat, NEW k \in [R -> Nat], NEW t \in Nat, NEW pl, Follows(pl, R),
         \A p, q \in R : Earlier(p, q) => k[p] <= k[q],
         NEW n \in 0..Len(pl), \A i \in 1..n : k[pl[i]] <= t, n < Len(pl) => ~(k[pl[n + 1]] <= t)
  PROVE  LatestIsAt(pl, n, R, k, t)
<1> DEFINE low == { p \in R : k[p] <= t }
           L == Len(pl)
<1>1. /\ L \in Nat /\ \A i \in 1..L : pl[i] \in R
      /\ \A p \in R : \E i \in 1..L : pl[i] = p
      /\ \A i \in 1..L, p \in R : Earlier(p, pl[i]) => Comes(pl, i, p)
      /\ \A i \in 1..L : LatestSoFar(pl, i) \/ RepeatsAfter(pl, i)
  <2>1. pl \in Seq(R)
    BY DEF Follows
  <2> QED
    BY <2>1, LenProperties, ElementOfSeq DEF Follows
<1>2. \A i \in 1..n : i \in 1..L /\ pl[i] \in low
  BY <1>1
<1>3. ASSUME NEW p \in low PROVE \E i \in 1..n : pl[i] = p
  <2>1. PICK j \in 1..L : pl[j] = p
    BY <1>1
  <2>2. CASE n = L
    BY <2>1, <2>2
  <2>3. CASE n < L
    <3> DEFINE m == n + 1
               q == pl[m]
    <3>1. m \in 1..L /\ \A i \in 1..L : i < m => i \in 1..n
      BY <1>1, <2>3
    <3>2. q \in R /\ ~(k[q] <= t)
      BY <1>1, <2>3, <3>1
    <3> HIDE DEF m
    <3>3. p # q /\ ~Earlier(q, p)
      <4>1. k[p] \in Nat /\ k[q] \in Nat /\ k[p] <= t
        BY <3>2
      <4> QED
        BY <3>2, <4>1
    <3>4. Earlier(p, q)
      BY <3>2, <3>3, PlacesAreOrdered
    <3>5. PICK i \in 1..L : i < m /\ pl[i] = p
      BY <1>1, <3>1, <3>4 DEF Comes
    <3> QED
      BY <3>1, <3>5
  <2> QED
    BY <2>2, <2>3
<1>4. CASE n = 0
  BY <1>3, <1>4 DEF LatestIsAt
<1>5. CASE n > 0
  <2>1. n \in 1..n /\ n \in 1..L /\ pl[n] \in low
    BY <1>2, <1>5
  <2>2. ~RepeatsAfter(pl, n)
    <3> SUFFICES ASSUME RepeatsAfter(pl, n) PROVE FALSE
      OBVIOUS
    <3>1. PICK i \in 1..n : n < L /\ pl[i] = pl[n + 1]
      BY DEF RepeatsAfter
    <3> QED
      BY <3>1
  <2>3. \A i \in 1..n : pl[i] = pl[n] \/ Earlier(pl[i], pl[n])
    BY <1>1, <2>1, <2>2 DEF LatestSoFar
  <2>4. \A q \in low : q = pl[n] \/ Earlier(q, pl[n])
    BY <1>3, <2>3
  <2>5. low \subseteq Nat \X Nat
    OBVIOUS
  <2> HIDE DEF low
  <2>6. Latest(low) = pl[n]
    BY <2>1, <2>4, <2>5, TheLatest
  <2> QED
    BY <1>5, <2>1, <2>6 DEF low, LatestIsAt
<1> QED
  BY <1>4, <1>5

\* The first record is the earliest; there is one unless the boot has none.
LEMMA FirstIsEarliest ==
  ASSUME NEW R, R \subseteq Nat \X Nat, NEW pl, Follows(pl, R)
  PROVE  /\ Len(pl) \in Nat /\ (R = {} <=> Len(pl) = 0)
         /\ Len(pl) > 0 => pl[1] \in R /\ Earliest(R) = pl[1]
<1>1. /\ Len(pl) \in Nat /\ \A i \in 1..Len(pl) : pl[i] \in R
      /\ \A p \in R : \E i \in 1..Len(pl) : pl[i] = p
      /\ \A i \in 1..Len(pl), p \in R : Earlier(p, pl[i]) => Comes(pl, i, p)
  <2>1. pl \in Seq(R)
    BY DEF Follows
  <2> QED
    BY <2>1, LenProperties, ElementOfSeq DEF Follows
<1>2. R = {} <=> Len(pl) = 0
  <2>1. Len(pl) = 0 => 1..Len(pl) = {}
    OBVIOUS
  <2>2. Len(pl) # 0 => 1 \in 1..Len(pl)
    BY <1>1
  <2> QED
    BY <1>1, <2>1, <2>2
<1>3. ASSUME Len(pl) > 0 PROVE pl[1] \in R /\ Earliest(R) = pl[1]
  <2>1. 1 \in 1..Len(pl) /\ pl[1] \in R
    BY <1>1, <1>3
  <2>2. \A q \in R : ~Earlier(q, pl[1])
    <3>1. \A q : ~Comes(pl, 1, q)
      BY DEF Comes
    <3> QED
      BY <1>1, <2>1, <3>1
  <2>3. \A q \in R : q = pl[1] \/ Earlier(pl[1], q)
    BY <2>1, <2>2, PlacesAreOrdered
  <2> QED
    BY <2>1, <2>3, TheLatest
<1> QED
  BY <1>1, <1>2, <1>3

\* Some of the first numbers have a greatest one.
LEMMA GreatestNumber ==
  ASSUME NEW n \in Nat, NEW hs, hs \subseteq 1..n, hs # {}
  PROVE  \E h \in hs : \A j \in hs : j <= h
<1> DEFINE S == { c \in 0..n : \A j \in hs : j <= n - c }
<1>1. 0 \in S
  OBVIOUS
<1>2. n \notin S
  <2>1. PICK j \in hs : TRUE
    OBVIOUS
  <2>2. ~(j <= n - n)
    BY <2>1
  <2> QED
    BY <2>2
<1>3. ~(\A c \in 0..(n - 1) : c \in S => c + 1 \in S)
  <2> HIDE DEF S
  <2> SUFFICES ASSUME \A c \in 0..(n - 1) : c \in S => c + 1 \in S PROVE FALSE
    OBVIOUS
  <2>1. \A c \in 0..n : c \in S
    BY <1>1, CountingUp
  <2> QED
    BY <1>2, <2>1
<1>4. PICK c \in 0..(n - 1) : c \in S /\ c + 1 \notin S
  BY <1>3
<1>5. c + 1 \in 0..n
  BY ONLY n \in Nat, c \in 0..(n - 1)
<1>6. PICK j \in hs : ~(j <= n - (c + 1))
  BY <1>4, <1>5
<1>7. j \in 1..n /\ j <= n - c
  BY <1>4
<1>8. j = n - c
  BY <1>6, <1>7
<1>9. \A l \in hs : l <= n - c
  BY <1>4
<1> QED
  BY <1>6, <1>8, <1>9

\* The readable records of a boot, as the walk and as the bytes have them.
LEMMA RecordsAreRecords ==
  ASSUME RanksHold, walked = Len(Files), NEW b
  PROVE  RecordsOf(b) = OwnedBy(Files, RecsTo(walked), b)
<1>1. DOMAIN Files = 1..walked /\ \A f \in 1..walked : DOMAIN Files[f] = 1..Len(Files[f])
  BY ArchivesAreFiles DEF RanksHold
<1>2. ASSUME NEW f \in 1..walked
      PROVE  RecsIn(Files, f, Len(Files[f])) = { p \in { <<f, i>> : i \in Whole(f) } : ItemAt(p).is = "record" }
  BY <1>1, <1>2 DEF RecsIn, Whole, ItemAt, Ends
<1>3. RecsTo(walked) = { p \in Readable : ItemAt(p).is = "record" }
  BY <1>1, <1>2 DEF RecsTo, Readable
<1>4. ASSUME NEW p \in RecsTo(walked) PROVE Owns(Files, p, b) <=> HeaderOf(p) # 0 /\ BootAtPlace(p) = b
  <2> DEFINE hs == { i \in 1 .. p[2] : Files[p[1]][i].is = "boot" }
             Nearest(h) == \A j \in hs : j <= h
  <2>1. p \in Nat \X Nat
    BY <1>4, RecordsArePlaces DEF RanksHold
  <2>2. p[2] \in Nat /\ hs \subseteq 1..p[2]
    BY <2>1
  <2>3. HeaderOf(p) = IF hs = {} THEN 0 ELSE CHOOSE i \in hs : Nearest(i)
    BY DEF HeaderOf
  <2>4. \A h \in 1..p[2] : (\A j \in 1..p[2] : h < j => Files[p[1]][j].is # "boot") <=> Nearest(h)
    BY <2>2
  <2>5. Owns(Files, p, b) <=> \E h \in hs : Files[p[1]][h].boot = b /\ Nearest(h)
    BY <2>4 DEF Owns
  <2>6. BootAtPlace(p) = Files[p[1]][HeaderOf(p)].boot
    BY DEF BootAtPlace, ItemAt
  <2>7. \A g, h \in hs : Nearest(g) /\ Nearest(h) => g = h
    BY <2>2
  <2>8. hs # {} => \E h \in hs : Nearest(h)
    BY <2>2, GreatestNumber
  <2> HIDE DEF hs, Nearest
  <2>9. CASE hs = {}
    BY <2>3, <2>5, <2>9
  <2>10. CASE hs # {}
    <3>1. HeaderOf(p) \in hs /\ Nearest(HeaderOf(p))
      BY <2>3, <2>8, <2>10
    <3>2. HeaderOf(p) # 0
      BY <2>2, <3>1
    <3> QED
      BY <2>5, <2>6, <2>7, <3>1, <3>2
  <2> QED
    BY <2>9, <2>10
<1>5. RecordsOf(b) = { p \in RecsTo(walked) : HeaderOf(p) # 0 /\ BootAtPlace(p) = b }
  BY <1>3 DEF RecordsOf
<1> QED
  BY <1>4, <1>5 DEF OwnedBy

\* anchor_id_map: the anchor an entry was resolved with has an id.
LEMMA AnchorIsFound ==
  ASSUME DOMAIN anchors = 1..Len(anchors), NEW a, Anchored(a), a.offset # 0
  PROVE  /\ a # NoAnchor /\ AnchorId(a) \in DOMAIN anchors
         /\ anchors[AnchorId(a)].file = a.file /\ anchors[AnchorId(a)].offset = a.offset
<1> DEFINE at == { i \in DOMAIN anchors : anchors[i].file = a.file /\ anchors[i].offset = a.offset }
<1>1. a # NoAnchor
  BY DEF NoAnchor
<1>2. at # {}
  BY DEF Anchored, SamePlace
<1>3. AnchorId(a) = CHOOSE i \in at : TRUE
  BY <1>2 DEF AnchorId
<1>4. AnchorId(a) \in at
  BY <1>2, <1>3
<1> QED
  BY <1>1, <1>4

\* TimesAreExact says this of every row.
RowIsExact(row) ==
  LET e    == archive.tracev3[row.file][row.at]
      base == BaseOf(e)
  IN  IF HeadersOf(row.boot) = {} \/ (base # 0 /\ RecordsOf(row.boot) = {})
      THEN row.ns = 0 /\ row.anchor = 0
      ELSE InOrder(row.boot) =>
             LET p    == ExpectedAnchor(row.boot, row.mach, base)
                 from == IF ItemAt(p).is = "boot" THEN 0 ELSE ItemAt(p).kernel
                 head == ItemAt(Earliest(HeadersOf(row.boot)))
             IN  /\ row.ns = ItemAt(p).wall + Scaled(head, row.mach - from)
                 /\ row.anchor \in DOMAIN anchors
                 /\ << sources[anchors[row.anchor].file], anchors[row.anchor].offset >> = p
                 /\ row.source = anchors[row.anchor].file

\* What is told of a boot that the timesync files describe: its header and its records are
\* where the bytes have them, and each has an anchor.
BootIsTold(b, hp, pl, R) ==
  LET rs == b.records
  IN  /\ HeadersOf(b.boot) # {} /\ Earliest(HeadersOf(b.boot)) = hp /\ hp = PlaceIn(sources, b)
      /\ ItemAt(hp).is = "boot" /\ ItemAt(hp).wall = b.wall /\ ItemAt(hp).timebase = b.timebase
      /\ b.offset # 0 /\ Anchored(b)
      /\ R = RecordsOf(b.boot) /\ R \subseteq Nat \X Nat /\ Follows(pl, R)
      /\ Len(rs) \in Nat /\ DOMAIN rs = 1..Len(rs) /\ Len(pl) = Len(rs)
      /\ \A j \in 1..Len(rs) :
           /\ pl[j] = PlaceIn(sources, rs[j]) /\ pl[j] \in R /\ ItemAt(pl[j]).is = "record"
           /\ ItemAt(pl[j]).kernel = rs[j].kernel /\ rs[j].kernel \in Nat
           /\ ItemAt(pl[j]).wall = rs[j].wall /\ rs[j].offset # 0 /\ Anchored(rs[j])
\* Once the set-up is over every boot of the dict is told so.
LEMMA BootsAreTold ==
  ASSUME TimelineInv, TimesInv, Parsing, NEW i \in 1..Len(boots)
  PROVE  LET b == boots[i]
         IN  BootIsTold(b, PlaceIn(sources, b), PlacesOf(sources, b.records), RecordsOf(b.boot))
<1> DEFINE b == boots[i]
           rs == b.records
           hp == PlaceIn(sources, b)
           pl == PlacesOf(sources, rs)
           H == HeadsTo(walked)
           R == RecordsOf(b.boot)
<1>1. /\ RanksHold /\ BooksHold /\ AnchorsHold /\ walked = Len(Files) /\ archive \in Archives
  BY DEF TimelineInv, TimesInv, RanksHold, Parsing
<1>2. /\ IsBook(boots) /\ HeadTold(b, H, Files, sources, Len(sources))
      /\ RecordsTold(RecordsIn(boots, b.boot), OwnedBy(Files, RecsTo(walked), b.boot), Files, sources, Len(sources))
  BY <1>1 DEF BooksHold, BookTold
<1>3. RecordsIn(boots, b.boot) = rs /\ R = OwnedBy(Files, RecsTo(walked), b.boot)
  BY <1>1, <1>2, BookIsRead, RecordsAreRecords
<1>4. HeadersOf(b.boot) = { p \in H : NameAt(Files, p) = b.boot }
  BY <1>1, HeadsAreHeaders
<1>5. hp \in HeadersOf(b.boot) /\ \A q \in HeadersOf(b.boot) : q = hp \/ Earlier(hp, q)
  BY <1>2, <1>4 DEF HeadTold
<1>6. walked \in Nat /\ H \subseteq Nat \X Nat /\ RecsTo(walked) \subseteq Nat \X Nat
  <2>1. walked \in Nat
    BY <1>1, ArchivesAreFiles
  <2> QED
    BY <2>1, HeadsArePlaces, RecordsArePlaces
<1>7. HeadersOf(b.boot) \subseteq Nat \X Nat /\ R \subseteq Nat \X Nat
  BY <1>3, <1>4, <1>6 DEF OwnedBy
<1>8. Earliest(HeadersOf(b.boot)) = hp /\ HeadersOf(b.boot) # {}
  <2> HIDE DEF hp
  <2> QED
    BY <1>5, <1>7, TheLatest
<1>9. /\ ItemAt(hp).is = "boot" /\ ItemAt(hp).wall = b.wall /\ ItemAt(hp).timebase = b.timebase
      /\ b.offset # 0
  <2>1. ItemAt(hp).is = "boot"
    BY <1>5 DEF HeadersOf
  <2>2. ItemAt(hp) = Files[sources[b.file]][b.offset]
    BY DEF ItemAt, PlaceIn
  <2> QED
    BY <1>2, <2>1, <2>2 DEF HeadTold
<1>10. Anchored(b) /\ \A j \in 1..Len(rs) : Anchored(rs[j])
  BY <1>1 DEF AnchorsHold
<1>11. /\ Follows(pl, R)
       /\ \A j \in 1..Len(rs) : RecordTold(rs[j], Files, sources, Len(sources))
  BY <1>2, <1>3 DEF RecordsTold
<1>12. Len(rs) \in Nat /\ DOMAIN rs = 1..Len(rs)
  <2>1. rs \in Seq(Range(rs))
    BY <1>2 DEF IsBook, IsEntryOfBook
  <2> QED
    BY <2>1, LenProperties
<1>13. Len(pl) = Len(rs) /\ \A j \in 1..Len(rs) : pl[j] = PlaceIn(sources, rs[j])
  <2> HIDE DEF rs
  <2>1. DOMAIN pl = 1..Len(rs) /\ \A j \in 1..Len(rs) : pl[j] = PlaceIn(sources, rs[j])
    BY DEF PlacesOf
  <2>2. pl \in Seq(R)
    BY <1>11 DEF Follows
  <2> HIDE DEF pl
  <2>3. DOMAIN pl = 1..Len(pl) /\ Len(pl) \in Nat
    BY <2>2, LenProperties, SMTT(30)
  <2> QED
    BY <1>12, <2>1, <2>3
<1>14. ASSUME NEW j \in 1..Len(rs)
       PROVE  /\ pl[j] \in R /\ ItemAt(pl[j]).is = "record"
              /\ ItemAt(pl[j]).kernel = rs[j].kernel /\ rs[j].kernel \in Nat
              /\ ItemAt(pl[j]).wall = rs[j].wall /\ rs[j].offset # 0
  <2>1. pl[j] \in R
    <3>1. pl \in Seq(R) /\ j \in 1..Len(pl)
      BY <1>11, <1>13 DEF Follows
    <3> HIDE DEF pl, R
    <3> QED
      BY <3>1, ElementOfSeq
  <2>2. ItemAt(pl[j]).is = "record"
    BY <2>1 DEF RecordsOf
  <2>3. ItemAt(pl[j]) = Files[sources[rs[j].file]][rs[j].offset]
    BY <1>13 DEF ItemAt, PlaceIn
  <2>4. RecordTold(rs[j], Files, sources, Len(sources))
    BY <1>11
  <2> QED
    BY <2>1, <2>2, <2>3, <2>4, Zenon DEF RecordTold
<1> HIDE DEF hp, pl, R
<1>15. BootIsTold(b, hp, pl, R)
  BY <1>7, <1>8, <1>9, <1>10, <1>11, <1>12, <1>13, <1>14 DEF BootIsTold, hp, R
<1> QED
  BY <1>15 DEF hp, pl, R

\* _select_anchor: the anchor of a boot that is told is the expected one.
LEMMA AnchorIsExpected ==
  ASSUME NEW b, NEW hp, NEW pl, NEW R, BootIsTold(b, hp, pl, R), NEW t \in Nat, NEW base \in Nat,
         ~(base # 0 /\ R = {}), InOrder(b.boot)
  PROVE  LET a == SelectAnchor(b, t, base)
             p == ExpectedAnchor(b.boot, t, base)
         IN  /\ PlaceIn(sources, a) = p /\ Anchored(a) /\ a.offset # 0 /\ a.wall = ItemAt(p).wall
             /\ a.kernel = IF ItemAt(p).is = "boot" THEN 0 ELSE ItemAt(p).kernel
<1> DEFINE rs == b.records
           n == AtOrBefore(rs, t)
           head == [kernel |-> 0, wall |-> b.wall, offset |-> b.offset, file |-> b.file]
           k == [p \in R |-> ItemAt(p).kernel]
           low == { p \in R : ItemAt(p).kernel <= t }
           a == SelectAnchor(b, t, base)
           p == ExpectedAnchor(b.boot, t, base)
           Goal(x, q) == /\ PlaceIn(sources, x) = q /\ Anchored(x) /\ x.offset # 0 /\ x.wall = ItemAt(q).wall
                         /\ x.kernel = IF ItemAt(q).is = "boot" THEN 0 ELSE ItemAt(q).kernel
<1>1. /\ Earliest(HeadersOf(b.boot)) = hp /\ hp = PlaceIn(sources, b)
      /\ ItemAt(hp).is = "boot" /\ ItemAt(hp).wall = b.wall
      /\ b.offset # 0 /\ Anchored(b)
      /\ R = RecordsOf(b.boot) /\ R \subseteq Nat \X Nat /\ Follows(pl, R)
      /\ Len(rs) \in Nat /\ DOMAIN rs = 1..Len(rs) /\ Len(pl) = Len(rs)
      /\ \A j \in 1..Len(rs) :
           /\ pl[j] = PlaceIn(sources, rs[j]) /\ pl[j] \in R /\ ItemAt(pl[j]).is = "record"
           /\ ItemAt(pl[j]).kernel = rs[j].kernel /\ rs[j].kernel \in Nat
           /\ ItemAt(pl[j]).wall = rs[j].wall /\ rs[j].offset # 0 /\ Anchored(rs[j])
  BY DEF BootIsTold
<1> HIDE DEF rs
<1>2. /\ n \in 0..Len(rs) /\ \A i \in 1..n : rs[i].kernel <= t
      /\ n < Len(rs) => ~(rs[n + 1].kernel <= t)
  BY <1>1, FoundIsLastAtOrBefore
<1>3. a = CASE n > 0                             -> rs[n]
            [] n = 0 /\ base = 0                 -> head
            [] n = 0 /\ base # 0 /\ rs # <<>>    -> rs[1]
            [] n = 0 /\ base # 0 /\ rs = <<>>    -> NoAnchor
  BY DEF SelectAnchor, AtOrBefore, rs
<1>4. p = IF low # {} THEN Latest(low)
          ELSE IF base = 0 THEN Earliest(HeadersOf(b.boot)) ELSE Earliest(R)
  BY <1>1 DEF ExpectedAnchor
<1> HIDE DEF n, a, p
<1>5. \A q \in R : \E j \in 1..Len(rs) : pl[j] = q
  BY <1>1 DEF Follows
<1>6. k \in [R -> Nat] /\ \A q \in R : k[q] = ItemAt(q).kernel
  <2>1. \A q \in R : ItemAt(q).kernel \in Nat
    <3> SUFFICES ASSUME NEW q \in R PROVE ItemAt(q).kernel \in Nat
      OBVIOUS
    <3>1. PICK j \in 1..Len(rs) : pl[j] = q
      BY <1>5
    <3>2. ItemAt(pl[j]).kernel = rs[j].kernel /\ rs[j].kernel \in Nat
      BY <1>1
    <3> QED
      BY <3>1, <3>2
  <2> QED
    BY <2>1
<1>7. \A q, r \in R : Earlier(q, r) => k[q] <= k[r]
  <2> SUFFICES ASSUME NEW q \in R, NEW r \in R, Earlier(q, r) PROVE k[q] <= k[r]
    OBVIOUS
  <2>1. q = <<q[1], q[2]>> /\ r = <<r[1], r[2]>> /\ {q[1], q[2], r[1], r[2]} \subseteq Int
    BY <1>1
  <2>2. Before(<<q[1], q[2]>>, <<r[1], r[2]>>) <=> q[1] < r[1] \/ (q[1] = r[1] /\ q[2] < r[2])
    BY <2>1, PairsInOrder
  <2>3. Later(r, q)
    BY <2>1, <2>2 DEF Later, Earlier
  <2>4. q \in RecordsOf(b.boot) /\ r \in RecordsOf(b.boot)
    BY <1>1
  <2>5. ItemAt(q).kernel <= ItemAt(r).kernel
    BY <2>3, <2>4 DEF InOrder
  <2> QED
    BY <1>6, <2>5
<1>8. low = { q \in R : k[q] <= t }
  BY <1>6
<1> HIDE DEF k, low
<1>9. /\ n > 0 => pl[n] \in low /\ Latest(low) = pl[n]
      /\ n = 0 => low = {}
  <2>1. n \in 0..Len(pl) /\ \A i \in 1..n : k[pl[i]] <= t
    <3> SUFFICES ASSUME NEW i \in 1..n PROVE k[pl[i]] <= t
      BY <1>1, <1>2
    <3>1. i \in 1..Len(rs)
      BY <1>1, <1>2
    <3>2. pl[i] \in R /\ ItemAt(pl[i]).kernel = rs[i].kernel /\ rs[i].kernel <= t
      BY <1>1, <1>2, <3>1
    <3> QED
      BY <1>6, <3>2
  <2>2. n < Len(pl) => ~(k[pl[n + 1]] <= t)
    <3> SUFFICES ASSUME n < Len(pl) PROVE ~(k[pl[n + 1]] <= t)
      OBVIOUS
    <3> DEFINE m == n + 1
    <3>1. m \in 1..Len(rs) /\ ~(rs[m].kernel <= t)
      BY <1>1, <1>2
    <3> HIDE DEF m
    <3>2. pl[m] \in R /\ ItemAt(pl[m]).kernel = rs[m].kernel
      BY <1>1, <3>1
    <3>3. k[pl[m]] = rs[m].kernel
      BY <1>6, <3>2
    <3> QED
      BY <3>1, <3>3 DEF m
  <2> QED
    <3>1. R \subseteq Nat \X Nat /\ k \in [R -> Nat] /\ t \in Nat /\ Follows(pl, R)
      BY <1>1, <1>6
    <3>2. LatestIsAt(pl, n, R, k, t)
      BY ONLY <3>1, <1>7, <2>1, <2>2, Selected
    <3> QED
      BY <1>8, <3>2 DEF LatestIsAt
<1>10. ASSUME NEW j \in 1..Len(rs) PROVE Goal(rs[j], pl[j])
  <2>1. "record" # "boot"
    OBVIOUS
  <2> QED
    BY <1>1, <2>1
<1>11. Goal(head, hp)
  <2>1. /\ head.kernel = 0 /\ head.wall = b.wall /\ head.offset = b.offset /\ head.file = b.file
    OBVIOUS
  <2> HIDE DEF head
  <2>2. PlaceIn(sources, head) = hp /\ Anchored(head)
    BY <1>1, <2>1 DEF PlaceIn, Anchored, SamePlace
  <2> QED
    BY <1>1, <2>1, <2>2
<1> HIDE DEF Goal, head
<1>12. CASE n > 0
  <2>1. n \in 1..Len(rs) /\ a = rs[n]
    BY <1>1, <1>2, <1>3, <1>12
  <2>2. p = pl[n]
    BY <1>4, <1>9, <1>12
  <2>3. Goal(a, p)
    BY <1>10, <2>1, <2>2
  <2> QED
    BY <2>3 DEF Goal, a, p
<1>13. CASE n = 0 /\ base = 0
  <2>1. a = head /\ p = hp
    BY <1>1, <1>3, <1>4, <1>9, <1>13
  <2>2. Goal(a, p)
    BY <1>11, <2>1
  <2> QED
    BY <2>2 DEF Goal, a, p
<1>14. CASE n = 0 /\ base # 0
  <2>1. /\ R # {} /\ (R = {} <=> Len(pl) = 0) /\ Len(pl) \in Nat
        /\ (Len(pl) > 0 => pl[1] \in R /\ Earliest(R) = pl[1])
    BY <1>1, <1>14, FirstIsEarliest
  <2>2. Len(rs) > 0 /\ 1 \in 1..Len(rs) /\ rs # <<>>
    <3>1. Len(<<>>) = 0
      OBVIOUS
    <3> QED
      BY <1>1, <2>1, <3>1
  <2>3. a = rs[1] /\ p = pl[1]
    BY <1>1, <1>3, <1>4, <1>9, <1>14, <2>1, <2>2
  <2>4. Goal(a, p)
    BY <1>10, <2>2, <2>3
  <2> QED
    BY <2>4 DEF Goal, a, p
<1> QED
  BY <1>2, <1>12, <1>13, <1>14

\* A boot that no timesync file describes is not in the dict either.
LEMMA UnnamedHasNoHeader ==
  ASSUME TimelineInv, TimesInv, Parsing, NEW b, ~Named(boots, b)
  PROVE  HeadersOf(b) = {}
<1> DEFINE H == HeadsTo(walked)
<1>1. /\ RanksHold /\ BooksHold /\ walked = Len(Files) /\ InOrderSeen(ranks, H, Files)
  BY DEF TimelineInv, TimesInv, RanksHold, Parsing
<1>2. /\ IsDict(boots) /\ ranks = NamesOf(boots)
  BY <1>1 DEF BooksHold, BookTold, IsBook
<1>3. HeadersOf(b) = { p \in H : NameAt(Files, p) = b }
  BY <1>1, HeadsAreHeaders
<1>4. Len(ranks) = Len(boots) /\ \A k \in 1..Len(boots) : ranks[k] = boots[k].boot
  BY <1>2, NamesAreNames
<1>5. \A p \in H : \E k \in 1..Len(ranks) : ranks[k] = NameAt(Files, p)
  BY <1>1 DEF InOrderSeen, SeenAt
<1> HIDE DEF H
<1> QED
  BY <1>3, <1>4, <1>5 DEF Named

\* resolve_mach_timestamp and the row it ends in: a row that says what the boots say of its
\* entry says what the bytes do.
LEMMA RowIsResolved ==
  ASSUME TimelineInv, TimesInv, Parsing, NEW e, NEW at, NEW f,
         archive.tracev3[f][at] = e, e.base \in Nat, e.delta \in Nat
  PROVE  RowIsExact(RowOfEntry(e, at, f))
<1> DEFINE row == RowOfEntry(e, at, f)
           t == e.base + e.delta
           base == BaseOf(e)
           r == Resolve(e.boot, t, base)
<1>1. /\ row.file = f /\ row.at = at /\ row.boot = e.boot /\ row.mach = t /\ row.ns = r.ns
      /\ row.anchor = IF r.anchor = NoAnchor THEN 0 ELSE AnchorId(r.anchor)
      /\ r.anchor # NoAnchor => row.source = r.anchor.file
  BY DEF RowOfEntry
<1>2. t \in Nat /\ base \in Nat
  BY DEF BaseOf
<1>3. IsBook(boots) /\ DOMAIN anchors = 1..Len(anchors)
  BY DEF TimesInv, BooksHold, BookTold, AnchorsHold
<1> HIDE DEF row
<1>4. CASE ~Named(boots, e.boot)
  <2>1. HeadersOf(row.boot) = {}
    BY <1>1, <1>4, UnnamedHasNoHeader
  <2>2. IndexOf(boots, e.boot) = {}
    BY <1>3, <1>4, BookIsRead
  <2>3. r = [ns |-> 0, anchor |-> NoAnchor]
    BY <2>2 DEF Resolve
  <2>4. row.ns = 0 /\ row.anchor = 0
    BY <1>1, <2>3
  <2> QED
    BY <2>1, <2>4 DEF RowIsExact, row
<1>5. CASE Named(boots, e.boot)
  <2>1. PICK i \in 1..Len(boots) : boots[i].boot = e.boot
    BY <1>5 DEF Named
  <2> DEFINE b == boots[i]
             hp == PlaceIn(sources, b)
             pl == PlacesOf(sources, b.records)
             R == RecordsOf(b.boot)
             a == SelectAnchor(b, t, base)
             p == ExpectedAnchor(b.boot, t, base)
  <2>2. BootIsTold(b, hp, pl, R)
    BY BootsAreTold
  <2>3. IndexOf(boots, e.boot) = {i}
    BY <1>3, <2>1, BookIsRead
  <2>4. r = IF a = NoAnchor THEN [ns |-> 0, anchor |-> NoAnchor]
            ELSE [ns |-> a.wall + Scaled(b, t - a.kernel), anchor |-> a]
    <3>1. (CHOOSE k \in IndexOf(boots, e.boot) : TRUE) = i /\ IndexOf(boots, e.boot) # {}
      BY <2>3
    <3> QED
      BY <3>1 DEF Resolve
  <2>5. /\ HeadersOf(b.boot) # {} /\ Earliest(HeadersOf(b.boot)) = hp /\ ItemAt(hp).timebase = b.timebase
        /\ R \subseteq Nat \X Nat /\ Follows(pl, R)
        /\ Len(b.records) \in Nat /\ Len(pl) = Len(b.records)
    BY <2>2 DEF BootIsTold
  <2>6. row.boot = b.boot
    BY <1>1, <2>1
  <2>7. CASE base # 0 /\ R = {}
    <3>1. Len(pl) = 0
      BY <2>5, <2>7, FirstIsEarliest
    <3>2. b.records = <<>>
      <4>1. b.records \in Seq(Range(b.records))
        BY <1>3 DEF IsBook, IsEntryOfBook
      <4>2. Len(b.records) = 0
        BY <2>5, <3>1
      <4> HIDE DEF b
      <4> QED
        BY <4>1, <4>2
    <3>3. AtOrBefore(b.records, t) = 0
      <4>1. Len(<<>>) = 0 /\ DOMAIN <<>> = 1..0
        OBVIOUS
      <4>2. \A k \in 1..Len(<<>>) : <<>>[k].kernel \in Nat
        BY <4>1
      <4> HIDE DEF t
      <4>3. AtOrBefore(<<>>, t) \in 0..Len(<<>>)
        BY <1>2, <4>1, <4>2, FoundIsLastAtOrBefore
      <4> QED
        BY <3>2, <4>1, <4>3
    <3>4. a = NoAnchor
      <4> HIDE DEF b, t, base
      <4> QED
        BY <2>7, <3>2, <3>3 DEF SelectAnchor, AtOrBefore
    <3>5. row.ns = 0 /\ row.anchor = 0
      BY <1>1, <2>4, <3>4
    <3> QED
      BY <1>1, <2>6, <2>7, <3>5 DEF RowIsExact, row
  <2>8. CASE ~(base # 0 /\ R = {})
    <3> SUFFICES ASSUME InOrder(b.boot)
                 PROVE  LET from == IF ItemAt(p).is = "boot" THEN 0 ELSE ItemAt(p).kernel
                        IN  /\ row.ns = ItemAt(p).wall + Scaled(ItemAt(hp), t - from)
                            /\ row.anchor \in DOMAIN anchors
                            /\ << sources[anchors[row.anchor].file], anchors[row.anchor].offset >> = p
                            /\ row.source = anchors[row.anchor].file
      BY <1>1, <2>5, <2>6, <2>8 DEF RowIsExact, row
    <3> DEFINE from == IF ItemAt(p).is = "boot" THEN 0 ELSE ItemAt(p).kernel
    <3>1. /\ PlaceIn(sources, a) = p /\ Anchored(a) /\ a.offset # 0 /\ a.wall = ItemAt(p).wall
          /\ a.kernel = from
      <4> HIDE DEF b, hp, pl, R, t, base
      <4> QED
        BY <1>2, <2>2, <2>8, AnchorIsExpected
    <3> HIDE DEF a, p, from
    <3>2. /\ a # NoAnchor /\ AnchorId(a) \in DOMAIN anchors
          /\ anchors[AnchorId(a)].file = a.file /\ anchors[AnchorId(a)].offset = a.offset
      BY <1>3, <3>1, AnchorIsFound
    <3>3. r.ns = a.wall + Scaled(b, t - a.kernel) /\ r.anchor = a
      BY <2>4, <3>2
    <3>4. Scaled(b, t - a.kernel) = Scaled(ItemAt(hp), t - from)
      <4> HIDE DEF b, hp, t
      <4> QED
        BY <2>5, <3>1 DEF Scaled
    <3>5. << sources[a.file], a.offset >> = p
      BY <3>1 DEF PlaceIn
    <3>6. row.anchor = AnchorId(a) /\ row.source = a.file /\ row.ns = r.ns
      BY <1>1, <3>2, <3>3
    <3> HIDE DEF r, b, hp, t
    <3> QED
      BY <3>1, <3>2, <3>3, <3>4, <3>5, <3>6, SMTT(30) DEF from
  <2> QED
    BY <2>7, <2>8
<1> QED
  BY <1>4, <1>5

\* Every row that is stored, whichever worker resolved it.
LEMMA RowsAreExact == TimelineInv /\ TimesInv => TimesAreExact
<1> SUFFICES ASSUME TimelineInv, TimesInv, NEW id \in DOMAIN logs PROVE RowIsExact(logs[id])
  BY DEF TimesAreExact, RowIsExact
<1> DEFINE row == logs[id]
           e == EntryOf(row)
<1>1. archive \in Archives /\ RowsHold /\ LogsHold
  BY DEF TimelineInv, TimesInv, RanksHold
<1>2. DOMAIN logs = 1..Len(logs)
  BY <1>1, LenProperties DEF RowsHold
<1>3. Parsing
  <2>1. logs # <<>>
    OBVIOUS
  <2> QED
    BY <1>1, <2>1 DEF LogsHold
<1>4. row = RowOfEntry(e, row.at, row.file)
  BY <1>1, <1>2 DEF LogsHold
<1>5. row.file \in DOMAIN archive.tracev3 /\ row.at \in DOMAIN archive.tracev3[row.file]
  BY <1>1, <1>2 DEF RowsHold
<1>6. e.base \in Nat /\ e.delta \in Nat /\ archive.tracev3[row.file][row.at] = e
  BY <1>1, <1>5, TimelineAssumption DEF EntryOf
<1> HIDE DEF row, e
<1>7. RowIsExact(RowOfEntry(e, row.at, row.file))
  BY <1>3, <1>6, RowIsResolved
<1> QED
  BY <1>4, <1>7 DEF row

\* Whatever the archive, the files that fail and the order the workers store in, every
\* stored entry has the time and the anchor that the bytes of the timesync files give it.
THEOREM TimesAreThoseOfTheBytes == TimelineSpec => []TimesAreExact
<1> DEFINE Inv == TimelineInv /\ TimesInv
<1>1. TimelineInit => Inv
  BY TimelineStarts, TimesStart
<1>2. Inv /\ [TimelineNext]_timeline => Inv'
  BY TimelineStep, TimesStep
<1>3. Inv => TimesAreExact
  BY RowsAreExact
<1> QED
  BY <1>1, <1>2, <1>3, PTL DEF TimelineSpec
=============================================================================
