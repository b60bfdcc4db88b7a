----------------------------- MODULE EventProofs -----------------------------
(* Proofs about the way of an event: EventBus, from Publish to the channels  *)
(* of the subscribers, for any number of channels, events and capacities,    *)
(* and at the end WsHub, from such a channel to the browsers.                *)
EXTENDS EventBus, WsHub, TLAPS, SequenceTheorems

-----------------------------------------------------------------------------
(* Lists without duplicates, and slices of an array.                       *)

(* A function on 1 .. n is a sequence of length n. *)
LEMMA FunctionIsSeq ==
    ASSUME NEW S, NEW n \in Nat, NEW f \in [1 .. n -> S]
    PROVE  f \in Seq(S) /\ Len(f) = n
<1>1. f \in Seq(S)
  BY SeqDef, Zenon
<1>2. 1 .. Len(f) = 1 .. n /\ Len(f) \in Nat
  BY <1>1, LenProperties
<1> QED
  BY <1>1, <1>2

Entries(s) == {s[k] : k \in DOMAIN s}
Once(s) == \A i, k \in DOMAIN s : s[i] = s[k] => i = k

(* Appending adds one entry. *)
LEMMA AppendedOnce ==
    ASSUME NEW S, NEW s \in Seq(S), NEW x \in S
    PROVE  /\ Append(s, x) \in Seq(S)
           /\ Entries(Append(s, x)) = Entries(s) \cup {x}
           /\ Once(s) /\ x \notin Entries(s) => Once(Append(s, x))
<1> DEFINE t == Append(s, x)
<1>1. /\ Len(s) \in Nat /\ DOMAIN s = 1 .. Len(s)
      /\ t \in Seq(S) /\ DOMAIN t = 1 .. Len(s) + 1
      /\ t[Len(s) + 1] = x /\ \A i \in 1 .. Len(s) : t[i] = s[i]
  BY AppendProperties, LenProperties
<1> HIDE DEF t
<1>2. Entries(t) = Entries(s) \cup {x}
  <2>1. ASSUME NEW y \in Entries(t) PROVE y \in Entries(s) \cup {x}
    BY <1>1, <2>1 DEF Entries
  <2>2. ASSUME NEW y \in Entries(s) PROVE y \in Entries(t)
    BY <1>1, <2>2 DEF Entries
  <2>3. x \in Entries(t)
    BY <1>1 DEF Entries
  <2> QED
    BY <2>1, <2>2, <2>3
<1>3. Once(s) /\ x \notin Entries(s) => Once(t)
  BY <1>1 DEF Entries, Once
<1> QED
  BY <1>1, <1>2, <1>3 DEF t

(* Cutting position i out takes away that entry only. *)
LEMMA CutOnce ==
    ASSUME NEW S, NEW s \in Seq(S), NEW i \in DOMAIN s, Once(s)
    PROVE  LET t == SubSeq(s, 1, i - 1) \o SubSeq(s, i + 1, Len(s)) IN
              t \in Seq(S) /\ Entries(t) = Entries(s) \ {s[i]} /\ Once(t)
<1> DEFINE a == SubSeq(s, 1, i - 1)
           b == SubSeq(s, i + 1, Len(s))
           t == a \o b
           n == Len(s)
<1>1. n \in Nat /\ DOMAIN s = 1 .. n /\ i \in 1 .. n /\ \A k \in 1 .. n : s[k] \in S
  BY LenProperties, ElementOfSeq
<1>2. a \in Seq(S) /\ Len(a) = i - 1 /\ \A k \in 1 .. i - 1 : a[k] = s[k]
  <2>1. \A k \in 1 .. i - 1 : s[k] \in S
    BY <1>1
  <2>2. /\ a \in Seq(S)
        /\ Len(a) = IF 1 <= i - 1 THEN i - 1 - 1 + 1 ELSE 0
        /\ \A k \in 1 .. i - 1 - 1 + 1 : a[k] = s[1 + k - 1]
    BY <1>1, <2>1, SubSeqProperties
  <2> QED
    BY <1>1, <2>2
<1>3. b \in Seq(S) /\ Len(b) = n - i /\ \A k \in 1 .. n - i : b[k] = s[i + k]
  <2>1. \A k \in i + 1 .. n : s[k] \in S
    BY <1>1
  <2>2. /\ b \in Seq(S)
        /\ Len(b) = IF i + 1 <= n THEN n - (i + 1) + 1 ELSE 0
        /\ \A k \in 1 .. n - (i + 1) + 1 : b[k] = s[i + 1 + k - 1]
    BY <1>1, <2>1, SubSeqProperties
  <2>3. n - (i + 1) + 1 = n - i /\ \A k \in 1 .. n - i : i + 1 + k - 1 = i + k
    BY <1>1
  <2>4. Len(b) = n - i
    BY <1>1, <2>2
  <2> QED
    BY <2>2, <2>3, <2>4
<1> HIDE DEF a, b
<1>4. /\ t \in Seq(S) /\ Len(t) = n - 1 /\ DOMAIN t = 1 .. n - 1
      /\ \A k \in 1 .. n - 1 : t[k] = IF k < i THEN s[k] ELSE s[k + 1]
  <2>1. /\ t \in Seq(S) /\ Len(t) = Len(a) + Len(b)
        /\ \A k \in 1 .. Len(a) + Len(b) : t[k] = IF k <= Len(a) THEN a[k] ELSE b[k - Len(a)]
    BY <1>2, <1>3, ConcatProperties
  <2>2. DOMAIN t = 1 .. Len(t)
    BY <2>1, LenProperties
  <2>3. Len(t) = n - 1 /\ Len(a) + Len(b) = n - 1
    BY <1>1, <1>2, <1>3, <2>1
  <2>4. ASSUME NEW k \in 1 .. n - 1 PROVE t[k] = IF k < i THEN s[k] ELSE s[k + 1]
    <3>1. t[k] = IF k <= i - 1 THEN a[k] ELSE b[k - (i - 1)]
      BY <1>2, <2>1, <2>3
    <3>2. CASE k < i
      BY <1>1, <1>2, <3>1, <3>2
    <3>3. CASE ~(k < i)
      <4>1. k - (i - 1) \in 1 .. n - i /\ i + (k - (i - 1)) = k + 1
        BY <1>1, <3>3
      <4>2. b[k - (i - 1)] = s[k + 1]
        BY <1>3, <4>1
      <4> QED
        BY <1>1, <3>1, <3>3, <4>2
    <3> QED
      BY <3>2, <3>3
  <2> QED
    BY <2>1, <2>2, <2>3, <2>4
<1> HIDE DEF t
<1>5. Entries(t) = Entries(s) \ {s[i]}
  <2>1. ASSUME NEW y \in Entries(t) PROVE y \in Entries(s) \ {s[i]}
    BY <1>1, <1>4, <2>1 DEF Entries, Once
  <2>2. ASSUME NEW y \in Entries(s) \ {s[i]} PROVE y \in Entries(t)
    <3>1. PICK k \in 1 .. n : s[k] = y /\ k # i
      BY <1>1, <2>2 DEF Entries
    <3>2. CASE k < i
      BY <1>1, <1>4, <3>1, <3>2 DEF Entries
    <3>3. CASE k > i
      <4>1. k - 1 \in DOMAIN t /\ t[k - 1] = s[k]
        BY <1>1, <1>4, <3>1, <3>3
      <4> QED
        BY <3>1, <4>1 DEF Entries
    <3> QED
      BY <1>1, <3>1, <3>2, <3>3
  <2> QED
    BY <2>1, <2>2
<1>6. Once(t)
  <2> SUFFICES ASSUME NEW k \in 1 .. n - 1, NEW m \in 1 .. n - 1, t[k] = t[m] PROVE k = m
    BY <1>4 DEF Once
  <2> DEFINE from(q) == IF q < i THEN q ELSE q + 1
  <2>1. from(k) \in DOMAIN s /\ from(m) \in DOMAIN s
    BY <1>1
  <2>2. s[from(k)] = s[from(m)]
    BY <1>4
  <2>3. from(k) = from(m)
    BY <2>1, <2>2 DEF Once
  <2> QED
    BY <1>1, <2>3
<1> QED
  BY <1>4, <1>5, <1>6 DEF t, a, b

-----------------------------------------------------------------------------
(* Types of the bus: no header reaches beyond what was written.            *)

Within(A, h) ==
    /\ h \in Slice
    /\ h.array <= Len(A)
    /\ h.len <= IF h.array = 0 THEN 0 ELSE Len(A[h.array])
    /\ \A k \in 1 .. h.len : A[h.array][k] \in TenantSubs

Arrays == Seq(Seq(TenantSubs \cup {NoSub}))

(* Writing channels into an array, or allocating another one, cuts no header. *)
LEMMA WithinKept ==
    ASSUME NEW A \in Arrays, NEW B \in Arrays, Len(A) <= Len(B),
           \A a \in 1 .. Len(A) :
              /\ Len(B[a]) = Len(A[a])
              /\ \A k \in 1 .. Len(A[a]) : A[a][k] \in TenantSubs => B[a][k] \in TenantSubs,
           NEW h, Within(A, h)
    PROVE  Within(B, h)
<1>1. Len(A) \in Nat /\ Len(B) \in Nat /\ h.array \in Nat /\ h.len \in Nat
  BY LenProperties DEF Arrays, Within, Slice
<1>2. CASE h.array = 0
  BY <1>1, <1>2 DEF Within
<1>3. CASE h.array # 0
  <2>1. h.array \in 1 .. Len(A)
    BY <1>1, <1>3 DEF Within
  <2>2. A[h.array] \in Seq(TenantSubs \cup {NoSub})
    BY <2>1, ElementOfSeq DEF Arrays
  <2>3. Len(A[h.array]) \in Nat
    BY <2>2, LenProperties
  <2> QED
    BY <1>1, <1>3, <2>1, <2>3 DEF Within
<1> QED
  BY <1>2, <1>3

LEMMA FitsWithin ==
    \A h : Fits(h) <=> Within(arrays, h)
BY DEF Fits, Within, Cap, Element

(* The array a header points to. *)
LEMMA HeaderArray ==
    ASSUME NEW A \in Arrays, NEW h, Within(A, h), h.array # 0
    PROVE  /\ Len(A) \in Nat /\ h.len \in Nat /\ h.array \in 1 .. Len(A)
           /\ A[h.array] \in Seq(TenantSubs \cup {NoSub})
           /\ Len(A[h.array]) \in Nat /\ h.len <= Len(A[h.array])
           /\ DOMAIN A[h.array] = 1 .. Len(A[h.array])
           /\ \A k \in 1 .. h.len : A[h.array][k] \in TenantSubs
<1>1. Len(A) \in Nat /\ h.array \in Nat /\ h.len \in Nat
  BY LenProperties DEF Arrays, Within, Slice
<1>2. h.array \in 1 .. Len(A)
  BY <1>1 DEF Within
<1>3. A[h.array] \in Seq(TenantSubs \cup {NoSub})
  BY <1>2, ElementOfSeq DEF Arrays
<1> QED
  BY <1>1, <1>2, <1>3, LenProperties DEF Within

(* What the list of the tenant holds, each channel once. *)
Listed(A, h) ==
    /\ {A[h.array][k] : k \in 1 .. h.len} = Open \cap TenantSubs
    /\ \A i, k \in 1 .. h.len : A[h.array][i] = A[h.array][k] => i = k

(* The new arrays hold what headers into the old ones show, as channels. *)
Extends(A, B) ==
    /\ B \in Arrays
    /\ Len(A) <= Len(B)
    /\ \A a \in 1 .. Len(A) :
          /\ Len(B[a]) = Len(A[a])
          /\ \A k \in 1 .. Len(A[a]) : A[a][k] \in TenantSubs => B[a][k] \in TenantSubs

(* Another content of the same length for one of the arrays. *)
LEMMA ArrayReplaced ==
    ASSUME NEW A \in Arrays, NEW a \in 1 .. Len(A), NEW c \in Seq(TenantSubs \cup {NoSub}),
           Len(c) = Len(A[a]),
           \A k \in 1 .. Len(A[a]) : A[a][k] \in TenantSubs => c[k] \in TenantSubs
    PROVE  Extends(A, [A EXCEPT ![a] = c]) /\ [A EXCEPT ![a] = c][a] = c
BY ExceptSeq DEF Arrays, Extends

(* append in place: one more element is visible, for the new header only. *)
LEMMA AppendsInPlace ==
    ASSUME TypeOK, NEW s \in TenantSubs, SubscribeInPlace(s), Listed(arrays, subs)
    PROVE  /\ Extends(arrays, arrays')
           /\ Within(arrays', subs')
           /\ {arrays'[subs'.array][k] : k \in 1 .. subs'.len} =
                 {arrays[subs.array][k] : k \in 1 .. subs.len} \cup {s}
           /\ \A i, k \in 1 .. subs'.len :
                 arrays'[subs'.array][i] = arrays'[subs'.array][k] => i = k
<1> DEFINE a == subs.array
           n == subs.len
           old == arrays[a]
           c == [old EXCEPT ![n + 1] = s]
<1>1. arrays \in Arrays /\ Within(arrays, subs) /\ subs \in Slice
  BY FitsWithin DEF TypeOK, Arrays, Fits
<1>2. a # 0 /\ n < Len(old)
  BY <1>1 DEF SubscribeInPlace, Cap, Within, Slice
<1>3. /\ Len(arrays) \in Nat /\ n \in Nat /\ a \in 1 .. Len(arrays)
      /\ old \in Seq(TenantSubs \cup {NoSub})
      /\ Len(old) \in Nat /\ n <= Len(old) /\ DOMAIN old = 1 .. Len(old)
      /\ \A k \in 1 .. n : old[k] \in TenantSubs
  BY <1>1, <1>2, HeaderArray
<1>4. /\ c \in Seq(TenantSubs \cup {NoSub}) /\ Len(c) = Len(old)
      /\ \A k \in 1 .. Len(old) : c[k] = IF k = n + 1 THEN s ELSE old[k]
  BY <1>2, <1>3, ExceptSeq
<1>5. arrays' = [arrays EXCEPT ![a] = c]
  BY DEF SubscribeInPlace
<1>6. subs'.array = a /\ subs'.len = n + 1 /\ subs' \in Slice
  BY <1>1 DEF SubscribeInPlace, Slice
<1> HIDE DEF c, old
<1>7. Extends(arrays, arrays') /\ arrays'[a] = c
  <2>1. \A k \in 1 .. Len(old) : old[k] \in TenantSubs => c[k] \in TenantSubs
    BY <1>4
  <2>2. Extends(arrays, [arrays EXCEPT ![a] = c]) /\ [arrays EXCEPT ![a] = c][a] = c
    <3>1. /\ a \in 1 .. Len(arrays) /\ Len(c) = Len(arrays[a])
          /\ c \in Seq(TenantSubs \cup {NoSub})
          /\ \A k \in 1 .. Len(arrays[a]) : arrays[a][k] \in TenantSubs => c[k] \in TenantSubs
      BY <1>3, <1>4, <2>1 DEF old
    <3> HIDE DEF a
    <3> QED
      BY <1>1, <3>1, ArrayReplaced, Zenon
  <2> QED
    BY <1>5, <2>2
<1>8. Within(arrays', subs')
  <2>1. \A k \in 1 .. n + 1 : c[k] \in TenantSubs
    BY <1>2, <1>3, <1>4
  <2>2. n + 1 <= Len(c)
    BY <1>2, <1>3, <1>4
  <2>3. a <= Len(arrays')
    BY <1>3, <1>7, LenProperties DEF Extends, Arrays
  <2> QED
    BY <1>2, <1>6, <1>7, <2>1, <2>2, <2>3 DEF Within
<1>9. s \notin {old[k] : k \in 1 .. n}
  BY DEF SubscribeInPlace, Listed, Open, old
<1>10. {c[k] : k \in 1 .. n + 1} = {old[k] : k \in 1 .. n} \cup {s}
  <2>1. ASSUME NEW k \in 1 .. n + 1 PROVE c[k] \in {old[i] : i \in 1 .. n} \cup {s}
    BY <1>2, <1>3, <1>4
  <2>2. ASSUME NEW k \in 1 .. n PROVE old[k] \in {c[i] : i \in 1 .. n + 1}
    <3>1. k \in 1 .. n + 1 /\ k \in 1 .. Len(old) /\ k # n + 1
      BY <1>2, <1>3
    <3>2. c[k] = old[k]
      BY <1>4, <3>1
    <3> QED
      BY <3>1, <3>2
  <2>3. n + 1 \in 1 .. n + 1 /\ c[n + 1] = s
    BY <1>2, <1>3, <1>4
  <2> QED
    BY <2>1, <2>2, <2>3
<1>11. \A i, k \in 1 .. n : old[i] = old[k] => i = k
  BY DEF Listed, old
<1>12. ASSUME NEW i \in 1 .. n + 1, NEW k \in 1 .. n + 1, c[i] = c[k] PROVE i = k
  <2>1. \A j \in 1 .. n : c[j] = old[j]
    BY <1>3, <1>4
  <2>2. c[n + 1] = s
    BY <1>2, <1>3, <1>4
  <2>3. n \in Nat /\ (i \in 1 .. n \/ i = n + 1) /\ (k \in 1 .. n \/ k = n + 1)
    BY <1>3
  <2>4. i \in 1 .. n /\ k = n + 1 => FALSE
    BY <1>9, <1>12, <2>1, <2>2
  <2>5. k \in 1 .. n /\ i = n + 1 => FALSE
    BY <1>9, <1>12, <2>1, <2>2
  <2>6. i \in 1 .. n /\ k \in 1 .. n => i = k
    BY <1>11, <1>12, <2>1
  <2> QED
    BY <2>3, <2>4, <2>5, <2>6
<1> QED
  BY <1>6, <1>7, <1>8, <1>10, <1>12 DEF old

(* append into a larger array: the old headers keep theirs. *)
LEMMA AppendsGrowing ==
    ASSUME TypeOK, NEW s \in TenantSubs, SubscribeGrowing(s), Listed(arrays, subs)
    PROVE  /\ Extends(arrays, arrays')
           /\ Within(arrays', subs')
           /\ {arrays'[subs'.array][k] : k \in 1 .. subs'.len} =
                 {arrays[subs.array][k] : k \in 1 .. subs.len} \cup {s}
           /\ \A i, k \in 1 .. subs'.len :
                 arrays'[subs'.array][i] = arrays'[subs'.array][k] => i = k
<1> DEFINE n == subs.len
           m == GrownCap(n)
           old(k) == arrays[subs.array][k]
           c == [k \in 1 .. m |->
                    IF k <= n THEN old(k) ELSE IF k = n + 1 THEN s ELSE NoSub]
<1>1. arrays \in Arrays /\ Within(arrays, subs) /\ subs \in Slice
  BY FitsWithin DEF TypeOK, Arrays, Fits
<1>2. n \in Nat /\ m \in Nat /\ n + 1 <= m /\ \A k \in 1 .. n : old(k) \in TenantSubs
  BY <1>1 DEF Within, Slice, GrownCap
<1>3. c \in [1 .. m -> TenantSubs \cup {NoSub}]
  BY <1>2
<1>4. c \in Seq(TenantSubs \cup {NoSub}) /\ Len(c) = m
  BY <1>2, <1>3, FunctionIsSeq
<1>5. arrays' = Append(arrays, c) /\ subs' = [array |-> Len(arrays) + 1, len |-> n + 1]
  BY DEF SubscribeGrowing, Element
<1>6. /\ \A k \in 1 .. n : c[k] = old(k)
      /\ c[n + 1] = s
  BY <1>2
<1> HIDE DEF c
<1>7. /\ arrays' \in Arrays /\ Len(arrays) \in Nat /\ Len(arrays') = Len(arrays) + 1
      /\ \A a \in 1 .. Len(arrays) : arrays'[a] = arrays[a]
      /\ arrays'[Len(arrays) + 1] = c
  BY <1>1, <1>4, <1>5, AppendProperties, LenProperties DEF Arrays
<1>8. Extends(arrays, arrays')
  BY <1>7 DEF Extends
<1>9. subs'.array = Len(arrays) + 1 /\ subs'.len = n + 1 /\ subs' \in Slice
  BY <1>2, <1>5, <1>7 DEF Slice
<1>10. \A k \in 1 .. n + 1 : k \in 1 .. n \/ k = n + 1
  BY <1>2
<1>11. \A k \in 1 .. n + 1 : c[k] \in TenantSubs
  BY <1>2, <1>6, <1>10
<1>12. Within(arrays', subs')
  BY <1>2, <1>4, <1>7, <1>9, <1>11 DEF Within
<1>13. s \notin {old(k) : k \in 1 .. n}
  BY DEF SubscribeGrowing, Listed, Open
<1>14. {c[k] : k \in 1 .. n + 1} = {old(k) : k \in 1 .. n} \cup {s}
  <2>1. n + 1 \in 1 .. n + 1 /\ \A k \in 1 .. n : k \in 1 .. n + 1
    BY <1>2
  <2>2. ASSUME NEW k \in 1 .. n + 1 PROVE c[k] \in {old(i) : i \in 1 .. n} \cup {s}
    BY <1>6, <1>10
  <2>3. ASSUME NEW k \in 1 .. n PROVE old(k) \in {c[i] : i \in 1 .. n + 1}
    BY <1>6, <2>1
  <2>4. s \in {c[i] : i \in 1 .. n + 1}
    BY <1>6, <2>1
  <2> QED
    BY <2>2, <2>3, <2>4
<1>15. \A i, k \in 1 .. n : old(i) = old(k) => i = k
  BY DEF Listed
<1>16. \A i, k \in 1 .. n + 1 : c[i] = c[k] => i = k
  BY <1>6, <1>10, <1>13, <1>15
<1>17. arrays'[subs'.array] = c
  BY <1>7, <1>9
<1> QED
  BY <1>8, <1>9, <1>12, <1>14, <1>16, <1>17

(* append(chans[:i], chans[i+1:]...): the elements behind i move up. *)
LEMMA ShiftsInPlace ==
    ASSUME TypeOK, NEW s \in TenantSubs, Unsubscribe(s), Listed(arrays, subs)
    PROVE  /\ Extends(arrays, arrays')
           /\ Within(arrays', subs')
           /\ {arrays'[subs'.array][k] : k \in 1 .. subs'.len} =
                 {arrays[subs.array][k] : k \in 1 .. subs.len} \ {s}
           /\ \A i, k \in 1 .. subs'.len :
                 arrays'[subs'.array][i] = arrays'[subs'.array][k] => i = k
<1> DEFINE a == subs.array
           n == subs.len
           old == arrays[a]
<1>1. arrays \in Arrays /\ Within(arrays, subs) /\ subs \in Slice
  BY FitsWithin DEF TypeOK, Arrays, Fits
<1>2. PICK i \in 1 .. n :
         /\ old[i] = s
         /\ arrays' = [arrays EXCEPT ![a] =
                          [k \in DOMAIN old |-> IF k \in i .. n - 1 THEN old[k + 1] ELSE old[k]]]
  BY DEF Unsubscribe, Element
<1>3. a # 0
  BY <1>1, <1>2 DEF Within, Slice
<1>4. /\ Len(arrays) \in Nat /\ n \in Nat /\ a \in 1 .. Len(arrays)
      /\ old \in Seq(TenantSubs \cup {NoSub})
      /\ Len(old) \in Nat /\ n <= Len(old) /\ DOMAIN old = 1 .. Len(old)
      /\ \A k \in 1 .. n : old[k] \in TenantSubs
  BY <1>1, <1>3, HeaderArray
<1> DEFINE c == [k \in 1 .. Len(old) |-> IF k \in i .. n - 1 THEN old[k + 1] ELSE old[k]]
<1>5. \A k \in 1 .. Len(old) : old[k] \in TenantSubs \cup {NoSub}
  BY <1>4, ElementOfSeq
<1>6. c \in [1 .. Len(old) -> TenantSubs \cup {NoSub}]
  BY <1>4, <1>5
<1>7. c \in Seq(TenantSubs \cup {NoSub}) /\ Len(c) = Len(old)
  BY <1>4, <1>6, FunctionIsSeq
<1>8. \A k \in 1 .. Len(old) : c[k] = IF k \in i .. n - 1 THEN old[k + 1] ELSE old[k]
  OBVIOUS
<1>9. arrays' = [arrays EXCEPT ![a] = c]
  BY <1>2, <1>4
<1> HIDE DEF c, old
<1>10. \A k \in 1 .. Len(old) : old[k] \in TenantSubs => c[k] \in TenantSubs
  BY <1>4, <1>8
<1>11. Extends(arrays, arrays') /\ arrays'[a] = c
  <2>1. Extends(arrays, [arrays EXCEPT ![a] = c]) /\ [arrays EXCEPT ![a] = c][a] = c
    <3>1. /\ a \in 1 .. Len(arrays) /\ Len(c) = Len(arrays[a])
          /\ c \in Seq(TenantSubs \cup {NoSub})
          /\ \A k \in 1 .. Len(arrays[a]) : arrays[a][k] \in TenantSubs => c[k] \in TenantSubs
      BY <1>4, <1>7, <1>10 DEF old
    <3> HIDE DEF a
    <3> QED
      BY <1>1, <3>1, ArrayReplaced, Zenon
  <2> QED
    BY <1>9, <2>1
<1>12. subs'.len = n - 1 /\ subs' \in Slice /\ (n # 1 => subs'.array = a)
       /\ (n = 1 => subs'.array = 0)
  <2>1. subs' = IF n = 1 THEN Nil ELSE [subs EXCEPT !.len = @ - 1]
    BY DEF Unsubscribe
  <2>2. CASE n = 1
    BY <2>1, <2>2 DEF Slice, Nil
  <2>3. CASE n # 1
    <3>1. n - 1 \in Nat
      BY <1>2, <1>4
    <3> QED
      BY <1>1, <2>1, <2>3, <3>1 DEF Slice
  <2> QED
    BY <2>2, <2>3
<1>13. Within(arrays', subs')
  <2>1. CASE n = 1
    BY <1>4, <1>11, <1>12, <2>1 DEF Within, Extends
  <2>2. CASE n # 1
    <3>1. \A k \in 1 .. n - 1 : c[k] \in TenantSubs
      BY <1>4, <1>8
    <3>2. n - 1 <= Len(c)
      BY <1>4, <1>7
    <3>3. a <= Len(arrays')
      BY <1>4, <1>11, LenProperties DEF Extends, Arrays
    <3> QED
      BY <1>3, <1>11, <1>12, <2>2, <3>1, <3>2, <3>3 DEF Within
  <2> QED
    BY <2>1, <2>2
<1>14. \A k, m \in 1 .. n : old[k] = old[m] => k = m
  BY DEF Listed, old
<1>15. {c[k] : k \in 1 .. n - 1} = {old[k] : k \in 1 .. n} \ {s}
  <2>1. ASSUME NEW k \in 1 .. n - 1 PROVE c[k] \in {old[m] : m \in 1 .. n} \ {s}
    <3>1. CASE k < i
      <4>1. c[k] = old[k] /\ k \in 1 .. n /\ k # i
        BY <1>2, <1>4, <1>8, <3>1
      <4> QED
        BY <1>2, <1>14, <4>1 DEF old
    <3>2. CASE ~(k < i)
      <4>1. c[k] = old[k + 1] /\ k + 1 \in 1 .. n /\ k + 1 # i
        BY <1>2, <1>4, <1>8, <3>2
      <4> QED
        BY <1>2, <1>14, <4>1 DEF old
    <3> QED
      BY <3>1, <3>2
  <2>2. ASSUME NEW k \in 1 .. n, old[k] # s PROVE old[k] \in {c[m] : m \in 1 .. n - 1}
    <3>1. CASE k < i
      <4>1. k \in 1 .. n - 1 /\ c[k] = old[k]
        BY <1>2, <1>4, <1>8, <3>1
      <4> QED
        BY <4>1
    <3>2. CASE k > i
      <4>1. k - 1 \in 1 .. n - 1 /\ k - 1 \in 1 .. Len(old) /\ k - 1 \in i .. n - 1
            /\ (k - 1) + 1 = k
        BY <1>2, <1>4, <3>2
      <4>2. c[k - 1] = old[k]
        BY <1>8, <4>1
      <4> QED
        BY <4>1, <4>2
    <3>3. k # i
      BY <1>2, <2>2 DEF old
    <3> QED
      BY <1>4, <3>1, <3>2, <3>3
  <2> QED
    BY <2>1, <2>2
<1>16. \A k, m \in 1 .. n - 1 : c[k] = c[m] => k = m
  <2> SUFFICES ASSUME NEW k \in 1 .. n - 1, NEW m \in 1 .. n - 1, c[k] = c[m] PROVE k = m
    OBVIOUS
  <2> DEFINE from(q) == IF q < i THEN q ELSE q + 1
  <2>1. from(k) \in 1 .. n /\ from(m) \in 1 .. n
    BY <1>4
  <2>2. c[k] = old[from(k)] /\ c[m] = old[from(m)]
    BY <1>2, <1>4, <1>8
  <2>3. from(k) = from(m)
    BY <1>14, <2>1, <2>2
  <2> QED
    BY <1>4, <2>3
<1>17. CASE n = 1
  <2>1. 1 .. subs'.len = {} /\ 1 .. n - 1 = {}
    BY <1>12, <1>17
  <2> QED
    BY <1>11, <1>13, <1>15, <2>1 DEF old
<1>18. CASE n # 1
  BY <1>11, <1>12, <1>13, <1>15, <1>16, <1>18 DEF old
<1> QED
  BY <1>17, <1>18

-----------------------------------------------------------------------------
(* Types and the registry, together: the slices stay where they were cut   *)
(* because they hold the open channels.                                    *)

(* The two halves of the registry: the tenant's list and the list of all.  *)
ListedAll ==
    /\ Entries(allSubs) = Open \cap AllSubs
    /\ Once(allSubs)

LEMMA RegistryHalves == Registry <=> Listed(arrays, subs) /\ ListedAll
BY DEF Registry, Listed, ListedAll, Elements, Element, Entries, Once

(* Every header of Publish stays within its array. *)
LEMMA HeadersKept ==
    ASSUME TypeOK, Extends(arrays, arrays')
    PROVE  \A e \in Events : Within(arrays', chans[e])
<1> TAKE e \in Events
<1>1. Within(arrays, chans[e]) /\ arrays \in Arrays
  BY FitsWithin DEF TypeOK, Arrays
<1> QED
  BY <1>1, WithinKept DEF Extends

(* What is left to check of the types. *)
LEMMA TypesFrom ==
    ASSUME arrays' \in Arrays, Within(arrays', subs'),
           \A e \in Events : Within(arrays', chans'[e]),
           allSubs' \in Seq(AllSubs),
           channel' \in [Subs -> Nat],
           status' \in [Subs -> {"new", "open", "closed"}],
           publication' \in [Events -> {"new", "sending", "done", "panicked"}],
           chans' \in [Events -> Slice],
           allChans' \in [Events -> Seq(AllSubs)],
           next' \in [Events -> Nat],
           got' \in [AllSubs -> [Events -> Nat]],
           skipped' \subseteq AllSubs \X Events,
           audience' \in [Events -> SUBSET AllSubs]
    PROVE  TypeOK'
<1>1. Fits(subs)'
  BY DEF Fits, Within, Cap, Element
<1>2. (\A e \in Events : Fits(chans[e]))'
  BY DEF Fits, Within, Cap, Element
<1> QED
  BY <1>1, <1>2 DEF TypeOK, Arrays

(* A step of the three that change the tenant's list. *)
LEMMA TenantListStep ==
    ASSUME TypeOK, Registry, NEW s \in TenantSubs,
           SubscribeInPlace(s) \/ SubscribeGrowing(s) \/ Unsubscribe(s)
    PROVE  TypeOK' /\ Registry'
<1> USE BusAssumption
<1>1. Listed(arrays, subs) /\ ListedAll
  BY RegistryHalves
<1>2. /\ UNCHANGED <<allSubs, channel, publication, chans, allChans, next, got, skipped,
                     audience>>
      /\ \/ status[s] = "new" /\ Becomes(s, "open")
         \/ status[s] = "open" /\ Becomes(s, "closed")
  BY DEF SubscribeInPlace, SubscribeGrowing, Unsubscribe, publishVars, deliveryVars
<1>3. /\ Extends(arrays, arrays')
      /\ Within(arrays', subs')
      /\ {arrays'[subs'.array][k] : k \in 1 .. subs'.len} = Open' \cap TenantSubs
      /\ \A i, k \in 1 .. subs'.len :
            arrays'[subs'.array][i] = arrays'[subs'.array][k] => i = k
  <2>1. CASE SubscribeInPlace(s) \/ SubscribeGrowing(s)
    <3>1. Open' \cap TenantSubs = (Open \cap TenantSubs) \cup {s}
      BY <2>1 DEF SubscribeInPlace, SubscribeGrowing, Becomes, Open, TypeOK, Subs
    <3>2. CASE SubscribeInPlace(s)
      BY <1>1, <3>1, <3>2, AppendsInPlace DEF Listed
    <3>3. CASE SubscribeGrowing(s)
      BY <1>1, <3>1, <3>3, AppendsGrowing DEF Listed
    <3> QED
      BY <2>1, <3>2, <3>3
  <2>2. CASE Unsubscribe(s)
    <3>1. Open' \cap TenantSubs = (Open \cap TenantSubs) \ {s}
      BY <2>2 DEF Unsubscribe, Becomes, Open, TypeOK, Subs
    <3> QED
      BY <1>1, <2>2, <3>1, ShiftsInPlace DEF Listed
  <2> QED
    BY <2>1, <2>2
<1>4. TypeOK'
  <2>1. status' \in [Subs -> {"new", "open", "closed"}]
    BY <1>2 DEF TypeOK, Becomes
  <2>2. \A e \in Events : Within(arrays', chans'[e])
    BY <1>2, <1>3, HeadersKept
  <2>3. arrays' \in Arrays
    BY <1>3 DEF Extends
  <2> QED
    BY <1>2, <1>3, <2>1, <2>2, <2>3, TypesFrom DEF TypeOK
<1>5. Registry'
  <2>1. Open' \cap AllSubs = Open \cap AllSubs
    BY <1>2 DEF Becomes, Open, TypeOK, Subs
  <2>2. ListedAll'
    BY <1>1, <1>2, <2>1 DEF ListedAll, Entries, Once
  <2>3. Listed(arrays, subs)'
    BY <1>3 DEF Listed
  <2> QED
    BY <2>2, <2>3, RegistryHalves DEF Registry, ListedAll, Entries, Once, Listed,
       Elements, Element
<1> QED
  BY <1>4, <1>5

(* The list for all tenants: a copy per Publish, so nothing is shared. *)
LEMMA AllListStep ==
    ASSUME TypeOK, Registry, NEW s \in AllSubs, SubscribeAll(s) \/ UnsubscribeAll(s)
    PROVE  TypeOK' /\ Registry'
<1> USE BusAssumption
<1>1. Listed(arrays, subs) /\ ListedAll /\ allSubs \in Seq(AllSubs)
  BY RegistryHalves DEF TypeOK
<1>2. /\ UNCHANGED <<arrays, subs, channel, publication, chans, allChans, next, got,
                     skipped, audience>>
      /\ \/ status[s] = "new" /\ Becomes(s, "open")
         \/ status[s] = "open" /\ Becomes(s, "closed")
  BY DEF SubscribeAll, UnsubscribeAll, publishVars, deliveryVars
<1>3. /\ allSubs' \in Seq(AllSubs)
      /\ Entries(allSubs') = Open' \cap AllSubs
      /\ Once(allSubs')
  <2>1. CASE SubscribeAll(s)
    <3>1. Open' \cap AllSubs = (Open \cap AllSubs) \cup {s} /\ s \notin Open
      BY <2>1 DEF SubscribeAll, Becomes, Open, TypeOK, Subs
    <3>2. allSubs' = Append(allSubs, s)
      BY <2>1 DEF SubscribeAll
    <3> QED
      BY <1>1, <3>1, <3>2, AppendedOnce DEF ListedAll
  <2>2. CASE UnsubscribeAll(s)
    <3>1. Open' \cap AllSubs = (Open \cap AllSubs) \ {s}
      BY <2>2 DEF UnsubscribeAll, Becomes, Open, TypeOK, Subs
    <3>2. PICK i \in DOMAIN allSubs :
             /\ allSubs[i] = s
             /\ allSubs' = SubSeq(allSubs, 1, i - 1) \o SubSeq(allSubs, i + 1, Len(allSubs))
      BY <2>2 DEF UnsubscribeAll
    <3> QED
      BY <1>1, <3>1, <3>2, CutOnce DEF ListedAll
  <2> QED
    BY <2>1, <2>2
<1>4. TypeOK'
  <2>1. status' \in [Subs -> {"new", "open", "closed"}]
    BY <1>2 DEF TypeOK, Becomes
  <2>2. arrays \in Arrays /\ Within(arrays, subs) /\ \A e \in Events : Within(arrays, chans[e])
    BY FitsWithin DEF TypeOK, Arrays
  <2> QED
    BY <1>2, <1>3, <2>1, <2>2, TypesFrom DEF TypeOK
<1>5. Registry'
  <2>1. Open' \cap TenantSubs = Open \cap TenantSubs
    BY <1>2 DEF Becomes, Open, TypeOK, Subs
  <2> QED
    BY <1>1, <1>2, <1>3, <2>1 DEF Registry, Entries, Once, Listed, Elements, Element
<1> QED
  BY <1>4, <1>5

(* The channel that the next send goes to. *)
LEMMA TargetIs ==
    ASSUME TypeOK, NEW e \in Events, Sending(e)
    PROVE  LET k == next[e] + 1
               n == chans[e].len IN
           /\ n \in Nat /\ next[e] \in Nat
           /\ k <= n => Target(e) \in TenantSubs
           /\ k > n => /\ k - n \in DOMAIN allChans[e]
                       /\ Target(e) = allChans[e][k - n]
                       /\ Target(e) \in AllSubs
<1> DEFINE k == next[e] + 1
           n == chans[e].len
<1>1. /\ n \in Nat /\ next[e] \in Nat /\ Fits(chans[e]) /\ allChans[e] \in Seq(AllSubs)
      /\ Len(allChans[e]) \in Nat /\ DOMAIN allChans[e] = 1 .. Len(allChans[e])
      /\ \A i \in DOMAIN allChans[e] : allChans[e][i] \in AllSubs
  BY LenProperties, ElementOfSeq DEF TypeOK, Slice
<1>2. next[e] < n + Len(allChans[e])
  BY DEF Sending, Sends
<1>3. k <= n => Target(e) \in TenantSubs
  BY <1>1 DEF Target, Fits
<1>4. k > n => k - n \in DOMAIN allChans[e] /\ Target(e) = allChans[e][k - n]
  BY <1>1, <1>2 DEF Target
<1> QED
  BY <1>1, <1>3, <1>4

(* A step of Publish or of a subscriber leaves the lists alone. *)
LEMMA PublishTypes ==
    ASSUME TypeOK, UNCHANGED <<sliceVars, status>>,
           channel' \in [Subs -> Nat],
           publication' \in [Events -> {"new", "sending", "done", "panicked"}],
           \A e \in Events : chans'[e] \in {chans[e], subs, Nil},
           chans' \in [Events -> Slice],
           allChans' \in [Events -> Seq(AllSubs)],
           next' \in [Events -> Nat],
           got' \in [AllSubs -> [Events -> Nat]],
           skipped' \subseteq AllSubs \X Events,
           audience' \in [Events -> SUBSET AllSubs]
    PROVE  TypeOK'
<1>1. arrays \in Arrays /\ Within(arrays, subs) /\ \A e \in Events : Within(arrays, chans[e])
  BY FitsWithin DEF TypeOK, Arrays
<1>2. Within(arrays, Nil)
  BY <1>1, LenProperties DEF Within, Nil, Slice, Arrays
<1>3. arrays' = arrays /\ subs' = subs /\ allSubs' = allSubs /\ status' = status
  BY DEF sliceVars
<1>4. \A e \in Events : Within(arrays', chans'[e])
  BY <1>1, <1>2, <1>3
<1> QED
  BY <1>1, <1>3, <1>4, TypesFrom DEF TypeOK

LEMMA PublishKeepsTypes ==
    ASSUME TypeOK, NEW e \in Events, PublishStart(e) \/ PublishStep(e)
    PROVE  TypeOK' /\ UNCHANGED <<sliceVars, status>>
<1> USE BusAssumption
<1>0. Nil \in Slice /\ <<>> \in Seq(AllSubs) /\ subs \in Slice /\ allSubs \in Seq(AllSubs)
      /\ Open \cap AllSubs \subseteq AllSubs /\ chans \in [Events -> Slice]
  BY DEF Nil, Slice, TypeOK, Fits
<1>1. CASE PublishStart(e)
  <2>1. /\ UNCHANGED <<sliceVars, status>>
        /\ UNCHANGED <<channel, next, got, skipped>>
        /\ \A f \in Events : chans'[f] \in {chans[f], subs, Nil}
    BY <1>1 DEF PublishStart, deliveryVars, TypeOK
  <2>2. /\ publication' \in [Events -> {"new", "sending", "done", "panicked"}]
        /\ chans' \in [Events -> Slice]
        /\ allChans' \in [Events -> Seq(AllSubs)]
        /\ audience' \in [Events -> SUBSET AllSubs]
    BY <1>0, <1>1 DEF PublishStart, TypeOK
  <2> QED
    BY <2>1, <2>2, PublishTypes DEF TypeOK
<1>2. ASSUME NEW outcome \in {"done", "panicked"}, Leaves(e, outcome)
      PROVE  TypeOK' /\ UNCHANGED <<sliceVars, status>>
  <2>1. /\ UNCHANGED <<sliceVars, status>>
        /\ UNCHANGED <<channel, audience, got, skipped>>
        /\ \A f \in Events : chans'[f] \in {chans[f], subs, Nil}
    BY <1>2 DEF Leaves, deliveryVars, TypeOK
  <2>2. /\ publication' \in [Events -> {"new", "sending", "done", "panicked"}]
        /\ chans' \in [Events -> Slice]
        /\ allChans' \in [Events -> Seq(AllSubs)]
        /\ next' \in [Events -> Nat]
    BY <1>0, <1>2 DEF Leaves, TypeOK
  <2> QED
    BY <2>1, <2>2, PublishTypes DEF TypeOK
<1>3. CASE SendAccepted(e)
  <2>1. PICK s : s = Target(e)
    OBVIOUS
  <2>2. /\ channel' = [channel EXCEPT ![s] = @ + 1]
        /\ got' = IF s \in AllSubs THEN [got EXCEPT ![s][e] = @ + 1] ELSE got
        /\ next' = [next EXCEPT ![e] = @ + 1]
        /\ UNCHANGED <<sliceVars, status, publication, chans, allChans, audience, skipped>>
    BY <1>3, <2>1 DEF SendAccepted, Advance
  <2>3. channel' \in [Subs -> Nat]
    <3>1. s \in Subs
      BY <1>3, <2>1, TargetIs DEF SendAccepted, Subs
    <3>2. channel[s] + 1 \in Nat
      BY <3>1 DEF TypeOK
    <3> QED
      BY <2>2, <3>1, <3>2 DEF TypeOK
  <2>4. got' \in [AllSubs -> [Events -> Nat]] /\ next' \in [Events -> Nat]
    BY <2>2 DEF TypeOK
  <2> QED
    BY <2>2, <2>3, <2>4, PublishTypes DEF TypeOK
<1>4. CASE SendSkipped(e)
  <2>1. /\ UNCHANGED <<sliceVars, channel, status, publication, chans, allChans, audience, got>>
        /\ next' = [next EXCEPT ![e] = @ + 1]
        /\ skipped' \subseteq AllSubs \X Events
    BY <1>4 DEF SendSkipped, Advance, TypeOK
  <2>2. next' \in [Events -> Nat]
    BY <2>1 DEF TypeOK
  <2> QED
    BY <2>1, <2>2, PublishTypes DEF TypeOK
<1>5. CASE SendPanics(e)
  BY <1>2, <1>5 DEF SendPanics
<1>6. CASE PublishReturns(e)
  BY <1>2, <1>6 DEF PublishReturns
<1> QED
  BY <1>1, <1>3, <1>4, <1>5, <1>6 DEF PublishStep

LEMMA ReceiveKeepsTypes ==
    ASSUME TypeOK, NEW s \in Subs, Receive(s)
    PROVE  TypeOK' /\ UNCHANGED <<sliceVars, status>>
<1>1. channel' \in [Subs -> Nat]
  BY DEF Receive, TypeOK
<1>2. UNCHANGED <<sliceVars, status>>
      /\ UNCHANGED <<publication, chans, allChans, next, audience, got, skipped>>
  BY DEF Receive, publishVars, deliveryVars
<1> QED
  BY <1>1, <1>2, PublishTypes DEF TypeOK

LEMMA InitTypes == Init => TypeOK /\ Registry
<1> SUFFICES ASSUME Init PROVE TypeOK /\ Registry
  OBVIOUS
<1>1. arrays = <<>> /\ arrays \in Seq(Seq(TenantSubs \cup {NoSub})) /\ Len(arrays) = 0
  BY EmptySeq DEF Init
<1>2. Within(arrays, Nil)
  BY <1>1 DEF Within, Nil, Slice
<1>3. TypeOK
  <2>1. Fits(subs) /\ \A e \in Events : Fits(chans[e])
    BY <1>2, FitsWithin DEF Init
  <2>2. Nil \in Slice /\ <<>> \in Seq(AllSubs)
    BY DEF Nil, Slice
  <2> QED
    BY <1>1, <2>1, <2>2 DEF Init, TypeOK
<1>4. Registry
  <2>1. Open = {}
    BY DEF Init, Open
  <2>2. 1 .. subs.len = {} /\ DOMAIN allSubs = {}
    BY DEF Init, Nil
  <2> QED
    BY <2>1, <2>2 DEF Registry, Elements
<1> QED
  BY <1>3, <1>4

LEMMA RegistryStep ==
    ASSUME TypeOK, Registry, [Next]_vars
    PROVE  TypeOK' /\ Registry'
<1>1. CASE UNCHANGED vars
  <2>1. TypeOK'
    BY <1>1 DEF vars, sliceVars, publishVars, deliveryVars, TypeOK, Fits, Cap, Element
  <2>2. Registry'
    BY <1>1 DEF vars, sliceVars, Registry, Elements, Element, Open
  <2> QED
    BY <2>1, <2>2
<1>2. ASSUME UNCHANGED <<sliceVars, status>> PROVE Registry'
  BY <1>2 DEF sliceVars, Registry, Elements, Element, Open
<1>3. ASSUME NEW s \in TenantSubs,
             SubscribeInPlace(s) \/ SubscribeGrowing(s) \/ Unsubscribe(s)
      PROVE  TypeOK' /\ Registry'
  BY <1>3, TenantListStep
<1>4. ASSUME NEW s \in AllSubs, SubscribeAll(s) \/ UnsubscribeAll(s)
      PROVE  TypeOK' /\ Registry'
  BY <1>4, AllListStep
<1>5. ASSUME NEW s \in Subs, Receive(s) PROVE TypeOK' /\ Registry'
  BY <1>2, <1>5, ReceiveKeepsTypes
<1>6. ASSUME NEW e \in Events, PublishStart(e) \/ PublishStep(e) PROVE TypeOK' /\ Registry'
  BY <1>2, <1>6, PublishKeepsTypes
<1> QED
  BY <1>1, <1>3, <1>4, <1>5, <1>6 DEF Next

(* The slices and channels of the bus keep their types, and no slice header *)
(* reaches an array element that was never written.                         *)
THEOREM BusTypes == Spec => []TypeOK
<1>1. TypeOK /\ Registry /\ [Next]_vars => (TypeOK /\ Registry)'
  BY RegistryStep
<1> QED
  BY InitTypes, <1>1, PTL DEF Spec

(* Both lists always hold the open channels, each once, and no closed one: *)
(* the array shared with a running Publish does not upset them.            *)
THEOREM RegistryKept == Spec => []Registry
<1>1. TypeOK /\ Registry /\ [Next]_vars => (TypeOK /\ Registry)'
  BY RegistryStep
<1> QED
  BY InitTypes, <1>1, PTL DEF Spec

-----------------------------------------------------------------------------
(* What a subscriber to all tenants gets of one event.                     *)

Told(s, e) == got[s][e] = 1 <=> <<s, e>> \notin skipped
Untold(s, e) == got[s][e] = 0 /\ <<s, e>> \notin skipped

(* While Publish works through its copy, it has told the channels it passed *)
(* and none of the others.                                                  *)
Progress(e) ==
    /\ next[e] <= Sends(e)
    /\ Once(allChans[e])
    /\ audience[e] = Entries(allChans[e])
    /\ \A s \in AllSubs \ audience[e] : Untold(s, e)
    /\ \A k \in DOMAIN allChans[e] :
          /\ chans[e].len + k <= next[e] => Told(allChans[e][k], e)
          /\ chans[e].len + k > next[e] => Untold(allChans[e][k], e)

Served(e) ==
    /\ \A s \in AllSubs : got[s][e] <= 1
    /\ publication[e] = "new" => \A s \in AllSubs : Untold(s, e)
    /\ publication[e] # "sending" => next[e] = 0 /\ chans[e] = Nil /\ allChans[e] = <<>>
    /\ publication[e] = "done" => \A s \in audience[e] : Told(s, e)
    /\ publication[e] = "sending" => Progress(e)

(* Served depends on the publication and its deliveries alone. *)
LEMMA ServedKept ==
    ASSUME TypeOK, NEW e \in Events, Served(e),
           publication'[e] = publication[e], chans'[e] = chans[e],
           allChans'[e] = allChans[e], next'[e] = next[e], audience'[e] = audience[e],
           \A s \in AllSubs : got'[s][e] = got[s][e],
           \A s \in AllSubs : <<s, e>> \in skipped' <=> <<s, e>> \in skipped
    PROVE  Served(e)'
<1>1. \A s \in AllSubs : (Told(s, e)' <=> Told(s, e)) /\ (Untold(s, e)' <=> Untold(s, e))
  BY DEF Told, Untold
<1>2. audience[e] \subseteq AllSubs /\ \A k \in DOMAIN allChans[e] : allChans[e][k] \in AllSubs
  BY ElementOfSeq, LenProperties DEF TypeOK
<1>3. Sends(e)' = Sends(e)
  BY DEF Sends
<1>4. publication[e] = "sending" => Progress(e)'
  BY <1>1, <1>2, <1>3 DEF Served, Progress, Once, Entries, Told, Untold
<1> QED
  BY <1>1, <1>2, <1>4 DEF Served, Told, Untold

LEMMA StartServes ==
    ASSUME TypeOK, Registry, NEW e \in Events, Served(e), PublishStart(e)
    PROVE  Served(e)'
<1>1. /\ publication'[e] = "sending" /\ chans'[e] = subs /\ allChans'[e] = allSubs
      /\ audience'[e] = Open \cap AllSubs /\ next' = next /\ got' = got /\ skipped' = skipped
      /\ next[e] = 0 /\ subs.len \in Nat /\ allSubs \in Seq(AllSubs)
      /\ \A s \in AllSubs : Untold(s, e)
      /\ \A s \in AllSubs : got[s][e] <= 1
  BY DEF PublishStart, TypeOK, Served, deliveryVars, Fits, Slice
<1>2. /\ Len(allSubs) \in Nat /\ DOMAIN allSubs = 1 .. Len(allSubs)
      /\ \A k \in DOMAIN allSubs : allSubs[k] \in AllSubs
  BY <1>1, LenProperties, ElementOfSeq
<1>3. Entries(allSubs) = Open \cap AllSubs /\ Once(allSubs)
  BY RegistryHalves DEF ListedAll
<1>4. \A s \in AllSubs : Untold(s, e)'
  BY <1>1 DEF Untold
<1>5. \A k \in DOMAIN allSubs : subs.len + k > next'[e]
  BY <1>1, <1>2
<1>6. next'[e] <= subs.len + Len(allSubs)
  BY <1>1, <1>2
<1>7. Progress(e)'
  <2>1. Sends(e)' = subs.len + Len(allSubs)
    BY <1>1 DEF Sends
  <2>2. Once(allChans[e])' /\ (audience[e] = Entries(allChans[e]))'
    BY <1>1, <1>3 DEF Once, Entries
  <2>3. \A k \in DOMAIN allChans'[e] : ~(chans'[e].len + k <= next'[e])
    BY <1>1, <1>2
  <2>4. \A k \in DOMAIN allChans'[e] : Untold(allChans[e][k], e)'
    BY <1>1, <1>2, <1>4 DEF Untold
  <2> QED
    BY <1>4, <1>6, <2>1, <2>2, <2>3, <2>4 DEF Progress
<1> QED
  BY <1>1, <1>7 DEF Served

(* One send: the channel it goes to is told, the rest of the copy is not. *)
LEMMA SendServes ==
    ASSUME TypeOK, NEW e \in Events, Served(e), SendAccepted(e) \/ SendSkipped(e)
    PROVE  Served(e)'
<1> USE BusAssumption
<1> DEFINE n == chans[e].len
           c == allChans[e]
           k == next[e] + 1
<1>1. /\ publication[e] = "sending" /\ publication'[e] = "sending"
      /\ UNCHANGED <<chans, allChans, audience>>
      /\ next'[e] = k /\ next[e] < Sends(e) /\ Sending(e)
  BY DEF SendAccepted, SendSkipped, Advance, Sending, TypeOK
<1>2. /\ n \in Nat /\ next[e] \in Nat /\ c \in Seq(AllSubs) /\ Len(c) \in Nat
      /\ DOMAIN c = 1 .. Len(c) /\ \A i \in DOMAIN c : c[i] \in AllSubs
      /\ Sends(e) = n + Len(c)
  BY LenProperties, ElementOfSeq DEF TypeOK, Slice, Sends
<1>3. Progress(e) /\ \A s \in AllSubs : got[s][e] <= 1
  BY <1>1 DEF Served
<1>4. ASSUME NEW s \in AllSubs, s # Target(e)
      PROVE  got'[s][e] = got[s][e] /\ (<<s, e>> \in skipped' <=> <<s, e>> \in skipped)
  BY <1>4 DEF SendAccepted, SendSkipped, TypeOK
<1> DEFINE told(x) == got'[x][e] = 1 <=> <<x, e>> \notin skipped'
           untold(x) == got'[x][e] = 0 /\ <<x, e>> \notin skipped'
<1>5. ASSUME NEW s \in AllSubs, s = Target(e), Untold(s, e)
      PROVE  got'[s][e] <= 1 /\ told(s)
  <2>1. got[s][e] = 0 /\ <<s, e>> \notin skipped
    BY <1>5 DEF Untold
  <2>2. CASE SendAccepted(e)
    <3>1. got'[s][e] = 1 /\ skipped' = skipped
      BY <1>5, <2>1, <2>2 DEF SendAccepted, TypeOK
    <3> QED
      BY <2>1, <3>1
  <2>3. CASE SendSkipped(e)
    <3>1. got'[s][e] = 0 /\ <<s, e>> \in skipped'
      BY <1>5, <2>1, <2>3 DEF SendSkipped, TypeOK
    <3> QED
      BY <3>1
  <2> QED
    BY <2>2, <2>3
<1>6. \A s \in AllSubs : s # Target(e) =>
         (told(s) <=> Told(s, e)) /\ (untold(s) <=> Untold(s, e))
  BY <1>4 DEF Told, Untold
(* What remains to show, in terms of the new deliveries and the old copy. *)
<1>7. ASSUME \A s \in AllSubs : got'[s][e] <= 1,
             \A s \in AllSubs \ audience[e] : untold(s),
             \A i \in DOMAIN c : n + i <= k => told(c[i]),
             \A i \in DOMAIN c : n + i > k => untold(c[i])
      PROVE  Served(e)'
  <2>1. c' = c /\ n' = n /\ next'[e] = k /\ k <= Sends(e) /\ Sends(e)' = Sends(e)
    BY <1>1, <1>2 DEF Sends
  <2>2. \A i \in DOMAIN c' : n' + i <= next'[e] => Told(allChans[e][i], e)'
    BY <1>7, <2>1 DEF Told
  <2>3. \A i \in DOMAIN c' : n' + i > next'[e] => Untold(allChans[e][i], e)'
    BY <1>7, <2>1 DEF Untold
  <2>4. Once(allChans[e])' /\ (audience[e] = Entries(allChans[e]))'
    BY <1>1, <1>3 DEF Progress, Once, Entries
  <2>5. Progress(e)'
    BY <1>1, <1>7, <2>1, <2>2, <2>3, <2>4 DEF Progress, Untold
  <2> QED
    BY <1>1, <1>7, <2>5 DEF Served
<1> HIDE DEF told, untold
<1>8. CASE k <= n
  <2>1. Target(e) \notin AllSubs
    BY <1>1, <1>8, TargetIs
  <2>2. \A s \in AllSubs : s # Target(e)
    BY <2>1
  <2>3. \A i \in DOMAIN c : ~(n + i <= k) /\ n + i > next[e]
    BY <1>2, <1>8
  <2>4. \A i \in DOMAIN c : untold(c[i])
    BY <1>2, <1>3, <1>6, <2>2, <2>3 DEF Progress
  <2>5. \A s \in AllSubs \ audience[e] : untold(s)
    BY <1>3, <1>6, <2>2 DEF Progress
  <2>6. \A s \in AllSubs : got'[s][e] <= 1
    BY <1>3, <1>4, <2>2
  <2> QED
    BY <1>7, <2>3, <2>4, <2>5, <2>6
<1>9. CASE k > n
  <2>1. PICK s \in AllSubs : s = Target(e) /\ k - n \in DOMAIN c /\ s = c[k - n]
    BY <1>1, <1>9, TargetIs
  <2>2. n + (k - n) > next[e]
    BY <1>2
  <2>3. Untold(s, e)
    BY <1>3, <2>1, <2>2 DEF Progress
  <2>4. s \in audience[e]
    BY <1>3, <2>1 DEF Progress, Entries
  <2>5. \A x \in AllSubs : got'[x][e] <= 1
    BY <1>3, <1>4, <1>5, <2>1, <2>3
  <2>6. \A i \in DOMAIN c : i # k - n => c[i] # s
    BY <1>3, <2>1 DEF Progress, Once
  <2>7. \A x \in AllSubs \ audience[e] : untold(x)
    BY <1>3, <1>6, <2>1, <2>4 DEF Progress
  <2>8. told(s)
    BY <1>5, <2>1, <2>3
  <2>9. ASSUME NEW i \in DOMAIN c, n + i <= k PROVE told(c[i])
    <3>1. CASE i = k - n
      BY <2>1, <2>8, <3>1
    <3>2. CASE i # k - n
      <4>1. n + i <= next[e]
        <5>1. n \in Nat /\ next[e] \in Nat /\ i \in Nat
          BY <1>2
        <5>2. n + i # k
          BY <3>2, <5>1
        <5> QED
          BY <2>9, <5>1, <5>2
      <4>2. Told(c[i], e)
        BY <1>3, <4>1 DEF Progress
      <4> QED
        BY <1>2, <1>6, <2>1, <2>6, <3>2, <4>2
    <3> QED
      BY <3>1, <3>2
  <2>10. ASSUME NEW i \in DOMAIN c, n + i > k PROVE untold(c[i])
    <3>1. i # k - n /\ n + i > next[e]
      <4>1. n \in Nat /\ next[e] \in Nat /\ i \in Nat
        BY <1>2
      <4> QED
        BY <2>10, <4>1
    <3>2. Untold(c[i], e)
      BY <1>3, <3>1 DEF Progress
    <3> QED
      BY <1>2, <1>6, <2>1, <2>6, <3>1, <3>2
  <2> QED
    BY <1>7, <2>5, <2>7, <2>9, <2>10
<1> QED
  BY <1>2, <1>8, <1>9

LEMMA LeavingServes ==
    ASSUME TypeOK, NEW e \in Events, Served(e), SendPanics(e) \/ PublishReturns(e)
    PROVE  Served(e)'
<1>1. /\ publication[e] = "sending" /\ publication'[e] \in {"done", "panicked"}
      /\ publication'[e] = "done" => next[e] = Sends(e)
      /\ next'[e] = 0 /\ chans'[e] = Nil /\ allChans'[e] = <<>>
      /\ audience' = audience /\ got' = got /\ skipped' = skipped
  BY DEF SendPanics, PublishReturns, Leaves, Sending, TypeOK, deliveryVars
<1>2. /\ chans[e].len \in Nat /\ Len(allChans[e]) \in Nat
      /\ DOMAIN allChans[e] = 1 .. Len(allChans[e])
  BY LenProperties DEF TypeOK, Slice
<1>3. ASSUME next[e] = Sends(e) PROVE \A s \in audience[e] : Told(s, e)
  <2>1. \A k \in DOMAIN allChans[e] : chans[e].len + k <= next[e]
    BY <1>2, <1>3 DEF Sends
  <2> QED
    BY <1>1, <2>1 DEF Served, Progress, Entries
<1>4. publication'[e] = "done" => \A s \in audience'[e] : Told(s, e)'
  BY <1>1, <1>3 DEF Told
<1> QED
  BY <1>1, <1>4 DEF Served

LEMMA ServedStep ==
    ASSUME TypeOK, Registry, NEW e \in Events, Served(e), [Next]_vars
    PROVE  Served(e)'
<1>1. ASSUME UNCHANGED <<publication, chans, allChans, next, audience, got, skipped>>
      PROVE  Served(e)'
  BY <1>1, ServedKept
<1>2. CASE UNCHANGED vars
  BY <1>1, <1>2 DEF vars, publishVars, deliveryVars
<1>3. ASSUME NEW s \in TenantSubs,
             SubscribeInPlace(s) \/ SubscribeGrowing(s) \/ Unsubscribe(s)
      PROVE  Served(e)'
  BY <1>1, <1>3 DEF SubscribeInPlace, SubscribeGrowing, Unsubscribe, publishVars, deliveryVars
<1>4. ASSUME NEW s \in AllSubs, SubscribeAll(s) \/ UnsubscribeAll(s) PROVE Served(e)'
  BY <1>1, <1>4 DEF SubscribeAll, UnsubscribeAll, publishVars, deliveryVars
<1>5. ASSUME NEW s \in Subs, Receive(s) PROVE Served(e)'
  BY <1>1, <1>5 DEF Receive, publishVars, deliveryVars
<1>6. ASSUME NEW f \in Events, f # e, PublishStart(f) \/ PublishStep(f) PROVE Served(e)'
  <2>1. /\ publication'[e] = publication[e] /\ chans'[e] = chans[e]
        /\ allChans'[e] = allChans[e] /\ next'[e] = next[e] /\ audience'[e] = audience[e]
    BY <1>6 DEF PublishStart, PublishStep, SendAccepted, SendSkipped, SendPanics,
       PublishReturns, Leaves, Advance, TypeOK
  <2>2. \A s \in AllSubs : got'[s][e] = got[s][e]
    <3>1. CASE SendAccepted(f)
      <4>1. PICK x : got' = IF x \in AllSubs THEN [got EXCEPT ![x][f] = @ + 1] ELSE got
        BY <3>1 DEF SendAccepted
      <4> QED
        BY <1>6, <4>1 DEF TypeOK
    <3>2. CASE ~SendAccepted(f)
      <4>1. got' = got
        BY <1>6, <3>2 DEF PublishStart, PublishStep, SendSkipped, SendPanics,
           PublishReturns, Leaves, deliveryVars
      <4> QED
        BY <4>1
    <3> QED
      BY <3>1, <3>2
  <2>3. \A s \in AllSubs : <<s, e>> \in skipped' <=> <<s, e>> \in skipped
    <3>1. CASE SendSkipped(f)
      <4>1. PICK x : skipped' = skipped \cup ({<<x, f>>} \cap (AllSubs \X Events))
        BY <3>1 DEF SendSkipped
      <4> QED
        BY <1>6, <4>1
    <3>2. CASE ~SendSkipped(f)
      <4>1. skipped' = skipped
        BY <1>6, <3>2 DEF PublishStart, PublishStep, SendAccepted, SendPanics,
           PublishReturns, Leaves, deliveryVars
      <4> QED
        BY <4>1
    <3> QED
      BY <3>1, <3>2
  <2> QED
    BY <2>1, <2>2, <2>3, ServedKept
<1>7. CASE PublishStart(e)
  BY <1>7, StartServes
<1>8. CASE PublishStep(e)
  BY <1>8, SendServes, LeavingServes DEF PublishStep
<1> QED
  BY <1>2, <1>3, <1>4, <1>5, <1>6, <1>7, <1>8 DEF Next

(* A subscriber to all tenants gets no event twice, and misses one only    *)
(* when its own channel was full: Publish sends to a copy made under the   *)
(* lock, which later subscriptions do not change.                          *)
THEOREM AllSubsAreServed == Spec => []AllSubsServed
<1> DEFINE IInv == TypeOK /\ Registry /\ \A e \in Events : Served(e)
<1>1. Init => IInv
  <2>1. Init => \A e \in Events : Served(e)
    BY DEF Init, Served, Untold
  <2> QED
    BY <2>1, InitTypes
<1>2. IInv /\ [Next]_vars => IInv'
  BY RegistryStep, ServedStep
<1>3. IInv => AllSubsServed
  BY DEF AllSubsServed, Served, Told
<1> QED
  BY <1>1, <1>2, <1>3, PTL DEF Spec

-----------------------------------------------------------------------------
(* The hub, for any number of clients and any capacities.  Its state is apart *)
(* from that of the bus.                                                      *)

(* Every step of a client's goroutines and of the hub keeps the types. *)
LEMMA HubTypeStep == HubTypeOK /\ [HubNext]_hubVars => HubTypeOK'
<1> SUFFICES ASSUME HubTypeOK, [HubNext]_hubVars PROVE HubTypeOK'
  OBVIOUS
<1> USE HubAssumption DEF HubTypeOK, ServerPhase, ForwarderPhase, WriterPhase,
        eventVars, sendVars
<1>1. ASSUME NEW c \in Clients, Register(c) PROVE HubTypeOK'
  BY <1>1 DEF Register, Goes
<1>2. ASSUME NEW c \in Clients, StartPumps(c) PROVE HubTypeOK'
  BY <1>2 DEF StartPumps, Goes
<1>3. ASSUME NEW c \in Clients, ReadFails(c) PROVE HubTypeOK'
  BY <1>3 DEF ReadFails, Goes
<1>4. ASSUME NEW c \in Clients, Unsub(c) PROVE HubTypeOK'
  BY <1>4 DEF Unsub, Goes
<1>5. ASSUME NEW c \in Clients, Unregister(c) PROVE HubTypeOK'
  BY <1>5 DEF Unregister, Goes
<1>6. ASSUME NEW c \in Clients, ForwarderReceives(c) PROVE HubTypeOK'
  BY <1>6 DEF ForwarderReceives, Goes
<1>7. ASSUME NEW c \in Clients, ForwarderPushes(c) PROVE HubTypeOK'
  BY <1>7 DEF ForwarderPushes, Goes
<1>8. ASSUME NEW c \in Clients, ForwarderPanics(c) PROVE HubTypeOK'
  BY <1>8 DEF ForwarderPanics
<1>9. ASSUME NEW c \in Clients, ForwarderEnds(c) PROVE HubTypeOK'
  BY <1>9 DEF ForwarderEnds, Goes
<1>10. ASSUME NEW c \in Clients, WriterWrites(c) PROVE HubTypeOK'
  BY <1>10 DEF WriterWrites, Goes
<1>11. ASSUME NEW c \in Clients, WriterSeesClose(c) PROVE HubTypeOK'
  BY <1>11 DEF WriterSeesClose, WriterLeaves, Goes
<1>12. ASSUME NEW c \in Clients, PingFails(c) PROVE HubTypeOK'
  BY <1>12 DEF PingFails, WriterLeaves, Goes
<1>13. ASSUME NEW c \in Clients, ConnBreaks(c) PROVE HubTypeOK'
  BY <1>13 DEF ConnBreaks
<1>14. ASSUME NEW c \in Clients, FeedStep(c) PROVE HubTypeOK'
  <2>1. CASE PublishReads(c)
    BY <2>1 DEF PublishReads
  <2>2. CASE PublishSends(c)
    BY <2>2 DEF PublishSends, PublishPasses
  <2>3. CASE PublishMisses(c)
    BY <2>3 DEF PublishMisses, PublishPasses
  <2>4. CASE PublishPanics(c)
    BY <2>4 DEF PublishPanics, PublishPasses
  <2> QED
    BY <1>14, <2>1, <2>2, <2>3, <2>4 DEF FeedStep
<1>15. ASSUME Broadcast PROVE HubTypeOK'
  <2>1. /\ send' \in [Clients -> 0 .. SendCap]
        /\ crashed' \in BOOLEAN
    <3>1. CASE \A c \in clients : sendOpen[c]
      BY <1>15, <3>1 DEF Broadcast
    <3>2. CASE ~ \A c \in clients : sendOpen[c]
      BY <1>15, <3>2 DEF Broadcast
    <3> QED
      BY <3>1, <3>2
  <2> QED
    BY <1>15, <2>1 DEF Broadcast
<1>16. CASE UNCHANGED hubVars
  BY <1>16 DEF hubVars
<1> QED
  BY <1>1, <1>2, <1>3, <1>4, <1>5, <1>6, <1>7, <1>8,
     <1>9, <1>10, <1>11, <1>12, <1>13, <1>14, <1>15, <1>16
     DEF HubNext, ServerStep, ForwarderStep, WriterStep

(* The variables have their types, the two channels of a client stay within *)
(* their capacities, in every reachable state.                              *)
THEOREM HubTypes == HubSpec => []HubTypeOK
<1>1. ASSUME HubInit PROVE HubTypeOK
  <2>1. /\ conn \in [Clients -> BOOLEAN]
        /\ subscribed \in [Clients -> BOOLEAN]
        /\ publishing \in [Clients -> BOOLEAN]
        /\ sendOpen \in [Clients -> BOOLEAN]
    BY <1>1, Zenon DEF HubInit
  <2>2. /\ events \in [Clients -> 0 .. EventCap]
        /\ send \in [Clients -> 0 .. SendCap]
    BY <1>1, HubAssumption DEF HubInit
  <2> QED
    BY <1>1, <2>1, <2>2
       DEF HubInit, HubTypeOK, ServerPhase, ForwarderPhase, WriterPhase
<1> QED
  BY <1>1, HubTypeStep, PTL DEF HubSpec

-----------------------------------------------------------------------------
(* Every step of ServeWS moves its own client's entry and channels along with it. *)
LEMMA BookkeepingStep ==
    HubTypeOK /\ Bookkeeping /\ [HubNext]_hubVars => Bookkeeping'
<1> SUFFICES ASSUME HubTypeOK, Bookkeeping, [HubNext]_hubVars PROVE Bookkeeping'
  OBVIOUS
<1> USE DEF HubTypeOK, Bookkeeping, CaughtByCleanup, eventVars, sendVars
<1>1. ASSUME NEW c \in Clients, Register(c) PROVE Bookkeeping'
  BY <1>1 DEF Register, Goes
<1>2. ASSUME NEW c \in Clients, StartPumps(c) PROVE Bookkeeping'
  BY <1>2 DEF StartPumps, Goes
<1>3. ASSUME NEW c \in Clients, ReadFails(c) PROVE Bookkeeping'
  BY <1>3 DEF ReadFails, Goes
<1>4. ASSUME NEW c \in Clients, Unsub(c) PROVE Bookkeeping'
  BY <1>4 DEF Unsub, Goes
<1>5. ASSUME NEW c \in Clients, Unregister(c) PROVE Bookkeeping'
  BY <1>5 DEF Unregister, Goes
<1>6. ASSUME NEW c \in Clients, ForwarderReceives(c) PROVE Bookkeeping'
  BY <1>6 DEF ForwarderReceives, Goes
<1>7. ASSUME NEW c \in Clients, ForwarderPushes(c) PROVE Bookkeeping'
  BY <1>7 DEF ForwarderPushes, Goes
<1>8. ASSUME NEW c \in Clients, ForwarderPanics(c) PROVE Bookkeeping'
  BY <1>8 DEF ForwarderPanics
<1>9. ASSUME NEW c \in Clients, ForwarderEnds(c) PROVE Bookkeeping'
  BY <1>9 DEF ForwarderEnds, Goes
<1>10. ASSUME NEW c \in Clients, WriterWrites(c) PROVE Bookkeeping'
  BY <1>10 DEF WriterWrites, Goes
<1>11. ASSUME NEW c \in Clients, WriterSeesClose(c) PROVE Bookkeeping'
  BY <1>11 DEF WriterSeesClose, WriterLeaves, Goes
<1>12. ASSUME NEW c \in Clients, PingFails(c) PROVE Bookkeeping'
  BY <1>12 DEF PingFails, WriterLeaves, Goes
<1>13. ASSUME NEW c \in Clients, ConnBreaks(c) PROVE Bookkeeping'
  BY <1>13 DEF ConnBreaks
<1>14. ASSUME NEW c \in Clients, FeedStep(c) PROVE Bookkeeping'
  <2>1. CASE PublishReads(c)
    BY <2>1 DEF PublishReads
  <2>2. CASE PublishSends(c)
    BY <2>2 DEF PublishSends, PublishPasses
  <2>3. CASE PublishMisses(c)
    BY <2>3 DEF PublishMisses, PublishPasses
  <2>4. CASE PublishPanics(c)
    <3>1. CASE UNCHANGED crashed
      BY <2>4, <3>1 DEF PublishPanics, PublishPasses
    <3>2. CASE ~UNCHANGED crashed
      <4>1. UNCHANGED <<conn, server, forwarder, writer, clients, eventVars, sendVars>>
        BY <2>4, <3>2 DEF PublishPanics
      <4>2. CaughtByCleanup(c)
        BY <2>4 DEF PublishPanics, ServerPhase
      <4> QED
        BY <4>1, <4>2
    <3> QED
      BY <3>1, <3>2
  <2> QED
    BY <1>14, <2>1, <2>2, <2>3, <2>4 DEF FeedStep
<1>15. ASSUME Broadcast PROVE Bookkeeping'
  BY <1>15 DEF Broadcast
<1>16. CASE UNCHANGED hubVars
  BY <1>16 DEF hubVars
<1> QED
  BY <1>1, <1>2, <1>3, <1>4, <1>5, <1>6, <1>7, <1>8,
     <1>9, <1>10, <1>11, <1>12, <1>13, <1>14, <1>15, <1>16
     DEF HubNext, ServerStep, ForwarderStep, WriterStep

(* In every reachable state the table and the channels are where ServeWS    *)
(* left them.                                                               *)
THEOREM HubBookkeeping == HubSpec => []Bookkeeping
<1>1. HubInit => Bookkeeping
  BY DEF HubInit, Bookkeeping
<1> QED
  BY <1>1, BookkeepingStep, HubTypes, PTL DEF HubSpec

(* Whoever finds a client in the hub's table may send to it: Broadcast      *)
(* never meets a closed channel, whatever register, unregister and the bus  *)
(* do at the same time.                                                     *)
THEOREM TableIsSendable == HubSpec => []TableSendable
<1>1. Bookkeeping => TableSendable
  BY DEF Bookkeeping, TableSendable
<1> QED
  BY <1>1, HubBookkeeping, PTL

(* The process is only ever brought down where the cleanup of a client has   *)
(* closed a channel that its forwarder or a running Publish was about to     *)
(* send on, however many clients come and go.                                *)
THEOREM CrashCause == HubSpec => []CrashOnlyByCleanup
<1>1. Bookkeeping => CrashOnlyByCleanup
  BY DEF Bookkeeping, CrashOnlyByCleanup
<1> QED
  BY <1>1, HubBookkeeping, PTL
=============================================================================
