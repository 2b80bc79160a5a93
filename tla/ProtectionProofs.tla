-------------------------- MODULE ProtectionProofs --------------------------
(***************************************************************************)
(* Theorems about Protection, for any members, limits, windows and bounds. *)
(* Each tracker keeps a suffix of what really happened, and what it left   *)
(* out is older than its window or beyond a full list (Kept, Joined): that *)
(* is the invariant that makes judging by the list as good as judging by   *)
(* the history, where the list is long enough for the limit.               *)
(***************************************************************************)
EXTENDS Protection, FiniteSetTheorems, SequenceTheorems,
        WellFoundedInduction, TLAPS

Ordered(times) == \A i, j \in 1..Len(times) : i <= j => times[i] <= times[j]

(* part holds the last entries of whole. *)
Suffix(part, whole) ==
  /\ Len(part) <= Len(whole)
  /\ \A i \in 1..Len(part) : part[i] = whole[Len(whole) - Len(part) + i]

(* Of the times in whole, only those before t or beyond the last n are not *)
(* kept.                                                                   *)
Kept(times, whole, t, n) ==
  /\ Suffix(times, whole)
  /\ Len(times) <= n
  /\ Len(times) < Len(whole) => \/ Len(times) = n
                                \/ whole[Len(whole) - Len(times)] < t

-----------------------------------------------------------------------------
(* Times, and what is cut off them. *)

(* Every set of naturals has a least element.                              *)
LEMMA LeastNatural ==
  ASSUME NEW S, S \subseteq Nat, S # {}
  PROVE  \E x \in S : \A y \in S : x <= y
  <1>1. PICK x \in S : \A y \in S : ~(<<y, x>> \in OpToRel(<, Nat))
    BY NatLessThanWellFounded, WFMin
  <1>2. \A y \in S : ~(y < x)
    BY <1>1 DEF OpToRel
  <1> QED
    BY <1>2

(* popleft takes off the times before t up to the first that is not.       *)
LEMMA OutdatedFront ==
  ASSUME NEW times \in Seq(Nat), NEW t \in Int
  PROVE  /\ Outdated(times, t) \in 0..Len(times)
         /\ \A i \in 1..Outdated(times, t) : times[i] < t
         /\ Outdated(times, t) < Len(times) => times[Outdated(times, t) + 1] >= t
  <1> DEFINE late == {i \in 1..Len(times) : times[i] >= t}
  <1>1. \E n \in 0..Len(times) : Front(times, t, n)
    <2>1. CASE late = {}
      <3>1. Len(times) \in 0..Len(times) /\ Front(times, t, Len(times))
        BY <2>1 DEF Front
      <3> QED
        BY <3>1
    <2>2. CASE late # {}
      <3>1. PICK x \in late : \A y \in late : x <= y
        <4>1. late \subseteq Nat
          OBVIOUS
        <4> HIDE DEF late
        <4> QED
          BY <2>2, <4>1, LeastNatural
      <3>2. x - 1 \in 0..Len(times) /\ Front(times, t, x - 1)
        BY <3>1 DEF Front
      <3> QED
        BY <3>2
    <2> QED
      BY <2>1, <2>2
  <1>2. Outdated(times, t) \in 0..Len(times) /\ Front(times, t, Outdated(times, t))
    BY <1>1 DEF Outdated
  <1> QED
    BY <1>2 DEF Front

(* In ordered times, n of them are not before t when the n-th from the     *)
(* last is not.                                                            *)
LEMMA CountFromEnd ==
  ASSUME NEW times \in Seq(Nat), Ordered(times), NEW t \in Int, NEW n \in Nat \ {0}
  PROVE  /\ Cardinality(Within(times, t)) \in Nat
         /\ Cardinality(Within(times, t)) >= n <=>
              n <= Len(times) /\ times[Len(times) - n + 1] >= t
  <1> DEFINE L == Len(times)
             W == Within(times, t)
  <1>1. L \in Nat /\ DOMAIN times = 1..L /\ \A i \in 1..L : times[i] \in Nat
    OBVIOUS
  <1>2. W \subseteq 1..L /\ \A i \in 1..L : i \in W <=> times[i] >= t
    BY <1>1 DEF Within
  <1> HIDE DEF L, W
  <1>3. IsFiniteSet(1..L) /\ Cardinality(1..L) = L
    BY <1>1, FS_Interval
  <1>4. IsFiniteSet(W) /\ Cardinality(W) \in Nat /\ Cardinality(W) <= L
    BY <1>2, <1>3, FS_Subset, FS_CardinalityType
  <1>5. ASSUME n <= L, times[L - n + 1] >= t PROVE Cardinality(W) >= n
    <2>1. ASSUME NEW i \in (L - n + 1)..L PROVE i \in W
      <3>1. /\ i \in 1..L /\ L - n + 1 \in 1..L /\ L - n + 1 <= i
            /\ times[i] \in Nat /\ times[L - n + 1] \in Nat
        BY <1>1, <1>5
      <3>2. times[L - n + 1] <= times[i]
        BY <3>1 DEF Ordered, L
      <3>3. times[i] >= t
        BY <1>5, <3>1, <3>2
      <3> QED
        BY <1>2, <3>1, <3>3
    <2>2. ((L - n + 1)..L) \subseteq W
      BY <2>1
    <2>3. Cardinality((L - n + 1)..L) = n
      <3>1. L - n + 1 \in Int /\ L \in Int
        BY <1>1
      <3>2. Cardinality((L - n + 1)..L) =
              IF L - n + 1 > L THEN 0 ELSE L - (L - n + 1) + 1
        BY <3>1, FS_Interval
      <3> QED
        BY <1>1, <3>2
    <2>4. Cardinality((L - n + 1)..L) <= Cardinality(W)
      BY <1>4, <2>2, FS_Subset
    <2> QED
      BY <2>3, <2>4
  <1>6. ASSUME n <= L, ~(times[L - n + 1] >= t) PROVE Cardinality(W) < n
    <2>1. ASSUME NEW i \in W PROVE i \in (L - n + 2)..L
      <3>1. /\ i \in 1..L /\ times[i] >= t /\ L - n + 1 \in 1..L
            /\ times[i] \in Nat /\ times[L - n + 1] \in Nat
        BY <1>1, <1>2, <1>6
      <3>2. i <= L - n + 1 => times[i] <= times[L - n + 1]
        BY <3>1 DEF Ordered, L
      <3>3. ~(i <= L - n + 1)
        BY <1>6, <3>1, <3>2
      <3> QED
        BY <1>1, <3>1, <3>3
    <2>2. Cardinality((L - n + 2)..L) = n - 1 /\ IsFiniteSet((L - n + 2)..L)
      <3>1. L - n + 2 \in Int /\ L \in Int
        BY <1>1
      <3>2. /\ Cardinality((L - n + 2)..L) =
                 IF L - n + 2 > L THEN 0 ELSE L - (L - n + 2) + 1
            /\ IsFiniteSet((L - n + 2)..L)
        BY <3>1, FS_Interval
      <3> QED
        BY <1>1, <3>2
    <2>3. W \subseteq (L - n + 2)..L
      BY <2>1
    <2>4. Cardinality(W) <= Cardinality((L - n + 2)..L)
      BY <2>2, <2>3, FS_Subset
    <2> QED
      BY <1>4, <2>2, <2>4
  <1> QED
    BY <1>1, <1>4, <1>5, <1>6 DEF L, W

-----------------------------------------------------------------------------
(* Lists and their suffixes. *)

(* What SubSeq(log, n + 1, Len(log)) leaves. *)
LEMMA Cut ==
  ASSUME NEW T, NEW log \in Seq(T), NEW n \in 0..Len(log)
  PROVE  /\ SubSeq(log, n + 1, Len(log)) \in Seq(T)
         /\ Len(SubSeq(log, n + 1, Len(log))) = Len(log) - n
         /\ \A i \in 1..(Len(log) - n) :
              SubSeq(log, n + 1, Len(log))[i] = log[n + i]
  <1>1. Len(log) \in Nat /\ \A i \in (n + 1)..Len(log) : log[i] \in T
    OBVIOUS
  <1>2. n + 1 \in Int /\ Len(log) \in Int
    BY <1>1
  <1>3. /\ SubSeq(log, n + 1, Len(log)) \in Seq(T)
        /\ Len(SubSeq(log, n + 1, Len(log))) =
             IF n + 1 <= Len(log) THEN Len(log) - (n + 1) + 1 ELSE 0
        /\ \A i \in 1..(Len(log) - (n + 1) + 1) :
             SubSeq(log, n + 1, Len(log))[i] = log[(n + 1) + i - 1]
    BY <1>1, <1>2, SubSeqProperties
  <1>4. Len(log) - (n + 1) + 1 = Len(log) - n
    BY <1>1
  <1>5. \A i \in 1..(Len(log) - n) : (n + 1) + i - 1 = n + i
    BY <1>1
  <1>6. Len(SubSeq(log, n + 1, Len(log))) = Len(log) - n
    BY <1>1, <1>3
  <1>7. \A i \in 1..(Len(log) - n) :
          SubSeq(log, n + 1, Len(log))[i] = log[n + i]
    BY <1>3, <1>4, <1>5
  <1> QED
    BY <1>3, <1>6, <1>7

LEMMA SameSuffix ==
  ASSUME NEW T, NEW s \in Seq(T), NEW r \in Seq(T), NEW whole \in Seq(T),
         Suffix(s, whole), Suffix(r, whole), Len(s) = Len(r)
  PROVE  s = r
  <1>1. \A i \in 1..Len(s) : s[i] = r[i]
    BY DEF Suffix
  <1> QED
    BY <1>1, SeqEqual

LEMMA LatestIsSuffix ==
  ASSUME NEW T, NEW log \in Seq(T), NEW n \in Nat \ {0}
  PROVE  /\ Latest(log, n) \in Seq(T)
         /\ Len(Latest(log, n)) = IF Len(log) <= n THEN Len(log) ELSE n
         /\ Suffix(Latest(log, n), log)
  <1>1. CASE Len(log) <= n
    BY <1>1 DEF Latest, Suffix
  <1>2. CASE ~(Len(log) <= n)
    <2>1. Len(log) - n \in 0..Len(log) /\ Len(log) \in Nat
      BY <1>2
    <2>2. Latest(log, n) = SubSeq(log, (Len(log) - n) + 1, Len(log))
      BY <1>2 DEF Latest
    <2>3. /\ Latest(log, n) \in Seq(T)
          /\ Len(Latest(log, n)) = Len(log) - (Len(log) - n)
          /\ \A i \in 1..(Len(log) - (Len(log) - n)) :
               Latest(log, n)[i] = log[(Len(log) - n) + i]
      BY SMTT(30), <2>1, <2>2, Cut
    <2>4. Len(log) - (Len(log) - n) = n
      BY <2>1
    <2> QED
      BY <1>2, <2>1, <2>3, <2>4 DEF Suffix
  <1> QED
    BY <1>1, <1>2

(* A list takes one entry more, and loses the oldest: those n taken off    *)
(* its front and those beyond its limit.                                   *)
Moved(log, n, e, limit) ==
  Latest(Append(SubSeq(log, n + 1, Len(log)), e), limit)

LEMMA MovedIsSuffix ==
  ASSUME NEW T, NEW log \in Seq(T), NEW whole \in Seq(T), Suffix(log, whole),
         NEW n \in 0..Len(log), NEW e \in T, NEW limit \in Nat \ {0}
  PROVE  /\ Moved(log, n, e, limit) \in Seq(T)
         /\ Len(Moved(log, n, e, limit)) =
              IF Len(log) - n + 1 <= limit THEN Len(log) - n + 1 ELSE limit
         /\ Suffix(Moved(log, n, e, limit), Append(whole, e))
  <1> DEFINE cut  == SubSeq(log, n + 1, Len(log))
             more == Append(cut, e)
             new  == Moved(log, n, e, limit)
             all  == Append(whole, e)
  <1>1. /\ cut \in Seq(T) /\ Len(cut) = Len(log) - n
        /\ \A i \in 1..(Len(log) - n) : cut[i] = log[n + i]
    BY Cut
  <1>2. new = Latest(more, limit)
    BY DEF Moved
  <1>3. Len(log) \in Nat /\ Len(whole) \in Nat /\ n \in Nat /\ n <= Len(log)
    OBVIOUS
  <1> HIDE DEF cut, new
  <1>4. /\ more \in Seq(T) /\ Len(more) = Len(log) - n + 1
        /\ \A i \in 1..(Len(log) - n) : more[i] = log[n + i]
        /\ more[Len(log) - n + 1] = e
    BY <1>1, <1>3
  <1>5. /\ all \in Seq(T) /\ Len(all) = Len(whole) + 1
        /\ \A i \in 1..Len(whole) : all[i] = whole[i]
        /\ all[Len(whole) + 1] = e
    OBVIOUS
  <1> HIDE DEF more, all
  <1>6. /\ new \in Seq(T)
        /\ Len(new) = IF Len(more) <= limit THEN Len(more) ELSE limit
        /\ Len(new) <= Len(more)
        /\ \A i \in 1..Len(new) : new[i] = more[Len(more) - Len(new) + i]
    <2>1. /\ new \in Seq(T) /\ Suffix(new, more)
          /\ Len(new) = IF Len(more) <= limit THEN Len(more) ELSE limit
      BY <1>2, <1>4, LatestIsSuffix
    <2> QED
      BY <2>1 DEF Suffix
  <1>7. \A i \in 1..Len(more) : more[i] = all[Len(all) - Len(more) + i]
    <2> SUFFICES ASSUME NEW i \in 1..Len(more)
                 PROVE  more[i] = all[Len(all) - Len(more) + i]
      OBVIOUS
    <2>1. CASE i = Len(log) - n + 1
      <3>1. Len(all) - Len(more) + i = Len(whole) + 1
        BY <1>3, <1>4, <1>5, <2>1
      <3> QED
        BY <1>4, <1>5, <2>1, <3>1
    <2>2. CASE i \in 1..(Len(log) - n)
      <3>1. Len(log) <= Len(whole) /\ log[n + i] = whole[Len(whole) - Len(log) + (n + i)]
        BY <1>3, <2>2 DEF Suffix
      <3>2. /\ Len(all) - Len(more) + i = Len(whole) - Len(log) + (n + i)
            /\ Len(whole) - Len(log) + (n + i) \in 1..Len(whole)
        BY <1>3, <1>4, <1>5, <2>2, <3>1
      <3>3. all[Len(whole) - Len(log) + (n + i)] = whole[Len(whole) - Len(log) + (n + i)]
        BY <1>5, <3>2
      <3> QED
        BY <1>4, <2>2, <3>1, <3>2, <3>3
    <2> QED
      BY <1>3, <1>4, <2>1, <2>2
  <1>8. Suffix(new, all)
    <2>1. Len(more) <= Len(all) /\ Len(more) \in Nat /\ Len(all) \in Nat
      BY <1>3, <1>4, <1>5 DEF Suffix
    <2>2. Len(new) \in Nat /\ Len(new) <= Len(all)
      BY <1>6, <2>1
    <2> SUFFICES ASSUME NEW i \in 1..Len(new)
                 PROVE  new[i] = all[Len(all) - Len(new) + i]
      BY <2>2 DEF Suffix
    <2> DEFINE j == Len(more) - Len(new) + i
    <2>3. j \in 1..Len(more)
      <3>1. Len(new) <= Len(more)
        BY <1>6
      <3> QED
        BY <2>1, <2>2, <3>1
    <2>4. new[i] = more[j]
      BY <1>6
    <2>5. Len(all) - Len(more) + j = Len(all) - Len(new) + i
      BY <2>1, <2>2
    <2> QED
      BY <1>7, <2>3, <2>4, <2>5
  <1> QED
    BY <1>4, <1>6, <1>8 DEF new, all

-----------------------------------------------------------------------------
(* Lists of times that are pruned. *)

(* A list that is pruned and takes a new time keeps what it should, and    *)
(* nothing before the cut.                                                 *)
LEMMA PrunedKeeps ==
  ASSUME NEW times \in Seq(Nat), NEW whole \in Seq(Nat), NEW at \in Nat,
         NEW t \in Int, NEW limit \in Nat \ {0}, t <= at,
         Ordered(Append(whole, at)), Kept(times, whole, t, limit),
         NEW new \in Seq(Nat), Suffix(new, Append(whole, at)),
         Len(new) = IF Len(times) - Outdated(times, t) + 1 <= limit
                    THEN Len(times) - Outdated(times, t) + 1 ELSE limit
  PROVE  /\ Kept(new, Append(whole, at), t, limit)
         /\ Len(new) >= 1
         /\ \A i \in 1..Len(new) : new[i] >= t
  <1> DEFINE n   == Outdated(times, t)
             all == Append(whole, at)
             d   == Len(whole) - Len(times)
  <1>1. /\ n \in 0..Len(times) /\ \A i \in 1..n : times[i] < t
        /\ n < Len(times) => times[n + 1] >= t
    BY OutdatedFront
  <1>2. /\ all \in Seq(Nat) /\ Len(all) = Len(whole) + 1
        /\ \A i \in 1..Len(whole) : all[i] = whole[i]
        /\ all[Len(whole) + 1] = at
    OBVIOUS
  <1>3. /\ Len(times) \in Nat /\ Len(whole) \in Nat /\ n \in Nat /\ Len(new) \in Nat
        /\ d \in Nat /\ d = Len(whole) - Len(times) /\ n <= Len(times)
        /\ \A i \in 1..Len(times) : times[i] = whole[d + i] /\ d + i \in 1..Len(whole)
    <2>1. Len(times) <= Len(whole) /\ Len(times) \in Nat /\ Len(whole) \in Nat
      BY DEF Kept, Suffix
    <2>2. d \in Nat /\ \A i \in 1..Len(times) : d + i \in 1..Len(whole)
      BY <2>1
    <2>3. \A i \in 1..Len(times) : times[i] = whole[d + i]
      BY DEF Kept, Suffix
    <2>4. n \in Nat /\ n <= Len(times) /\ Len(new) \in Nat
      BY <1>1, <2>1
    <2> QED
      BY <2>1, <2>2, <2>3, <2>4
  <1> HIDE DEF n, all, d
  <1>4. Ordered(all) /\ Suffix(new, all)
    BY DEF all
  <1>5. Len(new) = IF Len(times) - n + 1 <= limit THEN Len(times) - n + 1 ELSE limit
    BY DEF n
  (* The arithmetic of it. *)
  <1> DEFINE K == Len(times)
             N == Len(new)
             A == Len(all)
  <1>a. /\ K \in Nat /\ N \in Nat /\ A \in Nat /\ n \in Nat /\ d \in Nat
        /\ n <= K /\ A = d + K + 1 /\ N >= 1 /\ N <= limit
        /\ N = IF K - n + 1 <= limit THEN K - n + 1 ELSE limit
    <2>1. /\ K \in Nat /\ Len(whole) \in Nat /\ n \in Nat /\ N \in Nat
          /\ d \in Nat /\ d = Len(whole) - K /\ n <= K
      BY <1>3
    <2>2. A = Len(whole) + 1
      BY <1>2
    <2>3. N = IF K - n + 1 <= limit THEN K - n + 1 ELSE limit
      BY <1>5
    <2> HIDE DEF K, A, N
    <2>4. A \in Nat /\ A = d + K + 1
      BY <2>1, <2>2
    <2>5. N >= 1 /\ N <= limit
      BY <2>1, <2>3
    <2> QED
      BY <2>1, <2>3, <2>4, <2>5
  <1> HIDE DEF K, N, A
  <1>6. N <= K - n + 1 /\ N <= A /\ d + n + 1 \in 1..A
    BY <1>a
  (* The places d + n and d + n + 1 of the history are those of the cut.   *)
  <1>7. n > 0 => all[d + n] < t
    <2> SUFFICES ASSUME n > 0 PROVE all[d + n] < t
      OBVIOUS
    <2>1. n \in 1..K
      BY <1>a
    <2>2. times[n] < t
      BY <1>1, <2>1
    <2>3. times[n] = whole[d + n] /\ d + n \in 1..Len(whole)
      BY <1>3, <2>1 DEF K
    <2> QED
      BY <1>2, <2>2, <2>3
  <1>8. all[d + n + 1] >= t
    <2>1. CASE n < K
      <3>1. n + 1 \in 1..K /\ d + (n + 1) = d + n + 1
        BY <1>a, <2>1
      <3>2. times[n + 1] >= t
        BY <1>1, <2>1 DEF K
      <3>3. times[n + 1] = whole[d + (n + 1)] /\ d + (n + 1) \in 1..Len(whole)
        BY <1>3, <3>1 DEF K
      <3>4. all[d + (n + 1)] = whole[d + (n + 1)]
        BY <1>2, <3>3
      <3> QED
        BY <3>1, <3>2, <3>3, <3>4
    <2>2. CASE n = K
      <3>1. d + n + 1 = A /\ A = Len(whole) + 1
        BY <1>2, <1>a, <2>2 DEF A
      <3> QED
        BY <1>2, <3>1
    <2> QED
      BY <1>a, <2>1, <2>2
  <1>9. \A i \in 1..N : new[i] >= t
    <2> SUFFICES ASSUME NEW i \in 1..N PROVE new[i] >= t
      OBVIOUS
    <2> DEFINE j == A - N + i
    <2>1. new[i] = all[j]
      BY <1>4 DEF Suffix, A, N
    <2>2. j \in 1..A /\ d + n + 1 <= j
      BY <1>a, <1>6
    <2> HIDE DEF j
    <2>3. all[d + n + 1] <= all[j]
      BY <1>4, <1>6, <2>2 DEF Ordered, A
    <2>4. all[d + n + 1] \in Nat /\ all[j] \in Nat
      BY <1>2, <1>6, <2>2, ElementOfSeq DEF A
    <2> QED
      BY <1>8, <2>1, <2>3, <2>4
  <1>10. Kept(new, all, t, limit)
    <2> SUFFICES ASSUME N < A, N # limit
                 PROVE  all[A - N] < t
      BY <1>4, <1>a DEF Kept, A, N
    <2>1. A - N = d + n /\ K < limit + n
      BY <1>a
    <2>2. CASE n > 0
      BY <1>7, <2>1, <2>2
    <2>3. CASE n = 0
      <3>1. K < limit /\ d > 0 /\ A - N = d
        BY <1>a, <2>1, <2>3
      <3>2. Len(times) < Len(whole) /\ d = Len(whole) - Len(times)
            /\ d \in 1..Len(whole)
        BY <1>3, <3>1
      <3>3. whole[d] < t
        BY <3>1, <3>2, <1>a DEF Kept, K
      <3>4. all[d] = whole[d]
        BY <1>2, <3>2
      <3> QED
        BY <3>1, <3>3, <3>4
    <2> QED
      BY <1>a, <2>2, <2>3
  <1> QED
    BY <1>a, <1>9, <1>10 DEF all, N

(* Counting in the list is counting in the history, from any later time    *)
(* on, up to the limit of the list.                                        *)
LEMMA KeptCounts ==
  ASSUME NEW times \in Seq(Nat), NEW whole \in Seq(Nat), Ordered(whole),
         NEW t \in Int, NEW limit \in Nat, Kept(times, whole, t, limit),
         NEW from \in Int, t <= from, NEW n \in 1..limit
  PROVE  Cardinality(Within(times, from)) >= n <=>
           Cardinality(Within(whole, from)) >= n
  <1> DEFINE K == Len(times)
             L == Len(whole)
  <1>1. /\ K \in Nat /\ L \in Nat /\ K <= L /\ n \in Nat \ {0} /\ n <= limit
        /\ \A i \in 1..K : times[i] = whole[L - K + i]
        /\ \A i \in 1..L : whole[i] \in Nat
    <2>1. K \in Nat /\ L \in Nat /\ \A i \in 1..L : whole[i] \in Nat
      OBVIOUS
    <2>2. K <= L /\ \A i \in 1..K : times[i] = whole[L - K + i]
      BY DEF Kept, Suffix
    <2> QED
      BY <2>1, <2>2
  <1> HIDE DEF K, L
  <1>2. Ordered(times)
    <2> SUFFICES ASSUME NEW i \in 1..K, NEW j \in 1..K, i <= j
                 PROVE  times[i] <= times[j]
      BY DEF Ordered, K
    <2>1. L - K + i \in 1..L /\ L - K + j \in 1..L /\ L - K + i <= L - K + j
      BY <1>1
    <2> QED
      BY <1>1, <2>1 DEF Ordered, L
  <1>3. Cardinality(Within(times, from)) >= n <=> n <= K /\ times[K - n + 1] >= from
    BY <1>1, <1>2, CountFromEnd DEF K
  <1>4. Cardinality(Within(whole, from)) >= n <=> n <= L /\ whole[L - n + 1] >= from
    BY <1>1, CountFromEnd DEF L
  <1>5. CASE n <= K
    <2>1. K - n + 1 \in 1..K /\ L - K + (K - n + 1) = L - n + 1
      BY <1>1, <1>5
    <2>2. times[K - n + 1] = whole[L - n + 1]
      BY <1>1, <2>1
    <2>3. n <= L
      BY <1>1, <1>5
    <2> QED
      BY <1>3, <1>4, <1>5, <2>2, <2>3
  <1>6. CASE n > K
    <2>1. ~(n <= L /\ whole[L - n + 1] >= from)
      <3> SUFFICES ASSUME n <= L PROVE whole[L - n + 1] < from
        BY <1>1
      <3>1. whole[L - K] < t
        BY <1>1, <1>6 DEF Kept, K, L
      <3>2. L - n + 1 \in 1..L /\ L - K \in 1..L /\ L - n + 1 <= L - K
        BY <1>1, <1>6
      <3>3. whole[L - n + 1] <= whole[L - K]
        BY <3>2 DEF Ordered, L
      <3>4. whole[L - n + 1] \in Nat /\ whole[L - K] \in Nat
        BY <1>1, <3>2
      <3> QED
        BY <3>1, <3>3, <3>4
    <2> QED
      BY <1>1, <1>3, <1>4, <1>6, <2>1
  <1> QED
    BY <1>1, <1>5, <1>6

-----------------------------------------------------------------------------
(* Joins. *)

RaidKept ==
  /\ RaidTypeOK
  /\ now \in 0..MaxTime
  /\ Ordered(joined) /\ \A i \in 1..Len(joined) : joined[i] <= now
  /\ Kept(joins, joined, now - JoinWindow, MaxTrackedJoins)

(* The alerts so far, and that the cooldown runs from the last of them.    *)
Alerting ==
  /\ \A i \in 1..Len(alerts) : alerts[i] <= now
  /\ AlertsSpaced
  /\ lastAlert = IF alerts = <<>> THEN Quiet ELSE alerts[Len(alerts)]

LEMMA OrderedAppend ==
  ASSUME NEW times \in Seq(Nat), Ordered(times), NEW at \in Nat,
         \A i \in 1..Len(times) : times[i] <= at
  PROVE  /\ Append(times, at) \in Seq(Nat) /\ Ordered(Append(times, at))
         /\ Len(Append(times, at)) = Len(times) + 1
         /\ \A i \in 1..Len(Append(times, at)) : Append(times, at)[i] <= at
  <1>1. /\ Append(times, at) \in Seq(Nat) /\ Len(Append(times, at)) = Len(times) + 1
        /\ \A i \in 1..Len(times) : Append(times, at)[i] = times[i]
        /\ Append(times, at)[Len(times) + 1] = at
        /\ Len(times) \in Nat /\ \A i \in 1..Len(times) : times[i] \in Nat
    OBVIOUS
  <1> QED
    BY <1>1 DEF Ordered

(* The joins are pruned like any list; Tail drops what is beyond the limit. *)
LEMMA JoinsMoved ==
  ASSUME RaidKept
  PROVE  Joins = Moved(joins, Outdated(joins, now - JoinWindow), now, MaxTrackedJoins)
  <1> DEFINE n    == Outdated(joins, now - JoinWindow)
             kept == Append(SubSeq(joins, n + 1, Len(joins)), now)
  <1>1. /\ now \in Nat /\ now - JoinWindow \in Int
        /\ joins \in Seq(Nat) /\ Len(joins) <= MaxTrackedJoins
        /\ MaxTrackedJoins \in Nat \ {0}
    BY MonotonicAssumption, RaidAssumption DEF RaidKept, RaidTypeOK
  <1>2. n \in 0..Len(joins)
    BY <1>1, OutdatedFront
  <1>3. SubSeq(joins, n + 1, Len(joins)) \in Seq(Nat)
        /\ Len(SubSeq(joins, n + 1, Len(joins))) = Len(joins) - n
    BY <1>1, <1>2, Cut
  <1>4. kept \in Seq(Nat) /\ Len(kept) = Len(joins) - n + 1
    BY <1>1, <1>3
  <1>5. Joins = IF Len(kept) <= MaxTrackedJoins THEN kept ELSE Tail(kept)
    BY DEF Joins, After
  <1>6. Moved(joins, n, now, MaxTrackedJoins) = Latest(kept, MaxTrackedJoins)
    BY DEF Moved
  <1> HIDE DEF kept, n
  <1>7. CASE Len(kept) <= MaxTrackedJoins
    BY <1>5, <1>6, <1>7 DEF Latest, n
  <1>8. CASE ~(Len(kept) <= MaxTrackedJoins)
    <2>1. Len(kept) - MaxTrackedJoins + 1 = 2 /\ Len(kept) \in Nat /\ Len(kept) # 0
      BY <1>1, <1>2, <1>4, <1>8
    <2>2. Tail(kept) = SubSeq(kept, 2, Len(kept))
      BY <1>4, <2>1, TailIsSubSeq
    <2> QED
      BY <1>5, <1>6, <1>8, <2>1, <2>2 DEF Latest, n
  <1> QED
    BY <1>7, <1>8

LEMMA JoinsKept ==
  ASSUME RaidKept
  PROVE  /\ Joins \in Seq(0..MaxTime) /\ Len(Joins) <= MaxTrackedJoins
         /\ Append(joined, now) \in Seq(0..MaxTime) /\ Ordered(Append(joined, now))
         /\ \A i \in 1..Len(Append(joined, now)) : Append(joined, now)[i] <= now
         /\ Kept(Joins, Append(joined, now), now - JoinWindow, MaxTrackedJoins)
         /\ \A i \in 1..Len(Joins) : Joins[i] >= now - JoinWindow
  <1> DEFINE t == now - JoinWindow
             n == Outdated(joins, t)
  <1>1. /\ now \in Nat /\ now \in 0..MaxTime /\ t \in Int /\ t <= now
        /\ joins \in Seq(Nat) /\ joins \in Seq(0..MaxTime)
        /\ joined \in Seq(Nat) /\ joined \in Seq(0..MaxTime)
        /\ MaxTrackedJoins \in Nat \ {0}
    BY MonotonicAssumption, RaidAssumption DEF RaidKept, RaidTypeOK
  <1>2. /\ Ordered(joined) /\ \A i \in 1..Len(joined) : joined[i] <= now
        /\ Kept(joins, joined, t, MaxTrackedJoins) /\ Suffix(joins, joined)
    BY DEF RaidKept, Kept
  <1>3. Append(joined, now) \in Seq(Nat) /\ Ordered(Append(joined, now))
        /\ \A i \in 1..Len(Append(joined, now)) : Append(joined, now)[i] <= now
    BY <1>1, <1>2, OrderedAppend
  <1>4. Append(joined, now) \in Seq(0..MaxTime)
    BY <1>1
  <1>5. Joins = Moved(joins, n, now, MaxTrackedJoins)
    BY JoinsMoved
  <1>6. n \in 0..Len(joins)
    BY <1>1, OutdatedFront
  <1> HIDE DEF n, t
  <1>7. /\ Joins \in Seq(0..MaxTime) /\ Suffix(Joins, Append(joined, now))
        /\ Len(Joins) = IF Len(joins) - n + 1 <= MaxTrackedJoins
                        THEN Len(joins) - n + 1 ELSE MaxTrackedJoins
    <2> DEFINE T == 0..MaxTime
    <2>1. joins \in Seq(T) /\ joined \in Seq(T) /\ now \in T
      BY <1>1
    <2> HIDE DEF T
    <2>2. /\ Moved(joins, n, now, MaxTrackedJoins) \in Seq(T)
          /\ Suffix(Moved(joins, n, now, MaxTrackedJoins), Append(joined, now))
          /\ Len(Moved(joins, n, now, MaxTrackedJoins)) =
               IF Len(joins) - n + 1 <= MaxTrackedJoins
               THEN Len(joins) - n + 1 ELSE MaxTrackedJoins
      BY <1>1, <1>2, <1>6, <2>1, MovedIsSuffix
    <2> QED
      BY <1>5, <2>2 DEF T
  <1>8. Joins \in Seq(Nat)
    BY <1>7, SeqMonotonic, MonotonicAssumption
  <1>9. /\ Kept(Joins, Append(joined, now), t, MaxTrackedJoins)
        /\ \A i \in 1..Len(Joins) : Joins[i] >= t
    BY <1>1, <1>2, <1>3, <1>7, <1>8, PrunedKeeps DEF n
  <1> QED
    BY <1>3, <1>4, <1>7, <1>9 DEF t, Kept

(* The list reaches a threshold when the joins of the window do.           *)
LEMMA SpikeIsTrue ==
  ASSUME RaidKept, NEW threshold \in Thresholds
  PROVE  Len(Joins) >= threshold <=>
           Cardinality(Within(Append(joined, now), now - JoinWindow)) >= threshold
  <1> DEFINE t   == now - JoinWindow
             all == Append(joined, now)
  <1>1. /\ threshold \in 1..MaxTrackedJoins /\ MaxTrackedJoins \in Nat
        /\ t \in Int
    BY MonotonicAssumption, RaidAssumption DEF RaidKept
  <1>2. /\ Joins \in Seq(Nat) /\ all \in Seq(Nat) /\ Ordered(all)
        /\ Kept(Joins, all, t, MaxTrackedJoins)
        /\ \A i \in 1..Len(Joins) : Joins[i] >= t
    <2>1. Joins \in Seq(0..MaxTime) /\ all \in Seq(0..MaxTime)
      BY JoinsKept
    <2>2. 0..MaxTime \subseteq Nat
      OBVIOUS
    <2>3. Joins \in Seq(Nat) /\ all \in Seq(Nat)
      BY <2>1, <2>2, SeqMonotonic
    <2> QED
      BY <2>3, JoinsKept
  <1> HIDE DEF t, all
  <1>3. Cardinality(Within(Joins, t)) >= threshold <=>
          Cardinality(Within(all, t)) >= threshold
    BY <1>1, <1>2, KeptCounts
  <1>4. Cardinality(Within(Joins, t)) = Len(Joins)
    <2>1. Within(Joins, t) = 1..Len(Joins)
      BY <1>2 DEF Within
    <2>2. Len(Joins) \in Nat
      BY <1>2
    <2>3. Cardinality(1..Len(Joins)) = IF 1 > Len(Joins) THEN 0 ELSE Len(Joins) - 1 + 1
      BY <2>2, FS_Interval
    <2> QED
      BY <2>1, <2>2, <2>3
  <1> QED
    BY <1>3, <1>4 DEF t, all

(* An alert is given when the spike is real and none was given within the  *)
(* cooldown.                                                               *)
LEMMA CooldownIsTrue ==
  ASSUME RaidKept, Alerting
  PROVE  CoolingDown <=> \E i \in DOMAIN alerts : now - alerts[i] < AlertCooldown
  <1> DEFINE n == Len(alerts)
  <1>1. /\ n \in Nat /\ DOMAIN alerts = 1..n /\ now \in Nat /\ AlertCooldown \in Nat
        /\ \A i \in 1..n : alerts[i] \in Nat
    BY SMTT(30), MonotonicAssumption, RaidAssumption DEF RaidKept, RaidTypeOK
  <1> HIDE DEF n
  <1>2. CASE n = 0
    <2>1. alerts = <<>> /\ lastAlert = Quiet
      BY <1>2 DEF n, Alerting, RaidKept, RaidTypeOK
    <2> QED
      BY <1>1, <1>2, <2>1 DEF CoolingDown
  <1>3. CASE n > 0
    <2>1. lastAlert = alerts[n] /\ n \in 1..n
      BY <1>1, <1>3 DEF n, Alerting, RaidKept, RaidTypeOK
    <2>2. lastAlert # Quiet
      BY <1>1, <2>1 DEF Quiet
    <2>3. CoolingDown <=> now - alerts[n] < AlertCooldown
      BY <2>1, <2>2 DEF CoolingDown
    <2>4. \A i \in 1..n : i # n => alerts[n] - alerts[i] >= AlertCooldown
      BY SMTT(30), <1>1, <2>1 DEF Alerting, AlertsSpaced
    <2>5. \A i \in 1..n : now - alerts[i] < AlertCooldown => now - alerts[n] < AlertCooldown
      BY <1>1, <2>1, <2>4
    <2> QED
      BY <1>1, <2>1, <2>3, <2>5
  <1> QED
    BY <1>1, <1>2, <1>3

LEMMA RecordKeeps ==
  ASSUME RaidKept, Alerting, NEW threshold \in Thresholds, RecordJoin(threshold)
  PROVE  RaidKept' /\ Alerting'
  <1>1. /\ joins' = Joins /\ joined' = Append(joined, now) /\ now' = now
    BY DEF RecordJoin, Happen
  <1>2. /\ now \in Nat /\ now \in 0..MaxTime /\ alerts \in Seq(0..MaxTime)
        /\ AlertCooldown \in Nat
        /\ lastAlert \in 0..MaxTime \cup {Quiet}
    BY MonotonicAssumption, RaidAssumption DEF RaidKept, RaidTypeOK
  <1>3. CASE alerts' = alerts /\ lastAlert' = lastAlert
    <2>1. Alerting'
      BY <1>1, <1>3 DEF Alerting, AlertsSpaced
    <2>2. RaidKept'
      BY <1>1, <1>2, <1>3, JoinsKept DEF RaidKept, RaidTypeOK
    <2> QED
      BY <2>1, <2>2
  <1>4. CASE alerts' = Append(alerts, now) /\ lastAlert' = now /\ ~CoolingDown
    <2> DEFINE n == Len(alerts)
    <2>1. /\ n \in Nat /\ \A i \in 1..n : alerts[i] \in Nat /\ alerts'[i] = alerts[i]
          /\ alerts' \in Seq(0..MaxTime) /\ Len(alerts') = n + 1 /\ alerts'[n + 1] = now
          /\ DOMAIN alerts = 1..n /\ DOMAIN alerts' = 1..(n + 1) /\ alerts' # <<>>
      <3>1. n \in Nat /\ DOMAIN alerts = 1..n /\ \A i \in 1..n : alerts[i] \in Nat
        BY <1>2, MonotonicAssumption
      <3>2. /\ alerts' \in Seq(0..MaxTime) /\ alerts' # <<>> /\ Len(alerts') = n + 1
            /\ \A i \in 1..n : alerts'[i] = alerts[i]
            /\ alerts'[n + 1] = now
        BY <1>2, <1>4, AppendProperties
      <3>3. DOMAIN alerts' = 1..Len(alerts')
        BY <3>2
      <3> QED
        BY <3>1, <3>2, <3>3
    <2> HIDE DEF n
    <2>2. \A i \in 1..n : alerts[i] <= now /\ now - alerts[i] >= AlertCooldown
      <3>1. \A i \in DOMAIN alerts : ~(now - alerts[i] < AlertCooldown)
        BY <1>4, CooldownIsTrue
      <3>2. \A i \in 1..n : alerts[i] <= now
        BY DEF Alerting, n
      <3>3. ASSUME NEW i \in 1..n PROVE now - alerts[i] >= AlertCooldown
        <4>1. ~(now - alerts[i] < AlertCooldown) /\ alerts[i] \in Nat
          BY <2>1, <3>1
        <4> QED
          BY <1>2, <4>1
      <3> QED
        BY <3>2, <3>3
    <2>3. AlertsSpaced'
      <3> SUFFICES ASSUME NEW i \in 1..(n + 1), NEW j \in 1..(n + 1), i < j
                   PROVE  alerts'[j] - alerts'[i] >= AlertCooldown
        BY <2>1 DEF AlertsSpaced
      <3>1. i \in 1..n
        BY <2>1
      <3>2. CASE j = n + 1
        BY <2>1, <2>2, <3>1, <3>2
      <3>3. CASE j \in 1..n
        BY <2>1, <3>1, <3>3 DEF Alerting, AlertsSpaced
      <3> QED
        BY <2>1, <3>2, <3>3
    <2>4. Alerting'
      BY <1>1, <1>2, <1>4, <2>1, <2>2, <2>3 DEF Alerting
    <2>5. RaidKept'
      BY <1>1, <1>2, <1>4, <2>1, JoinsKept DEF RaidKept, RaidTypeOK
    <2> QED
      BY <2>4, <2>5
  <1> QED
    BY <1>3, <1>4 DEF RecordJoin

LEMMA ForgetJoinsKeeps ==
  ASSUME RaidKept, ForgetJoins, now' = now
  PROVE  RaidKept' /\ Alerting'
  <1>1. /\ joins' = <<>> /\ joined' = <<>> /\ alerts' = <<>> /\ lastAlert' = Quiet
    BY DEF ForgetJoins
  <1>2. MaxTrackedJoins \in Nat
    BY RaidAssumption
  <1>3. Ordered(joined') /\ Kept(joins', joined', now' - JoinWindow, MaxTrackedJoins)
    BY <1>1, <1>2 DEF Ordered, Kept, Suffix
  <1> QED
    BY <1>1, <1>2, <1>3 DEF RaidKept, RaidTypeOK, Alerting, AlertsSpaced

LEMMA ElapseKeepsRaid ==
  ASSUME RaidKept, Alerting, Elapse, UNCHANGED raidVars
  PROVE  RaidKept' /\ Alerting'
  <1>1. /\ now \in Nat /\ now' = now + 1 /\ now' \in 0..MaxTime
        /\ JoinWindow \in Nat /\ UNCHANGED <<joins, lastAlert, joined, alerts>>
        /\ joined \in Seq(Nat) /\ alerts \in Seq(Nat)
    BY MonotonicAssumption, RaidAssumption
    DEF RaidKept, RaidTypeOK, Elapse, raidVars
  <1>2. /\ \A i \in 1..Len(joined) : joined[i] \in Nat
        /\ \A i \in 1..Len(alerts) : alerts[i] \in Nat
    BY <1>1
  <1>3. \A i \in 1..Len(joined) : joined'[i] <= now'
    BY <1>1, <1>2 DEF RaidKept
  <1>4. \A i \in 1..Len(alerts) : alerts'[i] <= now'
    BY <1>1, <1>2 DEF Alerting
  <1>5. Kept(joins', joined', now' - JoinWindow, MaxTrackedJoins)
    <2>1. Kept(joins, joined, now - JoinWindow, MaxTrackedJoins)
      BY DEF RaidKept
    <2>2. Len(joins) < Len(joined) => joined[Len(joined) - Len(joins)] \in Nat
      <3>1. Len(joins) \in Nat /\ Len(joined) \in Nat
        BY <1>1 DEF RaidKept, RaidTypeOK
      <3>2. Len(joins) < Len(joined) => Len(joined) - Len(joins) \in 1..Len(joined)
        BY <3>1
      <3> QED
        BY <1>2, <3>2
    <2> QED
      BY <1>1, <2>1, <2>2 DEF Kept, Suffix
  <1> QED
    BY <1>1, <1>3, <1>4, <1>5 DEF RaidKept, RaidTypeOK, Alerting, AlertsSpaced, Ordered

-----------------------------------------------------------------------------
(* Messages. *)

Span == FloodWindow * WindowFactor

(* What k sent since he was last dropped, and what the table has of it.    *)
Own(k) == SubSeq(sent[k], forgotten[k] + 1, Len(sent[k]))
Log(k) == IF k \in Tracked THEN activity[k] ELSE <<>>

SpamKept ==
  /\ SpamTypeOK
  /\ IsFiniteSet(Tracked)
  /\ now \in 0..MaxTime
  /\ \A k \in Members :
       /\ Ordered(Times(sent[k]))
       /\ \A i \in 1..Len(sent[k]) : sent[k][i].at <= now
       /\ k \notin Tracked => forgotten[k] = Len(sent[k])
       /\ Suffix(Log(k), Own(k))
       /\ Kept(Times(Log(k)), Times(Own(k)), now - Span, HistoryPerMember)

LEMMA SpanIsLong == Span \in Nat /\ FloodWindow \in Nat /\ FloodWindow <= Span
  <1>1. FloodWindow \in Nat /\ WindowFactor \in Nat /\ WindowFactor >= 1
    BY SpamAssumption
  <1>2. FloodWindow * WindowFactor \in Nat
        /\ FloodWindow * 1 <= FloodWindow * WindowFactor
    BY <1>1
  <1> QED
    BY <1>1, <1>2 DEF Span

LEMMA TimesOf ==
  ASSUME NEW log \in Seq(Event)
  PROVE  /\ Times(log) \in Seq(Nat) /\ Len(Times(log)) = Len(log)
         /\ \A i \in 1..Len(log) : Times(log)[i] = log[i].at /\ log[i].at \in Nat
  <1>1. /\ Len(log) \in Nat /\ DOMAIN log = 1..Len(log)
        /\ \A i \in 1..Len(log) : log[i].at \in Nat
    <2>1. \A e \in Event : e.at \in Nat
      BY MonotonicAssumption DEF Event
    <2>2. Len(log) \in Nat /\ DOMAIN log = 1..Len(log)
          /\ \A i \in 1..Len(log) : log[i] \in Event
      OBVIOUS
    <2> QED
      BY <2>1, <2>2
  <1>2. Times(log) = [i \in 1..Len(log) |-> log[i].at]
    BY <1>1 DEF Times
  <1> QED
    BY <1>1, <1>2

LEMMA TimesSuffix ==
  ASSUME NEW part \in Seq(Event), NEW whole \in Seq(Event), Suffix(part, whole)
  PROVE  Suffix(Times(part), Times(whole))
  <1>1. /\ Len(part) \in Nat /\ Len(whole) \in Nat /\ Len(part) <= Len(whole)
        /\ \A i \in 1..Len(part) : part[i] = whole[Len(whole) - Len(part) + i]
    BY DEF Suffix
  <1>2. \A i \in 1..Len(part) : Len(whole) - Len(part) + i \in 1..Len(whole)
    BY <1>1
  <1>3. /\ Len(Times(part)) = Len(part) /\ Len(Times(whole)) = Len(whole)
        /\ \A i \in 1..Len(part) : Times(part)[i] = part[i].at
        /\ \A i \in 1..Len(whole) : Times(whole)[i] = whole[i].at
    BY TimesOf
  <1> QED
    BY <1>1, <1>2, <1>3 DEF Suffix

LEMMA TimesAppend ==
  ASSUME NEW log \in Seq(Event), NEW e \in Event
  PROVE  Times(Append(log, e)) = Append(Times(log), e.at)
  <1> DEFINE all == Append(log, e)
  <1>1. /\ all \in Seq(Event) /\ Len(all) = Len(log) + 1 /\ Len(log) \in Nat
        /\ \A i \in 1..Len(log) : all[i] = log[i]
        /\ all[Len(log) + 1] = e
    BY AppendProperties
  <1> HIDE DEF all
  <1>2. /\ Times(all) \in Seq(Nat) /\ Len(Times(all)) = Len(log) + 1
        /\ \A i \in 1..(Len(log) + 1) : Times(all)[i] = all[i].at
    BY <1>1, TimesOf
  <1>3. /\ Times(log) \in Seq(Nat) /\ Len(Times(log)) = Len(log)
        /\ \A i \in 1..Len(log) : Times(log)[i] = log[i].at
    BY TimesOf
  <1>4. e.at \in Nat
    BY MonotonicAssumption DEF Event
  <1>5. /\ Append(Times(log), e.at) \in Seq(Nat)
        /\ Len(Append(Times(log), e.at)) = Len(log) + 1
        /\ \A i \in 1..Len(log) : Append(Times(log), e.at)[i] = Times(log)[i]
        /\ Append(Times(log), e.at)[Len(log) + 1] = e.at
    <2> DEFINE times == Times(log)
    <2>1. times \in Seq(Nat) /\ Len(times) = Len(log)
      BY <1>3
    <2> HIDE DEF times
    <2>2. /\ Append(times, e.at) \in Seq(Nat)
          /\ Len(Append(times, e.at)) = Len(times) + 1
          /\ \A i \in 1..Len(times) : Append(times, e.at)[i] = times[i]
          /\ Append(times, e.at)[Len(times) + 1] = e.at
      BY <1>4, <2>1, AppendProperties
    <2>3. /\ Append(times, e.at) \in Seq(Nat)
          /\ Len(Append(times, e.at)) = Len(log) + 1
          /\ \A i \in 1..Len(log) : Append(times, e.at)[i] = times[i]
          /\ Append(times, e.at)[Len(log) + 1] = e.at
      BY <2>1, <2>2
    <2> QED
      BY <2>3 DEF times
  <1>6. \A i \in 1..(Len(log) + 1) : Times(all)[i] = Append(Times(log), e.at)[i]
    <2>1. \A i \in 1..Len(log) :
            /\ i \in 1..(Len(log) + 1) /\ all[i] = log[i]
            /\ Append(Times(log), e.at)[i] = log[i].at
      BY <1>1, <1>3, <1>5
    <2>2. \A i \in 1..(Len(log) + 1) : i \in 1..Len(log) \/ i = Len(log) + 1
      BY <1>1
    <2> QED
      BY <1>1, <1>2, <1>5, <2>1, <2>2
  <1> QED
    BY <1>2, <1>5, <1>6, SeqEqual DEF all

LEMMA CutIsSuffix ==
  ASSUME NEW T, NEW log \in Seq(T), NEW n \in 0..Len(log)
  PROVE  Suffix(SubSeq(log, n + 1, Len(log)), log)
  <1> DEFINE part == SubSeq(log, n + 1, Len(log))
  <1>1. Len(part) = Len(log) - n /\ \A i \in 1..(Len(log) - n) : part[i] = log[n + i]
    BY Cut
  <1> HIDE DEF part
  <1>2. Len(part) <= Len(log) /\ Len(log) - Len(part) = n
    BY <1>1
  <1>3. Suffix(part, log)
    BY <1>1, <1>2 DEF Suffix
  <1> QED
    BY <1>3 DEF part

LEMMA CutAppend ==
  ASSUME NEW T, NEW log \in Seq(T), NEW n \in 0..Len(log), NEW e \in T
  PROVE  SubSeq(Append(log, e), n + 1, Len(Append(log, e))) =
           Append(SubSeq(log, n + 1, Len(log)), e)
  <1> DEFINE all  == Append(log, e)
             part == SubSeq(log, n + 1, Len(log))
             new  == SubSeq(all, n + 1, Len(all))
             L    == Len(log)
  <1>1. /\ all \in Seq(T) /\ Len(all) = L + 1 /\ L \in Nat
        /\ \A i \in 1..L : all[i] = log[i]
        /\ all[L + 1] = e
    BY AppendProperties
  <1>2. part \in Seq(T) /\ Len(part) = L - n /\ \A i \in 1..(L - n) : part[i] = log[n + i]
    BY Cut
  <1> HIDE DEF all, part
  <1>3. n \in 0..Len(all)
    BY <1>1
  <1>4. new \in Seq(T) /\ Len(new) = L + 1 - n
        /\ \A i \in 1..(L + 1 - n) : new[i] = all[n + i]
    <2>1. new \in Seq(T) /\ Len(new) = Len(all) - n
          /\ \A i \in 1..(Len(all) - n) : new[i] = all[n + i]
      BY <1>1, <1>3, Cut
    <2> QED
      BY <1>1, <2>1
  <1> HIDE DEF new
  <1>5. /\ Append(part, e) \in Seq(T) /\ Len(Append(part, e)) = L - n + 1
        /\ \A i \in 1..(L - n) : Append(part, e)[i] = part[i]
        /\ Append(part, e)[L - n + 1] = e
    BY <1>2, AppendProperties
  <1> HIDE DEF L
  <1>6. \A i \in 1..(L + 1 - n) : new[i] = Append(part, e)[i]
    <2> SUFFICES ASSUME NEW i \in 1..(L + 1 - n) PROVE new[i] = Append(part, e)[i]
      OBVIOUS
    <2>1. n \in Nat /\ L \in Nat /\ n <= L
      BY <1>1 DEF L
    <2>2. CASE i = L - n + 1
      <3>1. n + i = L + 1
        BY <2>1, <2>2
      <3> QED
        BY <1>1, <1>4, <1>5, <2>2, <3>1
    <2>3. CASE i \in 1..(L - n)
      <3>1. n + i \in 1..L
        BY <2>1, <2>3
      <3> QED
        BY <1>1, <1>2, <1>4, <1>5, <2>3, <3>1
    <2>4. i = L - n + 1 \/ i \in 1..(L - n)
      BY <2>1
    <2> QED
      BY <2>2, <2>3, <2>4
  <1>7. Len(new) = Len(Append(part, e)) /\ Len(new) = L + 1 - n
    BY <1>1, <1>4, <1>5
  <1>8. new = Append(part, e)
    BY <1>4, <1>5, <1>6, <1>7, SeqEqual
  <1> QED
    BY <1>8 DEF new, all, part

(* What is known of one member. *)
LEMMA OwnFacts ==
  ASSUME SpamKept, NEW k \in Members
  PROVE  /\ sent[k] \in Seq(Event) /\ forgotten[k] \in 0..Len(sent[k])
         /\ Own(k) \in Seq(Event) /\ Log(k) \in Seq(Event)
         /\ Len(Own(k)) = Len(sent[k]) - forgotten[k]
         /\ Len(Log(k)) <= HistoryPerMember
         /\ Ordered(Times(Own(k)))
         /\ \A i \in 1..Len(Own(k)) : Own(k)[i].at <= now
  <1>1. /\ sent[k] \in Seq(Event) /\ forgotten[k] \in 0..Len(sent[k])
        /\ Ordered(Times(sent[k])) /\ \A i \in 1..Len(sent[k]) : sent[k][i].at <= now
    BY DEF SpamKept, SpamTypeOK
  <1>2. /\ Own(k) \in Seq(Event) /\ Len(Own(k)) = Len(sent[k]) - forgotten[k]
        /\ \A i \in 1..(Len(sent[k]) - forgotten[k]) : Own(k)[i] = sent[k][forgotten[k] + i]
    BY <1>1, Cut DEF Own
  <1>3. Log(k) \in Seq(Event) /\ Len(Log(k)) <= HistoryPerMember
    <2>1. k \in Tracked => activity[k] \in Seq(Event)
                           /\ Len(activity[k]) \in 1..HistoryPerMember
      BY DEF SpamKept, SpamTypeOK
    <2>2. HistoryPerMember \in Nat
      BY SpamAssumption
    <2> QED
      BY <2>1, <2>2 DEF Log
  <1>4. \A i \in 1..Len(Own(k)) : forgotten[k] + i \in 1..Len(sent[k])
    BY <1>1, <1>2
  <1>5. \A i \in 1..Len(Own(k)) : Own(k)[i].at <= now
    BY <1>1, <1>2, <1>4
  <1>6. Ordered(Times(Own(k)))
    <2> SUFFICES ASSUME NEW i \in 1..Len(Own(k)), NEW j \in 1..Len(Own(k)), i <= j
                 PROVE  Times(Own(k))[i] <= Times(Own(k))[j]
      BY <1>2, TimesOf DEF Ordered
    <2>1. /\ Times(Own(k))[i] = Own(k)[i].at /\ Times(Own(k))[j] = Own(k)[j].at
      BY <1>2, TimesOf
    <2>2. /\ Own(k)[i] = sent[k][forgotten[k] + i] /\ Own(k)[j] = sent[k][forgotten[k] + j]
          /\ forgotten[k] + i <= forgotten[k] + j
      BY <1>1, <1>2
    <2>3. /\ Times(sent[k])[forgotten[k] + i] = sent[k][forgotten[k] + i].at
          /\ Times(sent[k])[forgotten[k] + j] = sent[k][forgotten[k] + j].at
          /\ Len(Times(sent[k])) = Len(sent[k])
      BY <1>1, <1>4, TimesOf
    <2>4. Times(sent[k])[forgotten[k] + i] <= Times(sent[k])[forgotten[k] + j]
      BY <1>1, <1>4, <2>2, <2>3 DEF Ordered
    <2> QED
      BY <2>1, <2>2, <2>3, <2>4
  <1> QED
    BY <1>1, <1>2, <1>3, <1>5, <1>6

(* The list of a member once a message is in, and his history with it.     *)
LEMMA RememberedFacts ==
  ASSUME SpamKept, NEW k \in Members, NEW text \in Texts
  PROVE  LET e   == [at |-> now, what |-> text]
             log == Remembered(k, text)
             own == Append(Own(k), e)
         IN  /\ e \in Event /\ log \in Seq(Event) /\ own \in Seq(Event)
             /\ Len(log) \in 1..HistoryPerMember /\ Suffix(log, own)
             /\ Ordered(Times(own))
             /\ Kept(Times(log), Times(own), now - Span, HistoryPerMember)
             /\ \A i \in 1..Len(log) : log[i].at >= now - Span
  <1> DEFINE e   == [at |-> now, what |-> text]
             log == Remembered(k, text)
             old == Log(k)
             own == Append(Own(k), e)
             t   == now - Span
             n   == Outdated(Times(old), t)
  <1>1. /\ now \in Nat /\ t \in Int /\ t <= now /\ HistoryPerMember \in Nat \ {0}
        /\ e \in Event /\ e.at = now
    BY SpanIsLong, SpamAssumption, MonotonicAssumption DEF SpamKept, Event
  <1>2. /\ old \in Seq(Event) /\ Own(k) \in Seq(Event) /\ Suffix(old, Own(k))
        /\ Ordered(Times(Own(k))) /\ \A i \in 1..Len(Own(k)) : Own(k)[i].at <= now
        /\ Kept(Times(old), Times(Own(k)), t, HistoryPerMember)
    BY OwnFacts DEF SpamKept
  <1>3. log = Moved(old, n, e, HistoryPerMember)
    BY DEF Remembered, Moved, Since, Log, Span
  <1>4. /\ Times(old) \in Seq(Nat) /\ Len(Times(old)) = Len(old)
        /\ Times(Own(k)) \in Seq(Nat) /\ Len(Times(Own(k))) = Len(Own(k))
        /\ \A i \in 1..Len(Own(k)) : Times(Own(k))[i] <= now
    BY <1>2, TimesOf
  <1>5. n \in 0..Len(old)
    BY <1>1, <1>4, OutdatedFront
  <1> HIDE DEF e, log, t, n, old
  <1>6. /\ log \in Seq(Event) /\ Suffix(log, own)
        /\ Len(log) = IF Len(old) - n + 1 <= HistoryPerMember
                      THEN Len(old) - n + 1 ELSE HistoryPerMember
    <2> DEFINE new == Moved(old, n, e, HistoryPerMember)
    <2>1. /\ new \in Seq(Event) /\ Suffix(new, Append(Own(k), e))
          /\ Len(new) = IF Len(old) - n + 1 <= HistoryPerMember
                        THEN Len(old) - n + 1 ELSE HistoryPerMember
      BY <1>1, <1>2, <1>5, MovedIsSuffix
    <2> QED
      BY <1>3, <2>1
  <1>7. own \in Seq(Event) /\ Times(own) = Append(Times(Own(k)), now)
    BY <1>1, <1>2, TimesAppend
  <1> HIDE DEF own
  <1>8. Times(own) \in Seq(Nat) /\ Ordered(Times(own))
    BY <1>1, <1>2, <1>4, <1>7, OrderedAppend
  <1>9. /\ Times(log) \in Seq(Nat) /\ Len(Times(log)) = Len(log)
        /\ \A i \in 1..Len(log) : Times(log)[i] = log[i].at
    BY <1>6, TimesOf
  <1>10. Suffix(Times(log), Append(Times(Own(k)), now))
    BY <1>6, <1>7, TimesSuffix
  <1>11. /\ Kept(Times(log), Append(Times(Own(k)), now), t, HistoryPerMember)
         /\ Len(Times(log)) >= 1
         /\ \A i \in 1..Len(Times(log)) : Times(log)[i] >= t
    <2>1. Len(Times(log)) = IF Len(Times(old)) - n + 1 <= HistoryPerMember
                            THEN Len(Times(old)) - n + 1 ELSE HistoryPerMember
      BY <1>4, <1>6, <1>9
    <2>2. Ordered(Append(Times(Own(k)), now))
      BY <1>7, <1>8
    <2> QED
      BY <1>1, <1>2, <1>4, <1>9, <1>10, <2>1, <2>2, PrunedKeeps DEF n
  <1>12. Len(log) \in 1..HistoryPerMember
    BY <1>1, <1>6, <1>9, <1>11 DEF Kept
  <1>13. \A i \in 1..Len(log) : log[i].at >= t
    BY <1>9, <1>11
  <1> QED
    BY <1>1, <1>6, <1>7, <1>8, <1>11, <1>12, <1>13 DEF e, log, own, t

(* What holds of one member in SpamKept. *)
MemberKept(k) ==
  /\ Ordered(Times(sent[k]))
  /\ \A i \in 1..Len(sent[k]) : sent[k][i].at <= now
  /\ k \notin Tracked => forgotten[k] = Len(sent[k])
  /\ Suffix(Log(k), Own(k))
  /\ Kept(Times(Log(k)), Times(Own(k)), now - Span, HistoryPerMember)

(* A member who is dropped starts anew. *)
LEMMA DroppedAnew ==
  ASSUME NEW log \in Seq(Event), NEW t
  PROVE  /\ SubSeq(log, Len(log) + 1, Len(log)) = <<>>
         /\ Suffix(<<>>, <<>>)
         /\ Kept(Times(<<>>), Times(<<>>), t, HistoryPerMember)
  <1>1. Len(log) \in Nat /\ HistoryPerMember \in Nat
    BY SpamAssumption
  <1>2. SubSeq(log, Len(log) + 1, Len(log)) = <<>>
    BY <1>1, SubSeqEmpty
  <1>3. Suffix(<<>>, <<>>) /\ <<>> \in Seq(Event) /\ Len(<<>>) = 0
    BY DEF Suffix
  <1>4. Suffix(Times(<<>>), Times(<<>>)) /\ Len(Times(<<>>)) = 0
    BY <1>3, TimesSuffix, TimesOf
  <1> QED
    BY <1>1, <1>2, <1>3, <1>4 DEF Kept

(* A place in the table is there for a new member.                         *)
LEMMA EvictedFits ==
  ASSUME SpamKept, NEW k \in Members, NEW S \in Evicted(k)
  PROVE  /\ S \subseteq Tracked /\ k \notin S
         /\ IsFiniteSet((Tracked \ S) \cup {k})
         /\ Cardinality((Tracked \ S) \cup {k}) <= MaxTracked
  <1>1. /\ IsFiniteSet(Tracked) /\ Cardinality(Tracked) <= MaxTracked
        /\ Cardinality(Tracked) \in Nat /\ MaxTracked \in Nat /\ MaxTracked >= 2
    BY FS_CardinalityType, SpamAssumption DEF SpamKept, SpamTypeOK
  <1>2. CASE k \in Tracked
    <2>1. S = {}
      BY <1>2 DEF Evicted
    <2>2. (Tracked \ S) \cup {k} = Tracked
      BY <1>2, <2>1
    <2> QED
      BY <1>1, <2>1, <2>2
  <1>3. CASE k \notin Tracked /\ Cardinality(Tracked) < MaxTracked
    <2>1. S = {}
      BY <1>3 DEF Evicted
    <2>2. (Tracked \ S) \cup {k} = Tracked \cup {k}
      BY <2>1
    <2>3. /\ IsFiniteSet(Tracked \cup {k})
          /\ Cardinality(Tracked \cup {k}) = Cardinality(Tracked) + 1
      BY <1>1, <1>3, FS_AddElement
    <2> QED
      BY <1>1, <1>3, <2>1, <2>2, <2>3
  <1>4. CASE k \notin Tracked /\ Cardinality(Tracked) = MaxTracked
    <2>1. S \subseteq Tracked /\ Cardinality(S) = Cardinality(Tracked) \div 2
      BY <1>1, <1>4 DEF Evicted, IdleHalves
    <2>2. Cardinality(S) >= 1
      BY <1>1, <1>4, <2>1
    <2>3. /\ IsFiniteSet(Tracked \ S)
          /\ Cardinality(Tracked \ S) = Cardinality(Tracked) - Cardinality(S)
      <3>1. S \cap Tracked = S /\ Tracked \cap S = S
        BY <2>1
      <3>2. /\ IsFiniteSet(Tracked \ S)
            /\ Cardinality(Tracked \ S)
                 = Cardinality(Tracked) - Cardinality(Tracked \cap S)
        BY <1>1, FS_Difference
      <3> QED
        BY <3>1, <3>2
    <2>4. /\ IsFiniteSet((Tracked \ S) \cup {k})
          /\ Cardinality((Tracked \ S) \cup {k}) = Cardinality(Tracked \ S) + 1
      BY <1>4, <2>3, FS_AddElement
    <2>5. Cardinality(S) \in Nat
      BY <1>1, <2>1, FS_Subset, FS_CardinalityType
    <2> QED
      BY <1>1, <1>4, <2>1, <2>2, <2>3, <2>4, <2>5
  <1> QED
    BY <1>1, <1>2, <1>3, <1>4

LEMMA InspectKeeps ==
  ASSUME SpamKept, NEW k \in Members, NEW text \in Texts, NEW many \in BOOLEAN,
         Inspect(k, text, many)
  PROVE  /\ SpamKept'
         /\ Own(k)' = Append(Own(k), [at |-> now, what |-> text])
  <1> DEFINE e   == [at |-> now, what |-> text]
             log == Remembered(k, text)
  <1>1. PICK S \in Evicted(k) :
          /\ activity' = [m \in (Tracked \ S) \cup {k} |->
                            IF m = k THEN log ELSE activity[m]]
          /\ forgotten' = [m \in Members |->
                             IF m \in S THEN Len(sent[m]) ELSE forgotten[m]]
    BY DEF Inspect
  <1>2. /\ verdict' = [of |-> k, why |-> Judge(log, text, many)]
        /\ sent' = [sent EXCEPT ![k] = Append(@, e)]
        /\ now' = now
    BY DEF Inspect, Happen
  <1>3. /\ S \subseteq Tracked /\ k \notin S /\ IsFiniteSet((Tracked \ S) \cup {k})
        /\ Cardinality((Tracked \ S) \cup {k}) <= MaxTracked
    BY EvictedFits
  <1>4. /\ e \in Event /\ log \in Seq(Event) /\ Append(Own(k), e) \in Seq(Event)
        /\ Len(log) \in 1..HistoryPerMember /\ Suffix(log, Append(Own(k), e))
        /\ Kept(Times(log), Times(Append(Own(k), e)), now - Span, HistoryPerMember)
    BY RememberedFacts
  <1>5. /\ Tracked \subseteq Members /\ sent \in [Members -> Seq(Event)]
        /\ \A m \in Members : forgotten[m] \in 0..Len(sent[m])
        /\ \A m \in Tracked : activity[m] \in Seq(Event)
                              /\ Len(activity[m]) \in 1..HistoryPerMember
        /\ \A m \in Members : MemberKept(m)
        /\ now \in 0..MaxTime
    BY DEF SpamKept, SpamTypeOK, MemberKept
  <1> HIDE DEF log, e
  <1>6. Tracked' = (Tracked \ S) \cup {k}
    BY <1>1 DEF Tracked
  <1>7. \A m \in Tracked' : activity'[m] = IF m = k THEN log ELSE activity[m]
    BY <1>1, <1>6
  <1>8. /\ sent' \in [Members -> Seq(Event)] /\ sent'[k] = Append(sent[k], e)
        /\ \A m \in Members : m # k => sent'[m] = sent[m]
    BY <1>2, <1>4, <1>5
  <1>9. \A m \in Members : forgotten'[m] = IF m \in S THEN Len(sent[m]) ELSE forgotten[m]
    BY <1>1
  <1>10. /\ Len(sent[k]) \in Nat /\ Len(sent'[k]) = Len(sent[k]) + 1
    BY <1>4, <1>5, <1>8, AppendProperties
  <1>11. SpamTypeOK'
    <2>1. Tracked' \subseteq Members /\ Cardinality(Tracked') <= MaxTracked
      BY <1>3, <1>5, <1>6
    <2>2. \A m \in Tracked' : activity'[m] \in Seq(Event)
                              /\ Len(activity'[m]) \in 1..HistoryPerMember
      BY <1>4, <1>5, <1>6, <1>7
    <2>3. Judge(log, text, many) \in Verdicts
      BY DEF Judge, Verdicts
    <2>4. verdict' \in [of : Members, why : Verdicts]
      BY <1>2, <2>3
    <2>5. \A m \in Members : forgotten'[m] \in 0..Len(sent'[m])
      <3> SUFFICES ASSUME NEW m \in Members PROVE forgotten'[m] \in 0..Len(sent'[m])
        OBVIOUS
      <3>1. Len(sent[m]) \in Nat /\ forgotten[m] \in 0..Len(sent[m])
        BY <1>5
      <3>2. CASE m = k
        BY <1>3, <1>9, <1>10, <3>1, <3>2
      <3>3. CASE m # k
        BY <1>8, <1>9, <3>1, <3>3
      <3> QED
        BY <3>2, <3>3
    <2> QED
      BY <1>8, <2>1, <2>2, <2>4, <2>5 DEF SpamTypeOK
  <1>12. Own(k)' = Append(Own(k), e)
    <2>1. Own(k)' = SubSeq(Append(sent[k], e), forgotten[k] + 1, Len(Append(sent[k], e)))
      BY <1>3, <1>8, <1>9 DEF Own
    <2>2. SubSeq(Append(sent[k], e), forgotten[k] + 1, Len(Append(sent[k], e))) =
            Append(SubSeq(sent[k], forgotten[k] + 1, Len(sent[k])), e)
      <3>1. sent[k] \in Seq(Event) /\ forgotten[k] \in 0..Len(sent[k]) /\ e \in Event
        BY <1>4, <1>5
      <3> QED
        BY <3>1, CutAppend
    <2>3. Own(k) = SubSeq(sent[k], forgotten[k] + 1, Len(sent[k]))
      BY DEF Own
    <2> QED
      BY <2>1, <2>2, <2>3
  <1>13. MemberKept(k)'
    <2>1. Log(k)' = log
      BY <1>6, <1>7 DEF Log
    <2>2. \A i \in 1..Len(sent'[k]) : sent'[k][i].at <= now
      <3>1. /\ \A i \in 1..Len(sent[k]) : sent'[k][i] = sent[k][i] /\ sent[k][i].at <= now
            /\ sent'[k][Len(sent[k]) + 1] = e
        BY <1>4, <1>5, <1>8, AppendProperties DEF MemberKept
      <3>2. e.at <= now
        BY <1>5, MonotonicAssumption DEF e
      <3> QED
        BY <1>10, <3>1, <3>2
    <2>3. Ordered(Times(sent'[k]))
      <3>1. Times(sent'[k]) = Append(Times(sent[k]), now)
        BY <1>4, <1>5, <1>8, TimesAppend DEF e
      <3>2. /\ Times(sent[k]) \in Seq(Nat) /\ Len(Times(sent[k])) = Len(sent[k])
            /\ \A i \in 1..Len(sent[k]) : Times(sent[k])[i] <= now
        BY <1>5, TimesOf DEF MemberKept
      <3>3. now \in Nat /\ Ordered(Times(sent[k]))
        BY <1>5, MonotonicAssumption DEF MemberKept
      <3> QED
        BY <3>1, <3>2, <3>3, OrderedAppend
    <2>4. k \in Tracked'
      BY <1>6
    <2> QED
      BY <1>2, <1>4, <1>12, <2>1, <2>2, <2>3, <2>4 DEF MemberKept
  <1>14. ASSUME NEW m \in Members, m # k PROVE MemberKept(m)'
    <2>1. sent'[m] = sent[m] /\ MemberKept(m) /\ sent[m] \in Seq(Event)
      BY <1>5, <1>8, <1>14
    <2>2. CASE m \in S
      <3>1. m \notin Tracked' /\ forgotten'[m] = Len(sent[m])
        BY <1>6, <1>9, <1>14, <2>2
      <3>2. Log(m)' = <<>> /\ Own(m)' = SubSeq(sent[m], Len(sent[m]) + 1, Len(sent[m]))
        BY <2>1, <3>1 DEF Log, Own
      <3>3. /\ Own(m)' = <<>> /\ Suffix(<<>>, <<>>)
            /\ Kept(Times(<<>>), Times(<<>>), now - Span, HistoryPerMember)
        BY <2>1, <3>2, DroppedAnew
      <3> QED
        BY <1>2, <2>1, <3>1, <3>2, <3>3 DEF MemberKept
    <2>3. CASE m \notin S
      <3>1. (m \in Tracked' <=> m \in Tracked) /\ forgotten'[m] = forgotten[m]
        BY <1>6, <1>9, <1>14, <2>3
      <3>2. Log(m)' = Log(m) /\ Own(m)' = Own(m)
        BY <1>7, <1>14, <2>1, <3>1 DEF Log, Own
      <3> QED
        BY <1>2, <2>1, <3>1, <3>2 DEF MemberKept
    <2> QED
      BY <2>2, <2>3
  <1>15. \A m \in Members : MemberKept(m)'
    BY <1>13, <1>14
  <1> QED
    BY <1>2, <1>3, <1>5, <1>6, <1>11, <1>12, <1>15 DEF SpamKept, MemberKept, e

-----------------------------------------------------------------------------
(* Verdicts. *)

(* As far as a history can reach the limit, floods are judged truly; where *)
(* it cannot, there are none.                                              *)
Judged ==
  /\ RepeatJudged
  /\ IF Larger(2, MessageLimit) <= HistoryPerMember
     THEN FloodJudged
     ELSE verdict.why # "flood"

LEMMA LimitType == Larger(2, MessageLimit) \in Nat /\ Larger(2, MessageLimit) >= 2
  BY SpamAssumption DEF Larger

LEMMA FloodingIsTrue ==
  ASSUME SpamKept, NEW k \in Members, NEW text \in Texts
  PROVE  LET log == Remembered(k, text)
             own == Append(Own(k), [at |-> now, what |-> text])
         IN  IF Larger(2, MessageLimit) <= HistoryPerMember
             THEN Flooding(log) <=>
                    Cardinality(Recent(own, now - FloodWindow)) >= Larger(2, MessageLimit)
             ELSE ~Flooding(log)
  <1> DEFINE log  == Remembered(k, text)
             own  == Append(Own(k), [at |-> now, what |-> text])
             from == now - FloodWindow
             n    == Larger(2, MessageLimit)
  <1>1. /\ log \in Seq(Event) /\ own \in Seq(Event) /\ Len(log) \in 1..HistoryPerMember
        /\ Ordered(Times(own)) /\ Suffix(log, own)
        /\ Kept(Times(log), Times(own), now - Span, HistoryPerMember)
    BY RememberedFacts
  <1>2. /\ now \in Nat /\ from \in Int /\ now - Span \in Int /\ now - Span <= from
        /\ HistoryPerMember \in Nat /\ n \in Nat /\ n >= 2
    BY SpanIsLong, SpamAssumption, MonotonicAssumption, LimitType DEF SpamKept
  <1>3. Flooding(log) <=> Cardinality(Within(Times(log), from)) >= n
    BY DEF Flooding, Recent
  <1>4. Recent(own, from) = Within(Times(own), from)
    BY DEF Recent
  <1> HIDE DEF log, own, from, n
  <1>5. /\ Times(log) \in Seq(Nat) /\ Times(own) \in Seq(Nat)
        /\ Len(Times(log)) = Len(log)
    BY <1>1, TimesOf
  <1>6. CASE n <= HistoryPerMember
    <2>1. n \in 1..HistoryPerMember
      BY <1>2, <1>6
    <2>2. Cardinality(Within(Times(log), from)) >= n <=>
            Cardinality(Within(Times(own), from)) >= n
      BY <1>1, <1>2, <1>5, <2>1, KeptCounts
    <2> QED
      BY <1>3, <1>4, <1>6, <2>2 DEF log, own, from, n
  <1>7. CASE ~(n <= HistoryPerMember)
    <2>1. Within(Times(log), from) \subseteq 1..Len(log)
      BY <1>5 DEF Within
    <2>2. IsFiniteSet(1..Len(log)) /\ Cardinality(1..Len(log)) = Len(log)
      <3>1. Len(log) \in Int /\ Len(log) >= 1
        BY <1>1
      <3>2. /\ IsFiniteSet(1..Len(log))
            /\ Cardinality(1..Len(log)) = IF 1 > Len(log) THEN 0 ELSE Len(log) - 1 + 1
        BY <3>1, FS_Interval
      <3> QED
        BY <3>1, <3>2
    <2>3. /\ Cardinality(Within(Times(log), from)) <= Len(log)
          /\ Cardinality(Within(Times(log), from)) \in Nat
      BY <2>1, <2>2, FS_Subset, FS_CardinalityType
    <2>4. ~(Cardinality(Within(Times(log), from)) >= n)
      BY <1>1, <1>2, <1>7, <2>3
    <2> QED
      BY <1>3, <1>7, <2>4 DEF log, n
  <1> QED
    BY <1>6, <1>7

(* The list is the latest part of the longer window of the history.        *)
LEMMA RememberedIsLatest ==
  ASSUME SpamKept, NEW k \in Members, NEW text \in Texts
  PROVE  Remembered(k, text) =
           Latest(Since(Append(Own(k), [at |-> now, what |-> text]), now - Span),
                  HistoryPerMember)
  <1> DEFINE log  == Remembered(k, text)
             own  == Append(Own(k), [at |-> now, what |-> text])
             t    == now - Span
             p    == Outdated(Times(own), t)
             span == Since(own, t)
             M    == Len(own)
             K    == Len(log)
             H    == HistoryPerMember
  <1>1. /\ log \in Seq(Event) /\ own \in Seq(Event) /\ K \in 1..H
        /\ Ordered(Times(own)) /\ Suffix(log, own)
        /\ Kept(Times(log), Times(own), t, H)
        /\ \A i \in 1..K : log[i].at >= t
    BY RememberedFacts
  <1>2. t \in Int /\ H \in Nat \ {0}
    BY SpanIsLong, SpamAssumption, MonotonicAssumption DEF SpamKept
  <1>3. span = SubSeq(own, p + 1, M)
    BY DEF Since
  <1> HIDE DEF log, own, t, p, span
  <1>4. /\ Times(log) \in Seq(Nat) /\ Len(Times(log)) = K
        /\ Times(own) \in Seq(Nat) /\ Len(Times(own)) = M
        /\ \A i \in 1..M : Times(own)[i] = own[i].at /\ own[i].at \in Nat
    BY <1>1, TimesOf
  <1>5. /\ p \in 0..M /\ \A i \in 1..p : Times(own)[i] < t
        /\ p < M => Times(own)[p + 1] >= t
    BY <1>2, <1>4, OutdatedFront DEF p
  <1>6. /\ span \in Seq(Event) /\ Len(span) = M - p /\ Suffix(span, own)
    BY <1>1, <1>3, <1>5, Cut, CutIsSuffix
  <1>7. M \in Nat /\ K \in Nat /\ K >= 1 /\ K <= H /\ K <= M /\ p \in Nat /\ p <= M
    BY <1>1, <1>2, <1>5 DEF Suffix
  <1>8. log[1] = own[M - K + 1] /\ M - K + 1 \in 1..M
    BY <1>1, <1>7 DEF Suffix
  <1> HIDE DEF M, K, H
  (* Nothing that was kept is outdated. *)
  <1>9. p <= M - K
    <2> SUFFICES ASSUME p > M - K PROVE FALSE
      BY <1>7
    <2>1. M - K + 1 \in 1..p
      BY <1>7
    <2>2. Times(own)[M - K + 1] < t
      BY <1>5, <2>1
    <2>3. Times(own)[M - K + 1] >= t
      <3>1. 1 \in 1..K
        BY <1>7
      <3>2. log[1].at >= t
        BY <1>1, <3>1
      <3>3. Times(own)[M - K + 1] = own[M - K + 1].at
        BY <1>4, <1>8
      <3> QED
        BY <1>8, <3>2, <3>3
    <2>4. Times(own)[M - K + 1] \in Nat
      BY <1>4, <1>8
    <2> QED
      BY <1>2, <2>2, <2>3, <2>4
  (* What was not kept is outdated or beyond the limit. *)
  <1>10. K = H \/ p = M - K
    <2> SUFFICES ASSUME K # H, p # M - K PROVE FALSE
      OBVIOUS
    <2>1. p < M - K /\ K < M
      BY <1>7, <1>9
    <2>2. Times(own)[M - K] < t
      BY <1>1, <1>4, <2>1 DEF Kept
    <2>3. p + 1 \in 1..M /\ M - K \in 1..M /\ p + 1 <= M - K /\ p < M
      BY <1>7, <2>1
    <2>4. Times(own)[p + 1] >= t
      BY <1>5, <2>3
    <2>5. Times(own)[p + 1] <= Times(own)[M - K]
      BY <1>1, <1>4, <2>3 DEF Ordered
    <2>6. Times(own)[p + 1] \in Nat /\ Times(own)[M - K] \in Nat
      BY <1>4, <2>3
    <2> QED
      BY <1>2, <2>2, <2>4, <2>5, <2>6
  <1>11. /\ Latest(span, H) \in Seq(Event)
         /\ Len(Latest(span, H)) = IF M - p <= H THEN M - p ELSE H
         /\ Suffix(Latest(span, H), span)
    BY <1>2, <1>6, LatestIsSuffix
  <1>12. Len(Latest(span, H)) = K
    BY <1>7, <1>9, <1>10, <1>11
  <1>13. Suffix(Latest(span, H), own)
    <2> DEFINE last == Latest(span, H)
    <2>1. /\ last \in Seq(Event) /\ Len(last) = K /\ Suffix(last, span)
          /\ Len(span) = M - p
      BY <1>6, <1>11, <1>12
    <2> HIDE DEF last
    <2> SUFFICES ASSUME NEW i \in 1..K PROVE last[i] = own[M - K + i]
      BY <1>7, <2>1 DEF Suffix, M, last
    <2>2. last[i] = span[M - p - K + i]
      BY <2>1 DEF Suffix
    <2>3. M - p - K + i \in 1..(M - p)
      BY <1>7, <1>9
    <2>4. span[M - p - K + i] = own[M - (M - p) + (M - p - K + i)]
      BY <1>6, <2>3 DEF Suffix, M
    <2>5. M - (M - p) + (M - p - K + i) = M - K + i
      BY <1>7
    <2> QED
      BY <2>2, <2>4, <2>5
  <1>14. log = Latest(span, H)
    <2>1. Len(log) = Len(Latest(span, H))
      BY <1>12 DEF K
    <2> QED
      BY <1>1, <1>11, <1>13, <2>1, SameSuffix
  <1> QED
    BY <1>14 DEF log, own, span, t, H

(* What inspect says is true of the history it leaves. *)
LEMMA InspectJudges ==
  ASSUME SpamKept, NEW k \in Members, NEW text \in Texts, NEW many \in BOOLEAN,
         Inspect(k, text, many)
  PROVE  Judged'
  <1> DEFINE e   == [at |-> now, what |-> text]
             log == Remembered(k, text)
             own == Append(Own(k), e)
  <1>1. verdict' = [of |-> k, why |-> Judge(log, text, many)]
    BY DEF Inspect
  <1>2. Mine' = own
    BY <1>1, InspectKeeps DEF Mine, Own
  <1>3. own[Len(own)] = e /\ own # <<>>
    <2>1. Own(k) \in Seq(Event) /\ e \in Event
      BY OwnFacts, RememberedFacts
    <2>2. Len(own) = Len(Own(k)) + 1 /\ own[Len(Own(k)) + 1] = e /\ own # <<>>
      BY <2>1, AppendProperties
    <2> QED
      BY <2>2
  <1>4. Final' = e
    BY <1>2, <1>3 DEF Final
  <1>5. e.at = now /\ e.what = text
    OBVIOUS
  <1>6. IF Larger(2, MessageLimit) <= HistoryPerMember
        THEN Flooding(log) <=>
               Cardinality(Recent(own, now - FloodWindow)) >= Larger(2, MessageLimit)
        ELSE ~Flooding(log)
    BY FloodingIsTrue
  <1>7. log = Latest(Since(own, now - FloodWindow * WindowFactor), HistoryPerMember)
    BY RememberedIsLatest DEF Span
  <1> HIDE DEF e, log, own
  <1>8. /\ verdict'.why = "flood" <=> ~many /\ Flooding(log)
        /\ verdict'.why \in {"none", "repeat"} =>
             (verdict'.why = "repeat" <=> Repeating(log, text))
        /\ verdict'.why # "mentions" => ~many
    BY <1>1 DEF Judge
  <1>9. IF Larger(2, MessageLimit) <= HistoryPerMember
        THEN FloodJudged' ELSE verdict'.why # "flood"
    BY <1>2, <1>4, <1>5, <1>6, <1>8 DEF FloodJudged
  <1>10. RepeatJudged'
    BY <1>2, <1>4, <1>5, <1>7, <1>8 DEF RepeatJudged, Repeating
  <1> QED
    BY <1>9, <1>10 DEF Judged

LEMMA DropKeeps ==
  ASSUME SpamKept, Judged, NEW S, S \subseteq Tracked, Drop(S), now' = now
  PROVE  SpamKept' /\ Judged'
  <1>1. /\ activity' = [m \in Tracked \ S |-> activity[m]]
        /\ \A m \in Members : forgotten'[m] = IF m \in S THEN Len(sent[m]) ELSE forgotten[m]
        /\ verdict' = verdict /\ sent' = sent
    BY DEF Drop
  <1>2. Tracked' = Tracked \ S /\ \A m \in Tracked' : activity'[m] = activity[m]
    BY <1>1 DEF Tracked
  <1>3. /\ Tracked \subseteq Members /\ sent \in [Members -> Seq(Event)]
        /\ verdict \in [of : Members, why : Verdicts]
        /\ \A m \in Members : forgotten[m] \in 0..Len(sent[m]) /\ Len(sent[m]) \in Nat
        /\ \A m \in Members : MemberKept(m)
        /\ IsFiniteSet(Tracked) /\ Cardinality(Tracked) <= MaxTracked
        /\ MaxTracked \in Nat /\ Cardinality(Tracked) \in Nat
    BY FS_CardinalityType, SpamAssumption DEF SpamKept, SpamTypeOK, MemberKept
  <1>4. /\ IsFiniteSet(Tracked') /\ Cardinality(Tracked') \in Nat
        /\ Cardinality(Tracked') <= Cardinality(Tracked)
    BY <1>2, <1>3, FS_Subset, FS_CardinalityType
  <1>5. SpamTypeOK'
    <2>1. \A m \in Members : forgotten'[m] \in 0..Len(sent'[m])
      BY <1>1, <1>3
    <2>2. \A m \in Tracked' : activity'[m] \in Seq(Event)
                              /\ Len(activity'[m]) \in 1..HistoryPerMember
      BY <1>2 DEF SpamKept, SpamTypeOK
    <2> QED
      BY <1>1, <1>2, <1>3, <1>4, <2>1, <2>2 DEF SpamTypeOK
  <1>6. ASSUME NEW m \in Members PROVE MemberKept(m)'
    <2>1. sent'[m] = sent[m] /\ MemberKept(m) /\ sent[m] \in Seq(Event)
      BY <1>1, <1>3
    <2>2. CASE m \in S
      <3>1. m \notin Tracked' /\ forgotten'[m] = Len(sent[m])
        BY <1>1, <1>2, <2>2
      <3>2. Log(m)' = <<>> /\ Own(m)' = SubSeq(sent[m], Len(sent[m]) + 1, Len(sent[m]))
        BY <2>1, <3>1 DEF Log, Own
      <3>3. /\ Own(m)' = <<>> /\ Suffix(<<>>, <<>>)
            /\ Kept(Times(<<>>), Times(<<>>), now - Span, HistoryPerMember)
        BY <2>1, <3>2, DroppedAnew
      <3> QED
        BY <2>1, <3>1, <3>2, <3>3 DEF MemberKept
    <2>3. CASE m \notin S
      <3>1. (m \in Tracked' <=> m \in Tracked) /\ forgotten'[m] = forgotten[m]
        BY <1>1, <1>2, <2>3
      <3>2. Log(m)' = Log(m) /\ Own(m)' = Own(m)
        BY <1>2, <2>1, <3>1 DEF Log, Own
      <3> QED
        BY <2>1, <3>1, <3>2 DEF MemberKept
    <2> QED
      BY <2>2, <2>3
  <1>7. Judged'
    <2> DEFINE k == verdict.of
    <2>1. k \in Members /\ verdict' = verdict
      BY <1>1, <1>3
    <2>2. CASE k \in S
      <3>1. Mine' = SubSeq(sent[k], Len(sent[k]) + 1, Len(sent[k]))
        BY <1>1, <2>1, <2>2 DEF Mine
      <3>2. sent[k] \in Seq(Event)
        BY <1>3, <2>1
      <3>3. Mine' = <<>>
        BY <3>1, <3>2, DroppedAnew
      <3> QED
        BY <2>1, <3>3 DEF Judged, RepeatJudged, FloodJudged
    <2>3. CASE k \notin S
      <3>1. Mine' = Mine
        BY <1>1, <2>1, <2>3 DEF Mine
      <3> QED
        BY <2>1, <3>1 DEF Judged, RepeatJudged, FloodJudged, Final
    <2> QED
      BY <2>2, <2>3
  <1>8. \A m \in Members : MemberKept(m)'
    BY <1>6
  <1> QED
    BY <1>4, <1>5, <1>7, <1>8 DEF SpamKept, MemberKept

LEMMA ElapseKeepsSpam ==
  ASSUME SpamKept, Judged, Elapse, UNCHANGED spamVars
  PROVE  SpamKept' /\ Judged'
  <1>1. /\ now \in Nat /\ now' = now + 1 /\ now' \in 0..MaxTime /\ Span \in Nat
        /\ UNCHANGED <<activity, verdict, sent, forgotten>>
    BY MonotonicAssumption, SpanIsLong DEF SpamKept, Elapse, spamVars
  <1>2. SpamTypeOK' /\ IsFiniteSet(Tracked)' /\ Judged'
    BY <1>1
    DEF SpamKept, SpamTypeOK, Tracked, Judged, RepeatJudged, FloodJudged, Mine, Final
  <1>3. ASSUME NEW k \in Members PROVE MemberKept(k)'
    <2>1. MemberKept(k)
      BY DEF SpamKept, MemberKept
    <2>2. Log(k)' = Log(k) /\ Own(k)' = Own(k) /\ sent' = sent
          /\ forgotten' = forgotten /\ Tracked' = Tracked
      BY <1>1 DEF Log, Own, Tracked
    <2>3. /\ sent[k] \in Seq(Event) /\ Own(k) \in Seq(Event) /\ Log(k) \in Seq(Event)
      BY OwnFacts
    <2>4. \A i \in 1..Len(sent[k]) : sent[k][i].at <= now + 1
      <3>1. \A i \in 1..Len(sent[k]) : sent[k][i].at \in Nat /\ sent[k][i].at <= now
        BY <2>1, <2>3, TimesOf DEF MemberKept
      <3> QED
        BY <1>1, <3>1
    <2>5. Kept(Times(Log(k)), Times(Own(k)), now + 1 - Span, HistoryPerMember)
      <3> DEFINE part  == Times(Log(k))
                 whole == Times(Own(k))
      <3>1. /\ part \in Seq(Nat) /\ whole \in Seq(Nat)
            /\ Kept(part, whole, now - Span, HistoryPerMember)
        BY <2>1, <2>3, TimesOf DEF MemberKept
      <3> HIDE DEF part, whole
      <3>2. Len(part) < Len(whole) => whole[Len(whole) - Len(part)] \in Nat
        <4>1. /\ Len(part) \in Nat /\ Len(whole) \in Nat
              /\ \A i \in 1..Len(whole) : whole[i] \in Nat
          BY <3>1
        <4>2. Len(part) < Len(whole) => Len(whole) - Len(part) \in 1..Len(whole)
          BY <4>1
        <4> QED
          BY <4>1, <4>2
      <3>3. Kept(part, whole, now + 1 - Span, HistoryPerMember)
        BY <1>1, <3>1, <3>2 DEF Kept
      <3> QED
        BY <3>3 DEF part, whole
    <2> QED
      BY <1>1, <2>1, <2>2, <2>4, <2>5 DEF MemberKept
  <1> QED
    BY <1>1, <1>2, <1>3 DEF SpamKept, MemberKept

-----------------------------------------------------------------------------
(* The inductive invariant of both trackers and their clock. *)
IInv == /\ events \in 0..MaxEvents
        /\ SpamKept
        /\ Judged
        /\ RaidKept
        /\ Alerting

LEMMA RaidUntouched ==
  ASSUME RaidKept, Alerting, UNCHANGED raidVars, now' = now
  PROVE  RaidKept' /\ Alerting'
  BY DEF raidVars, RaidKept, RaidTypeOK, Alerting, AlertsSpaced

LEMMA SpamUntouched ==
  ASSUME SpamKept, Judged, UNCHANGED spamVars, now' = now
  PROVE  SpamKept' /\ Judged'
  BY DEF spamVars, SpamKept, SpamTypeOK, Tracked, Log, Own, Judged, RepeatJudged,
         FloodJudged, Mine, Final

LEMMA InitIInv == Init => IInv
  <1> SUFFICES ASSUME Init PROVE IInv
    OBVIOUS
  <1>1. /\ activity = [k \in {} |-> <<>>] /\ Tracked = {}
        /\ verdict = [of |-> CHOOSE k \in Members : TRUE, why |-> "none"]
        /\ sent = [k \in Members |-> <<>>] /\ forgotten = [k \in Members |-> 0]
        /\ joins = <<>> /\ lastAlert = Quiet /\ joined = <<>> /\ alerts = <<>>
        /\ now = 0 /\ events = 0
    BY DEF Init, SpamInit, RaidInit, ClockInit, Tracked
  <1>2. /\ now \in 0..MaxTime /\ events \in 0..MaxEvents /\ MaxTrackedJoins \in Nat
        /\ MaxTracked \in Nat
    BY <1>1, MonotonicAssumption, RaidAssumption, SpamAssumption
  <1>3. RaidKept /\ Alerting
    <2>1. Ordered(joined) /\ Kept(joins, joined, now - JoinWindow, MaxTrackedJoins)
      BY <1>1, <1>2 DEF Ordered, Kept, Suffix
    <2> QED
      BY <1>1, <1>2, <2>1 DEF RaidKept, RaidTypeOK, Alerting, AlertsSpaced
  <1>4. (CHOOSE k \in Members : TRUE) \in Members
    BY SpamAssumption
  <1>5. SpamTypeOK /\ IsFiniteSet(Tracked)
    <2>1. IsFiniteSet(Tracked) /\ Cardinality(Tracked) = 0
      BY <1>1, FS_EmptySet
    <2> QED
      BY <1>1, <1>2, <1>4, <2>1 DEF SpamTypeOK, Verdicts
  <1>6. ASSUME NEW k \in Members PROVE MemberKept(k)
    <2>1. sent[k] = <<>> /\ forgotten[k] = 0 /\ Log(k) = <<>> /\ <<>> \in Seq(Event)
          /\ Len(<<>>) = 0
      BY <1>1, <1>6 DEF Log
    <2>2. Own(k) = <<>> /\ Suffix(<<>>, <<>>)
          /\ Kept(Times(<<>>), Times(<<>>), now - Span, HistoryPerMember)
      BY <2>1, DroppedAnew DEF Own
    <2>3. Ordered(Times(<<>>))
      <3>1. Len(Times(<<>>)) = 0
        BY <2>1, TimesOf
      <3> QED
        BY <3>1 DEF Ordered
    <2> QED
      BY <2>1, <2>2, <2>3 DEF MemberKept
  <1>7. Judged
    <2>1. Mine = <<>>
      <3>1. sent[verdict.of] = <<>> /\ forgotten[verdict.of] = 0
        BY <1>1, <1>4
      <3>2. <<>> \in Seq(Event) /\ Len(<<>>) = 0
        OBVIOUS
      <3> QED
        BY <3>1, <3>2, DroppedAnew DEF Mine
    <2> QED
      BY <1>1, <2>1 DEF Judged, RepeatJudged, FloodJudged
  <1> QED
    BY <1>2, <1>3, <1>5, <1>6, <1>7 DEF IInv, SpamKept, MemberKept

(* The invariant of Protection: see IInv. *)
THEOREM Invariance == Spec => []IInv
  <1>1. IInv /\ [Next]_vars => IInv'
    <2> SUFFICES ASSUME IInv, [Next]_vars PROVE IInv'
      OBVIOUS
    <2> USE DEF IInv
    <2>0. MaxEvents \in Nat
      BY MonotonicAssumption
    <2>1. CASE Message
      <3>1. PICK k \in Members, text \in Texts, many \in BOOLEAN : Inspect(k, text, many)
        BY <2>1 DEF Message
      <3>2. now' = now /\ events' \in 0..MaxEvents /\ UNCHANGED raidVars
        BY <2>0, <2>1, <3>1 DEF Message, Inspect, Happen
      <3>3. SpamKept' /\ Judged'
        BY <3>1, InspectKeeps, InspectJudges
      <3> QED
        BY <3>2, <3>3, RaidUntouched
    <2>2. CASE Join
      <3>1. PICK t \in Thresholds : RecordJoin(t)
        BY <2>2 DEF Join
      <3>2. now' = now /\ events' \in 0..MaxEvents /\ UNCHANGED spamVars
        BY <2>0, <2>2, <3>1 DEF Join, RecordJoin, Happen
      <3> QED
        BY <3>1, <3>2, RecordKeeps, SpamUntouched
    <2>3. CASE Tick
      <3>1. Elapse /\ UNCHANGED raidVars /\ UNCHANGED spamVars
        BY <2>3 DEF Tick
      <3>2. events' = events
        BY <3>1 DEF Elapse
      <3> QED
        BY <3>1, <3>2, ElapseKeepsSpam, ElapseKeepsRaid
    <2>4. CASE Forget
      <3>1. PICK k \in Tracked : Drop({k})
        BY <2>4 DEF Forget
      <3>2. now' = now /\ events' = events /\ UNCHANGED raidVars
        BY <2>4 DEF Forget, clockVars
      <3> QED
        BY <3>1, <3>2, DropKeeps, RaidUntouched
    <2>5. CASE GuildRemoved
      <3>1. now' = now /\ events' = events /\ Drop(Tracked) /\ ForgetJoins
        BY <2>5 DEF GuildRemoved, clockVars
      <3> QED
        BY <3>1, DropKeeps, ForgetJoinsKeeps
    <2>6. CASE UNCHANGED vars
      <3>1. now' = now /\ events' = events /\ UNCHANGED raidVars /\ UNCHANGED spamVars
        BY <2>6 DEF vars, clockVars
      <3> QED
        BY <3>1, RaidUntouched, SpamUntouched
    <2> QED
      BY <2>1, <2>2, <2>3, <2>4, <2>5, <2>6 DEF Next
  <1> QED
    BY InitIInv, <1>1, PTL DEF Spec

(* Types, and the limits of the table and of the lists: see TypeOK. *)
THEOREM TypeCorrect == Spec => []TypeOK
  <1>1. IInv => TypeOK
    BY DEF IInv, SpamKept, RaidKept, TypeOK, ClockTypeOK
  <1> QED
    BY <1>1, Invariance, PTL

(* Where a history can be as long as the limit, a member is judged as the  *)
(* whole of what he sent would have it: see JudgedByHistory.               *)
THEOREM JudgedTruly ==
  Larger(2, MessageLimit) <= HistoryPerMember => (Spec => []JudgedByHistory)
  <1> SUFFICES ASSUME Larger(2, MessageLimit) <= HistoryPerMember
               PROVE  Spec => []JudgedByHistory
    OBVIOUS
  <1>1. IInv => JudgedByHistory
    BY DEF IInv, Judged, JudgedByHistory
  <1> QED
    BY <1>1, Invariance, PTL

(* A flood limit above the history's length is never reached: /antispam    *)
(* accepts up to 50, a history holds 20, and nothing is called a flood.    *)
THEOREM LimitOutOfReach ==
  Larger(2, MessageLimit) > HistoryPerMember => (Spec => [](verdict.why # "flood"))
  <1> SUFFICES ASSUME Larger(2, MessageLimit) > HistoryPerMember
               PROVE  Spec => [](verdict.why # "flood")
    OBVIOUS
  <1>1. ~(Larger(2, MessageLimit) <= HistoryPerMember)
    BY LimitType, SpamAssumption
  <1>2. IInv => verdict.why # "flood"
    BY <1>1 DEF IInv, Judged
  <1> QED
    BY <1>2, Invariance, PTL

(* One alert per cooldown: see AlertsSpaced. *)
THEOREM AlertsApart == Spec => []AlertsSpaced
  <1>1. IInv => AlertsSpaced
    BY DEF IInv, Alerting
  <1> QED
    BY <1>1, Invariance, PTL

(* A join alerts exactly when it should: see SpikeReported. *)
THEOREM SpikesReported == Spec => SpikeReported
  <1> DEFINE Reported ==
        \A t \in Thresholds :
          RecordJoin(t) =>
            (alerts' # alerts <=>
               /\ Cardinality(Within(joined', now - JoinWindow)) >= t
               /\ \A i \in DOMAIN alerts : now - alerts[i] >= AlertCooldown)
  <1>1. IInv => Reported
    <2> SUFFICES ASSUME IInv, NEW t \in Thresholds, RecordJoin(t)
                 PROVE  alerts' # alerts <=>
                          /\ Cardinality(Within(joined', now - JoinWindow)) >= t
                          /\ \A i \in DOMAIN alerts : now - alerts[i] >= AlertCooldown
      OBVIOUS
    <2>1. RaidKept /\ Alerting
      BY DEF IInv
    <2>2. /\ joined' = Append(joined, now)
          /\ alerts' = IF Len(Joins) >= t /\ ~CoolingDown
                       THEN Append(alerts, now) ELSE alerts
      BY DEF RecordJoin
    <2>3. Len(Joins) >= t <=>
            Cardinality(Within(joined', now - JoinWindow)) >= t
      BY <2>1, <2>2, SpikeIsTrue
    <2>4. /\ now \in Nat /\ AlertCooldown \in Nat /\ alerts \in Seq(Nat)
          /\ \A i \in DOMAIN alerts : alerts[i] \in Nat
      BY <2>1, MonotonicAssumption, RaidAssumption DEF RaidKept, RaidTypeOK
    <2>5. CoolingDown <=> ~(\A i \in DOMAIN alerts : now - alerts[i] >= AlertCooldown)
      <3>1. CoolingDown <=> \E i \in DOMAIN alerts : now - alerts[i] < AlertCooldown
        BY <2>1, CooldownIsTrue
      <3> QED
        BY <2>4, <3>1
    <2>6. Append(alerts, now) # alerts
      BY <2>4
    <2> QED
      BY <2>2, <2>3, <2>5, <2>6
  <1>2. IInv /\ [Next]_vars => [Reported]_raidVars
    BY <1>1
  <1> QED
    BY <1>2, Invariance, PTL DEF Spec, SpikeReported
=============================================================================
