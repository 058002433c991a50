---------------------------- MODULE HotSetProofs ----------------------------
(***************************************************************************)
(* Proofs about the hot sets of synthetic workloads, for every number of   *)
(* nodes, objects, channels and epochs, every overlap and churn, and every *)
(* shuffle of the objects.                                                 *)
(***************************************************************************)
EXTENDS HotSets, DataProofs

-----------------------------------------------------------------------------
(* Indexes *)

\* Consecutive numbers, no more than the modulus, have different remainders.
LEMMA RemaindersDiffer ==
  ASSUME NEW n \in Nat \ {0}, NEW a \in Nat, NEW b \in Nat, a < b, b - a < n
  PROVE  a % n # b % n
<1>1. \A c \in Nat : /\ c = n * (c \div n) + (c % n)
                     /\ c \div n \in Nat /\ c % n \in 0 .. n - 1
  <2> SUFFICES ASSUME NEW c \in Nat
               PROVE  /\ c = n * (c \div n) + (c % n)
                      /\ c \div n \in Nat /\ c % n \in 0 .. n - 1
    OBVIOUS
  <2>1. c = n * (c \div n) + (c % n)
    OBVIOUS
  <2>2. c % n \in 0 .. n - 1
    OBVIOUS
  <2>3. c \div n \in Int /\ c \div n >= 0
    OBVIOUS
  <2> QED BY <2>1, <2>2, <2>3
<1>2. PICK p \in Nat, r \in 0 .. n - 1 : a = n * p + r /\ r = a % n
  BY <1>1
<1>4. PICK q \in Nat, s \in 0 .. n - 1 : b = n * q + s /\ s = b % n
  BY <1>1
<1>3. ASSUME r = s PROVE FALSE
  <2>1. n * q - n * p = b - a
    BY <1>2, <1>3, <1>4
  <2>2. CASE p < q
    <3>1. n * q >= n * p + n
      BY <2>2
    <3> QED BY <2>1, <3>1
  <2>3. CASE q <= p
    <3>1. n * q <= n * p
      BY <2>3
    <3> QED BY <2>1, <3>1
  <2> QED BY <2>2, <2>3
<1> QED BY <1>2, <1>3, <1>4

\* As many numbers as the modulus, from any one on, have every remainder.
LEMMA RemaindersCover ==
  ASSUME NEW n \in Nat \ {0}, NEW c \in Nat, NEW r \in 0 .. n - 1
  PROVE  \E a \in 0 .. n - 1 : (c + a) % n = r
<1> DEFINE D == 0 .. n - 1
           f == [a \in D |-> (c + a) % n]
<1>1. \A a \in D : c + a \in Nat /\ (c + a) % n \in D
  OBVIOUS
<1>2. f \in [D -> D]
  BY <1>1
<1>3. \A a, b \in D : a < b => f[a] # f[b]
  <2> SUFFICES ASSUME NEW a \in D, NEW b \in D, a < b PROVE f[a] # f[b]
    OBVIOUS
  <2>1. c + a \in Nat /\ c + b \in Nat /\ c + a < c + b /\ (c + b) - (c + a) < n
    OBVIOUS
  <2>2. (c + a) % n # (c + b) % n
    BY <2>1, RemaindersDiffer
  <2> QED BY <2>2
<1>4. \A a, b \in D : a # b => f[a] # f[b]
  <2> SUFFICES ASSUME NEW a \in D, NEW b \in D, a # b PROVE f[a] # f[b]
    OBVIOUS
  <2>1. a < b \/ b < a
    OBVIOUS
  <2> HIDE DEF f
  <2> QED BY <1>3, <2>1
<1>5. f \in Injection(D, D)
  <2> HIDE DEF f
  <2> QED BY <1>2, <1>4 DEF Injection, IsInjective
<1>6. IsFiniteSet(D)
  <2>1. PICK m \in Int : m = n - 1
    OBVIOUS
  <2>2. IsFiniteSet(0 .. m)
    BY FS_Interval
  <2> QED BY <2>1, <2>2
<1>7. f \in Surjection(D, D)
  <2> HIDE DEF f, D
  <2> QED BY <1>5, <1>6, FS_Injection
<1>8. \E a \in D : f[a] = r
  <2> HIDE DEF f
  <2> QED BY <1>7 DEF Surjection
<1> QED BY <1>8

\* The replacements of a segment are at least the fraction, by less than one.
LEMMA ReplacementBounds ==
  ASSUME NEW n \in Nat, NEW fraction \in 0 .. WholeHotSet
  PROVE  /\ replacement_count(n, fraction) \in 0 .. n
         /\ WholeHotSet * replacement_count(n, fraction)
              \in n * fraction .. n * fraction + (WholeHotSet - 1)
<1>1. PICK W \in Nat \ {0} : W = WholeHotSet
  BY WholeHotSetAssumption
<1>2. PICK x \in Nat : x = n * fraction
  BY <1>1
<1>3. x <= n * W
  BY <1>1, <1>2
<1>4. PICK y \in Nat : y = x + W - 1
  BY <1>1
<1>5. y = W * (y \div W) + (y % W)
  BY <1>1, <1>4
<1>6. y % W \in 0 .. W - 1
  BY <1>1, <1>4
<1>7. y \div W \in Int /\ y \div W >= 0
  BY <1>1, <1>4
<1>8. PICK q \in Nat, r \in 0 .. W - 1 : q = y \div W /\ y = W * q + r
  BY <1>5, <1>6, <1>7
<1>9. replacement_count(n, fraction) = q
  BY <1>1, <1>2, <1>4, <1>8 DEF replacement_count
<1>10. W * q >= x /\ W * q <= x + (W - 1)
  BY <1>1, <1>4, <1>8
<1>11. q <= n
  <2> SUFFICES ASSUME q > n PROVE FALSE
    OBVIOUS
  <2>1. W * q >= W * n + W
    BY <1>1
  <2>2. W * n = n * W
    BY <1>1
  <2> QED BY <1>1, <1>3, <1>10, <2>1, <2>2
<1> QED BY <1>1, <1>2, <1>9, <1>10, <1>11

\* The places of node n in a layout follow those of the nodes before it.
LEMMA BlocksFollow ==
  ASSUME NEW N \in Nat, NEW n \in 1 .. N, NEW size \in Nat
  PROVE  /\ (n - 1) * size \in Nat /\ n * size = (n - 1) * size + size
         /\ n * size <= size * N
         /\ \A m \in 1 .. N : m < n => m * size <= (n - 1) * size
<1>1. (n - 1) * size \in Nat /\ n * size = (n - 1) * size + size
  OBVIOUS
<1>2. n * size <= size * N
  OBVIOUS
<1>3. \A m \in 1 .. N : m < n => m * size <= (n - 1) * size
  OBVIOUS
<1> QED BY <1>1, <1>2, <1>3

-----------------------------------------------------------------------------
(* Configurations and layouts *)

\* The objects that hot_object_candidates keeps, in some order.
HotObjects(w) == {o \in 1 .. w.object_count : OnHotChannel(w, o)}

\* They are shuffled: each is there once.
IsShuffle(w, objects) ==
  /\ objects \in Seq(HotObjects(w)) /\ Len(objects) = eligible_hot_object_count(w)
  /\ IsInjective(objects)

\* Segments of distinct objects.
Segments(w, size) == {s \in [1 .. size -> HotObjects(w)] : IsInjective(s)}

\* Every segment has its size, and no two have an object in common.
IsLayout(w, g) ==
  /\ g.shared_hot_objects \in Segments(w, shared_hot_object_count(w))
  /\ DOMAIN g.private_hot_objects_by_node = 1 .. w.node_count
  /\ \A n \in 1 .. w.node_count :
       LET private == g.private_hot_objects_by_node[n]
       IN /\ private \in Segments(w, private_hot_object_count(w))
          /\ ToSet(g.shared_hot_objects) \cap ToSet(private) = {}
          /\ \A m \in 1 .. w.node_count : m # n =>
               ToSet(g.private_hot_objects_by_node[m]) \cap ToSet(private) = {}

\* The sizes of an accepted configuration, and that there is room for them.
SizesFit(w) ==
  /\ w.node_count \in Nat \ {0} /\ w.hot_set_size \in Nat \ {0}
  /\ shared_hot_object_count(w) \in Nat /\ private_hot_object_count(w) \in Nat
  /\ shared_hot_object_count(w) + private_hot_object_count(w) = w.hot_set_size
  /\ required_hot_objects_per_epoch(w) \in Nat \ {0}
  /\ effective_hot_set_churn_fraction(w) \in 0 .. WholeHotSet
  /\ IsFiniteSet(HotObjects(w))
  /\ eligible_hot_object_count(w) = Cardinality(HotObjects(w))
  /\ eligible_hot_object_count(w) \in Nat
  /\ required_hot_objects_per_epoch(w) <= eligible_hot_object_count(w)
  /\ total_replacements_per_epoch(w) \in Nat
  /\ PartialChurn(w) =>
       required_hot_objects_per_epoch(w) + total_replacements_per_epoch(w)
         <= eligible_hot_object_count(w)

\* What the validation accepts has sizes that fit.
LEMMA AcceptedSizesFit ==
  ASSUME NEW w, validate_synthetic_workload_config(w)
  PROVE  SizesFit(w)
<1> DEFINE S == shared_hot_object_count(w)
           P == private_hot_object_count(w)
           f == effective_hot_set_churn_fraction(w)
<1>1. /\ w.node_count \in Nat \ {0} /\ w.hot_set_size \in Nat \ {0}
      /\ w.object_count \in Nat
      /\ w.hot_set_churn_fraction \in 0 .. WholeHotSet
      /\ w.cross_node_overlap \in {"low", "medium", "high"}
      /\ HasRoom(w)
  BY WholeHotSetAssumption DEF validate_synthetic_workload_config, SyntheticWorkloadConfig
<1>2. S \in Nat /\ P \in Nat /\ S + P = w.hot_set_size
  <2>1. PICK h \in Nat : h = w.hot_set_size
    BY <1>1
  <2>2. h \div 2 \in 0 .. h
    <3>1. h = 2 * (h \div 2) + (h % 2) /\ h % 2 \in 0 .. 1 /\ h \div 2 \in Int
      BY <2>1
    <3> QED BY <3>1
  <2>3. S \in {0, h \div 2, h}
    <3>1. CASE w.cross_node_overlap = "low"
      BY <3>1 DEF shared_hot_object_count
    <3>2. CASE w.cross_node_overlap = "medium"
      BY <2>1, <3>2 DEF shared_hot_object_count
    <3>3. CASE w.cross_node_overlap = "high"
      BY <2>1, <3>3 DEF shared_hot_object_count
    <3> QED BY <1>1, <3>1, <3>2, <3>3
  <2>4. P = h - S
    BY <2>1 DEF private_hot_object_count
  <2> HIDE DEF S, P
  <2>5. S \in 0 .. h
    BY <2>1, <2>2, <2>3
  <2> QED BY <2>1, <2>4, <2>5
<1>3. f \in 0 .. WholeHotSet
  BY <1>1, WholeHotSetAssumption DEF effective_hot_set_churn_fraction
<1>4. required_hot_objects_per_epoch(w) = S + P * w.node_count
  BY DEF required_hot_objects_per_epoch
<1>5. required_hot_objects_per_epoch(w) \in Nat \ {0}
  <2> HIDE DEF S, P
  <2>1. PICK N \in Nat : N = w.node_count - 1 /\ w.node_count = N + 1
    BY <1>1
  <2>2. P * w.node_count = P * N + P /\ P * N \in Nat
    BY <1>2, <2>1
  <2> QED BY <1>1, <1>2, <1>4, <2>2
<1>6. IsFiniteSet(HotObjects(w)) /\ Cardinality(HotObjects(w)) \in Nat
  <2>1. IsFiniteSet(1 .. w.object_count)
    BY <1>1, FS_Interval
  <2>2. HotObjects(w) \in SUBSET (1 .. w.object_count)
    BY DEF HotObjects
  <2> QED BY <2>1, <2>2, FS_Subset, FS_CardinalityType
<1>7. eligible_hot_object_count(w) = Cardinality(HotObjects(w))
  BY DEF eligible_hot_object_count, HotObjects
<1>8. total_replacements_per_epoch(w) \in Nat
  <2> HIDE DEF S, P, f
  <2>1. replacement_count(S, f) \in Nat /\ replacement_count(P, f) \in Nat
    <3>1. replacement_count(S, f) \in 0 .. S
      BY <1>2, <1>3, ReplacementBounds
    <3>2. replacement_count(P, f) \in 0 .. P
      BY <1>2, <1>3, ReplacementBounds
    <3> QED BY <1>2, <3>1, <3>2
  <2>2. total_replacements_per_epoch(w) =
          replacement_count(S, f) + replacement_count(P, f) * w.node_count
    BY DEF total_replacements_per_epoch, S, P, f
  <2> QED BY <1>1, <2>1, <2>2
<1>9. /\ required_hot_objects_per_epoch(w) <= eligible_hot_object_count(w)
      /\ PartialChurn(w) =>
           required_hot_objects_per_epoch(w) + total_replacements_per_epoch(w)
             <= eligible_hot_object_count(w)
  <2>1. CASE PartialChurn(w)
    BY <1>1, <1>5, <1>6, <1>7, <1>8, <2>1 DEF HasRoom
  <2>2. CASE ~ PartialChurn(w)
    BY <1>1, <1>5, <1>6, <1>7, <1>8, <2>2 DEF HasRoom
  <2> QED BY <2>1, <2>2
<1> QED BY <1>1, <1>2, <1>3, <1>5, <1>6, <1>7, <1>8, <1>9 DEF SizesFit

-----------------------------------------------------------------------------
(* A fresh layout *)

\* Walking along the objects one comes across each of them before any again.
LEMMA ObjectsAlong ==
  ASSUME NEW w, NEW objects, IsShuffle(w, objects), Len(objects) # 0,
         NEW i \in Nat
  PROVE  /\ object_at(objects, i) \in HotObjects(w)
         /\ \A j \in Nat : i < j /\ j - i < Len(objects)
              => object_at(objects, i) # object_at(objects, j)
<1>1. PICK n \in Nat \ {0} : n = Len(objects) /\ DOMAIN objects = 1 .. n
  BY DEF IsShuffle
<1>2. \A j \in Nat : j % n \in 0 .. n - 1
  <2> SUFFICES ASSUME NEW j \in Nat PROVE j % n \in 0 .. n - 1
    OBVIOUS
  <2> QED OBVIOUS
<1>3. \A j \in Nat : object_at(objects, j) = objects[(j % n) + 1]
  BY <1>1 DEF object_at
<1>4. \A j \in Nat : (j % n) + 1 \in 1 .. n
  BY <1>2
<1>5. object_at(objects, i) \in HotObjects(w)
  <2>1. \A k \in 1 .. n : objects[k] \in HotObjects(w)
    BY <1>1 DEF IsShuffle
  <2> QED BY <1>3, <1>4, <2>1
<1>6. ASSUME NEW j \in Nat, i < j, j - i < n
      PROVE  object_at(objects, i) # object_at(objects, j)
  <2>1. PICK a \in 0 .. n - 1, b \in 0 .. n - 1 : a = i % n /\ b = j % n
    BY <1>2
  <2>2. i % n # j % n
    BY <1>6, RemaindersDiffer
  <2>3. a + 1 # b + 1 /\ a + 1 \in DOMAIN objects /\ b + 1 \in DOMAIN objects
    BY <1>1, <2>1, <2>2
  <2>4. objects[a + 1] # objects[b + 1]
    BY <2>3 DEF IsShuffle, IsInjective
  <2> QED BY <1>3, <2>1, <2>4
<1> QED BY <1>1, <1>5, <1>6

\* A run of objects is a segment, if it does not go around.
LEMMA RunIsSegment ==
  ASSUME NEW w, NEW objects, IsShuffle(w, objects), Len(objects) # 0,
         NEW cursor \in Nat, NEW count \in Nat, count <= Len(objects)
  PROVE  /\ next_objects(objects, cursor, count) \in Segments(w, count)
         /\ \A o \in ToSet(next_objects(objects, cursor, count)) :
              \E i \in Nat : /\ cursor <= i /\ i < cursor + count
                             /\ o = object_at(objects, i)
<1>1. PICK s : s = next_objects(objects, cursor, count)
  OBVIOUS
<1>2. /\ DOMAIN s = 1 .. count
      /\ s = [i \in 1 .. count |-> object_at(objects, cursor + i - 1)]
      /\ \A i \in 1 .. count : s[i] = object_at(objects, cursor + i - 1)
  BY <1>1 DEF next_objects
<1>3. \A i \in 1 .. count : cursor + i - 1 \in Nat
  OBVIOUS
<1>4. s \in [1 .. count -> HotObjects(w)]
  <2>1. \A i \in 1 .. count : object_at(objects, cursor + i - 1) \in HotObjects(w)
    BY <1>3, ObjectsAlong
  <2> QED BY <1>2, <2>1
<1>5. Len(objects) \in Nat
  BY DEF IsShuffle
<1>6. \A i, j \in 1 .. count : i < j => s[i] # s[j]
  <2> SUFFICES ASSUME NEW i \in 1 .. count, NEW j \in 1 .. count, i < j
               PROVE  s[i] # s[j]
    OBVIOUS
  <2>1. PICK a \in Nat, b \in Nat :
          a = cursor + i - 1 /\ b = cursor + j - 1 /\ a < b /\ b - a < Len(objects)
    BY <1>3, <1>5
  <2>2. object_at(objects, a) # object_at(objects, b)
    BY <2>1, ObjectsAlong
  <2> QED BY <1>2, <2>1, <2>2
<1>7. \A i, j \in 1 .. count : s[i] = s[j] => i = j
  <2> SUFFICES ASSUME NEW i \in 1 .. count, NEW j \in 1 .. count, s[i] = s[j], i # j
               PROVE  FALSE
    OBVIOUS
  <2>1. i < j \/ j < i
    OBVIOUS
  <2> QED BY <1>6, <2>1
<1>8. s \in Segments(w, count)
  BY <1>2, <1>4, <1>7 DEF Segments, IsInjective
<1>9. ASSUME NEW o \in ToSet(s)
      PROVE  \E i \in Nat : /\ cursor <= i /\ i < cursor + count
                            /\ o = object_at(objects, i)
  <2>1. PICK i \in 1 .. count : o = s[i]
    BY <1>2, <1>9 DEF ToSet
  <2>2. PICK a \in Nat : a = cursor + i - 1 /\ cursor <= a /\ a < cursor + count
    BY <1>3
  <2> QED BY <1>2, <2>1, <2>2
<1> QED BY <1>1, <1>8, <1>9

\* Two runs, one behind the other, have no object in common if both go around less
\* than once.
LEMMA RunsDiffer ==
  ASSUME NEW w, NEW objects, IsShuffle(w, objects), Len(objects) # 0,
         NEW start \in Nat, NEW size \in Nat, NEW later \in Nat, NEW count \in Nat,
         start + size <= later, later + count <= start + Len(objects)
  PROVE  ToSet(next_objects(objects, start, size))
           \cap ToSet(next_objects(objects, later, count)) = {}
<1>1. Len(objects) \in Nat
  BY DEF IsShuffle
<1>2. size <= Len(objects) /\ count <= Len(objects)
  BY <1>1
<1> SUFFICES ASSUME NEW o \in ToSet(next_objects(objects, start, size)),
                    o \in ToSet(next_objects(objects, later, count))
             PROVE  FALSE
  OBVIOUS
<1>3. PICK i \in Nat : start <= i /\ i < start + size /\ o = object_at(objects, i)
  BY <1>2, RunIsSegment
<1>4. PICK j \in Nat : later <= j /\ j < later + count /\ o = object_at(objects, j)
  BY <1>2, RunIsSegment
<1>5. i < j /\ j - i < Len(objects)
  BY <1>1, <1>3, <1>4
<1> QED BY <1>3, <1>4, <1>5, ObjectsAlong

\* allocate_hot_set_segments: the segments are runs, one behind the other.
LEMMA AllocationIsLayout ==
  ASSUME NEW w, SizesFit(w), NEW objects, IsShuffle(w, objects), NEW cursor \in Nat
  PROVE  IsLayout(w, allocate_hot_set_segments(w, objects, cursor))
<1>1. PICK N \in Nat, S \in Nat, P \in Nat :
        N = w.node_count /\ S = shared_hot_object_count(w) /\ P = private_hot_object_count(w)
  BY DEF SizesFit
<1>2. /\ Len(objects) \in Nat /\ Len(objects) # 0
      /\ P * N \in Nat /\ S + P * N <= Len(objects)
  <2>1. required_hot_objects_per_epoch(w) = S + P * N
    BY <1>1 DEF required_hot_objects_per_epoch
  <2>2. P * N \in Nat
    BY <1>1
  <2> QED BY <2>1, <2>2 DEF SizesFit, IsShuffle
<1> DEFINE from(n) == cursor + S + (n - 1) * P
           shared == next_objects(objects, cursor, S)
           private(n) == next_objects(objects, from(n), P)
<1>3. allocate_hot_set_segments(w, objects, cursor) =
        [shared_hot_objects |-> shared,
         private_hot_objects_by_node |-> [n \in 1 .. N |-> private(n)]]
  BY <1>1 DEF allocate_hot_set_segments
<1>4. \A n \in 1 .. N : /\ from(n) \in Nat /\ cursor + S <= from(n)
                        /\ from(n) + P <= cursor + Len(objects)
                        /\ \A m \in 1 .. N : m < n => from(m) + P <= from(n)
  <2> SUFFICES ASSUME NEW n \in 1 .. N
               PROVE  /\ from(n) \in Nat /\ cursor + S <= from(n)
                      /\ from(n) + P <= cursor + Len(objects)
                      /\ \A m \in 1 .. N : m < n => from(m) + P <= from(n)
    OBVIOUS
  <2>1. PICK x \in Nat : /\ x = (n - 1) * P /\ n * P = x + P /\ n * P <= P * N
                         /\ \A m \in 1 .. N : m < n => m * P <= x
    BY BlocksFollow
  <2>2. from(n) = cursor + S + x
    BY <2>1
  <2>3. \A m \in 1 .. N : m * P = (m - 1) * P + P
    BY BlocksFollow
  <2>4. \A m \in 1 .. N : m < n => from(m) + P <= from(n)
    <3> SUFFICES ASSUME NEW m \in 1 .. N, m < n PROVE from(m) + P <= from(n)
      OBVIOUS
    <3>1. PICK y \in Nat : y = (m - 1) * P /\ m * P = y + P
      BY BlocksFollow
    <3>2. from(m) = cursor + S + y
      BY <3>1
    <3>3. y + P <= x
      BY <2>1, <3>1
    <3> HIDE DEF from
    <3> QED BY <2>2, <3>2, <3>3
  <2> HIDE DEF from
  <2> QED BY <1>2, <2>1, <2>2, <2>4
<1>5. \A n \in 1 .. N : P <= Len(objects)
  <2> HIDE DEF from
  <2> QED BY <1>2, <1>4
<1>6. S <= Len(objects)
  BY <1>2
<1> HIDE DEF from
<1>7. shared \in Segments(w, S)
  BY <1>2, <1>6, RunIsSegment
<1>8. \A n \in 1 .. N : private(n) \in Segments(w, P)
  BY <1>2, <1>4, <1>5, RunIsSegment
<1>9. \A n \in 1 .. N : ToSet(shared) \cap ToSet(private(n)) = {}
  <2> SUFFICES ASSUME NEW n \in 1 .. N PROVE ToSet(shared) \cap ToSet(private(n)) = {}
    OBVIOUS
  <2>1. PICK later \in Nat : later = from(n)
    BY <1>4
  <2>2. cursor + S <= later /\ later + P <= cursor + Len(objects)
    BY <1>4, <2>1
  <2> QED BY <1>2, <2>1, <2>2, RunsDiffer
<1>10. \A n, m \in 1 .. N : m < n => ToSet(private(m)) \cap ToSet(private(n)) = {}
  <2> SUFFICES ASSUME NEW n \in 1 .. N, NEW m \in 1 .. N, m < n
               PROVE  ToSet(private(m)) \cap ToSet(private(n)) = {}
    OBVIOUS
  <2>1. PICK start \in Nat, later \in Nat : start = from(m) /\ later = from(n)
    BY <1>4
  <2>2. start + P <= later /\ later + P <= start + Len(objects)
    BY <1>2, <1>4, <2>1
  <2> QED BY <1>2, <2>1, <2>2, RunsDiffer
<1> HIDE DEF shared, private
<1>11. \A n, m \in 1 .. N : m # n => ToSet(private(m)) \cap ToSet(private(n)) = {}
  <2> SUFFICES ASSUME NEW n \in 1 .. N, NEW m \in 1 .. N, m # n
               PROVE  ToSet(private(m)) \cap ToSet(private(n)) = {}
    OBVIOUS
  <2>1. m < n \/ n < m
    OBVIOUS
  <2> QED BY <1>10, <2>1
<1>12. PICK g : g = [shared_hot_objects |-> shared,
                     private_hot_objects_by_node |-> [n \in 1 .. N |-> private(n)]]
  OBVIOUS
<1>13. /\ g.shared_hot_objects = shared
       /\ DOMAIN g.private_hot_objects_by_node = 1 .. N
       /\ \A n \in 1 .. N : g.private_hot_objects_by_node[n] = private(n)
  BY <1>12
<1>14. IsLayout(w, g)
  BY <1>1, <1>7, <1>8, <1>9, <1>11, <1>13 DEF IsLayout
<1> QED BY <1>3, <1>12, <1>14

-----------------------------------------------------------------------------
(* New objects *)

\* A sequence has at most as many elements as places, and just as many if none
\* comes twice.
LEMMA ElementsCounted ==
  ASSUME NEW X, NEW n \in Nat, NEW s \in [1 .. n -> X]
  PROVE  /\ IsFiniteSet(ToSet(s)) /\ Cardinality(ToSet(s)) \in Nat
         /\ Cardinality(ToSet(s)) <= n
         /\ IsInjective(s) => Cardinality(ToSet(s)) = n
<1>1. IsFiniteSet(1 .. n) /\ Cardinality(1 .. n) = n
  <2>1. IsFiniteSet(1 .. n) /\ Cardinality(1 .. n) = IF 1 > n THEN 0 ELSE n - 1 + 1
    BY FS_Interval
  <2> QED BY <2>1
<1>2. PICK T : T = ToSet(s)
  OBVIOUS
<1>3. s \in Surjection(1 .. n, T)
  BY <1>2 DEF ToSet, Surjection
<1>4. /\ IsFiniteSet(T) /\ Cardinality(T) <= Cardinality(1 .. n)
      /\ Cardinality(T) = Cardinality(1 .. n) <=> s \in Injection(1 .. n, T)
  BY <1>1, <1>3, FS_Surjection
<1>5. IsInjective(s) => s \in Injection(1 .. n, T)
  BY <1>3 DEF Injection, Surjection
<1> QED BY <1>1, <1>2, <1>4, <1>5, FS_CardinalityType

\* What k draws may have come to: as many new objects, each once.
Drawn(w, avoided, k) ==
  {d \in [cursor : Nat, drawn : Seq(HotObjects(w))] :
     /\ Len(d.drawn) = k /\ IsInjective(d.drawn)
     /\ ToSet(d.drawn) \cap avoided = {}}

\* As long as fewer objects are avoided or drawn than there are, one is left.
LEMMA OneIsUsable ==
  ASSUME NEW w, SizesFit(w), NEW objects, IsShuffle(w, objects),
         NEW avoided \in SUBSET HotObjects(w), NEW k \in Nat,
         Cardinality(avoided) + k < Len(objects), NEW d \in Drawn(w, avoided, k)
  PROVE  Usable(objects, avoided, d) # {}
<1>1. PICK n \in Nat : n = Len(objects) /\ objects \in [1 .. n -> HotObjects(w)]
                       /\ n = Cardinality(HotObjects(w))
  BY DEF IsShuffle, SizesFit
<1>2. IsFiniteSet(HotObjects(w)) /\ IsFiniteSet(avoided) /\ Cardinality(avoided) \in Nat
  BY FS_Subset, FS_CardinalityType DEF SizesFit
<1>3. n # 0
  BY <1>1, <1>2
<1>4. PICK T \in SUBSET HotObjects(w) : T = ToSet(d.drawn)
  <2>1. d.drawn \in Seq(HotObjects(w))
    BY DEF Drawn
  <2>2. \A i \in DOMAIN d.drawn : d.drawn[i] \in HotObjects(w)
    BY <2>1
  <2>3. ToSet(d.drawn) \subseteq HotObjects(w)
    BY <2>2 DEF ToSet
  <2> QED BY <2>3
<1>5. IsFiniteSet(T) /\ Cardinality(T) \in Nat /\ Cardinality(T) <= k
  <2>1. d.drawn \in [1 .. k -> HotObjects(w)]
    BY DEF Drawn
  <2> QED BY <1>4, <2>1, ElementsCounted
<1>6. /\ IsFiniteSet(avoided \cup T)
      /\ Cardinality(avoided \cup T) <= Cardinality(avoided) + Cardinality(T)
  <2>1. IsFiniteSet(avoided \cap T) /\ Cardinality(avoided \cap T) \in Nat
    BY <1>2, FS_Subset, FS_CardinalityType
  <2>2. /\ IsFiniteSet(avoided \cup T)
        /\ Cardinality(avoided \cup T) =
             Cardinality(avoided) + Cardinality(T) - Cardinality(avoided \cap T)
    BY <1>2, <1>5, FS_Union
  <2> QED BY <1>2, <1>5, <2>1, <2>2
<1>7. PICK o \in HotObjects(w) : o \notin avoided \cup T
  <2>1. Cardinality(avoided \cup T) < n
    BY <1>1, <1>2, <1>5, <1>6, FS_CardinalityType
  <2>2. avoided \cup T # HotObjects(w)
    <3>1. Cardinality(avoided \cup T) # n
      BY <1>1, <1>2, <1>6, <2>1, FS_CardinalityType
    <3> QED BY <1>1, <3>1
  <2> QED BY <1>4, <2>2
<1>8. PICK j \in 1 .. n : objects[j] = o
  <2>1. IsFiniteSet(1 .. n) /\ Cardinality(1 .. n) = n
    <3>1. IsFiniteSet(1 .. n) /\ Cardinality(1 .. n) = IF 1 > n THEN 0 ELSE n - 1 + 1
      BY FS_Interval
    <3> QED BY <3>1
  <2>2. objects \in Injection(1 .. n, HotObjects(w))
    BY <1>1 DEF IsShuffle, Injection
  <2>3. objects \in Surjection(1 .. n, HotObjects(w))
    BY <1>1, <1>2, <2>1, <2>2, FS_Injection
  <2> QED BY <2>3 DEF Surjection
<1>9. PICK c \in Nat : c = d.cursor
  BY DEF Drawn
<1>10. PICK a \in 0 .. n - 1 : (c + a) % n = j - 1
  <2>1. j - 1 \in 0 .. n - 1
    BY <1>1
  <2> QED BY <1>3, <2>1, RemaindersCover
<1>11. object_at(objects, c + a) = o
  <2>1. ((c + a) % n) + 1 = j
    BY <1>10
  <2> QED BY <1>1, <1>8, <2>1 DEF object_at
<1> QED BY <1>1, <1>4, <1>7, <1>9, <1>11 DEF Usable

\* Then the next draw finds it.
LEMMA DrawOne ==
  ASSUME NEW w, SizesFit(w), NEW objects, IsShuffle(w, objects),
         NEW avoided \in SUBSET HotObjects(w), NEW k \in Nat,
         Cardinality(avoided) + k < Len(objects), NEW d \in Drawn(w, avoided, k)
  PROVE  next_unused_object(objects, avoided, d) \in Drawn(w, avoided, k + 1)
<1>1. Usable(objects, avoided, d) # {}
  BY OneIsUsable
<1>2. Usable(objects, avoided, d) \subseteq Nat
  BY DEF Usable
<1>3. PICK a \in Usable(objects, avoided, d) : a = Min(Usable(objects, avoided, d))
  BY <1>1, <1>2, LeastNatural DEF Min
<1>4. Len(objects) # 0
  <2>1. Cardinality(avoided) \in Nat
    BY FS_Subset, FS_CardinalityType DEF SizesFit
  <2> QED BY <2>1
<1>5. PICK c \in Nat, s \in Seq(HotObjects(w)) : c = d.cursor /\ s = d.drawn
  BY DEF Drawn
<1>6. PICK o \in HotObjects(w) : o = object_at(objects, c + a)
  <2>1. c + a \in Nat
    BY <1>2
  <2> QED BY <1>4, <2>1, ObjectsAlong
<1>7. o \notin avoided /\ o \notin ToSet(s)
  BY <1>5, <1>6 DEF Usable
<1>8. next_unused_object(objects, avoided, d) = [cursor |-> c + a + 1, drawn |-> Append(s, o)]
  BY <1>1, <1>3, <1>5, <1>6 DEF next_unused_object
<1>9. PICK t : t = Append(s, o)
  OBVIOUS
<1>10. /\ t \in Seq(HotObjects(w)) /\ Len(t) = k + 1 /\ Len(s) = k
       /\ t[k + 1] = o /\ \A i \in 1 .. k : t[i] = s[i] /\ s[i] \in ToSet(s)
  BY <1>5, <1>9 DEF Drawn, ToSet
<1>11. IsInjective(t)
  <2> SUFFICES ASSUME NEW i \in 1 .. k + 1, NEW j \in 1 .. k + 1, t[i] = t[j]
               PROVE  i = j
    BY <1>10 DEF IsInjective
  <2>1. CASE i \in 1 .. k /\ j \in 1 .. k
    <3>1. s[i] = s[j] /\ DOMAIN s = 1 .. k
      BY <1>10, <2>1
    <3> QED BY <1>5, <2>1, <3>1 DEF Drawn, IsInjective
  <2>2. CASE i = k + 1 /\ j \in 1 .. k
    BY <1>7, <1>10, <2>2
  <2>3. CASE i \in 1 .. k /\ j = k + 1
    BY <1>7, <1>10, <2>3
  <2> QED BY <2>1, <2>2, <2>3
<1>12. ToSet(t) \cap avoided = {}
  <2>1. ToSet(s) \cap avoided = {}
    BY <1>5 DEF Drawn
  <2>2. ToSet(t) \subseteq ToSet(s) \cup {o}
    <3> SUFFICES ASSUME NEW i \in 1 .. k + 1 PROVE t[i] \in ToSet(s) \cup {o}
      BY <1>10 DEF ToSet
    <3>1. i \in 1 .. k \/ i = k + 1
      OBVIOUS
    <3> QED BY <1>10, <3>1
  <2> QED BY <1>7, <2>1, <2>2
<1>13. c + a + 1 \in Nat
  BY <1>2
<1>14. PICK c2 \in Nat : c2 = c + a + 1
  BY <1>13
<1>15. [cursor |-> c2, drawn |-> t] \in Drawn(w, avoided, k + 1)
  BY <1>10, <1>11, <1>12 DEF Drawn
<1> QED BY <1>8, <1>9, <1>14, <1>15

\* The draws of an epoch: all succeed if the objects avoided and drawn are no more
\* than there are.
LEMMA DrawsSucceed ==
  ASSUME NEW w, SizesFit(w), NEW objects, IsShuffle(w, objects),
         NEW cursor \in Nat, NEW avoided \in SUBSET HotObjects(w), NEW count \in Nat,
         Cardinality(avoided) + count <= Len(objects), Len(objects) # 0
  PROVE  NextUnusedObjects(objects, cursor, avoided, count) \in Drawn(w, avoided, count)
<1> DEFINE D == [cursor : Nat, drawn : Seq(HotObjects(w))]
           start == [cursor |-> cursor, drawn |-> <<>>]
           step == [d \in D |-> next_unused_object(objects, avoided, d)]
           Loop(f) == [k \in 0 .. count |->
                         IF k = 0 THEN start
                         ELSE next_unused_object(objects, avoided, f[k - 1])]
           draw == CHOOSE f : f = Loop(f)
<1>1. NextUnusedObjects(objects, cursor, avoided, count) = draw[count]
  BY DEF NextUnusedObjects
<1>2. \A d \in D : next_unused_object(objects, avoided, d) \in D
  <2> SUFFICES ASSUME NEW d \in D, Usable(objects, avoided, d) # {}
               PROVE  next_unused_object(objects, avoided, d) \in D
    BY DEF next_unused_object
  <2>1. Usable(objects, avoided, d) \subseteq Nat
    BY DEF Usable
  <2>2. PICK a \in Nat : a = Min(Usable(objects, avoided, d))
    BY <2>1, LeastNatural DEF Min
  <2>3. d.cursor + a \in Nat /\ d.cursor + a + 1 \in Nat
    OBVIOUS
  <2>4. PICK o \in HotObjects(w) : o = object_at(objects, d.cursor + a)
    BY <2>3, ObjectsAlong
  <2>5. PICK c \in Nat, s \in Seq(HotObjects(w)) :
          c = d.cursor + a + 1 /\ s = Append(d.drawn, o)
    <3>1. d.drawn \in Seq(HotObjects(w)) /\ d.cursor + a + 1 \in Nat
      BY <2>3
    <3>2. Append(d.drawn, o) \in Seq(HotObjects(w))
      BY <2>4, <3>1
    <3> QED BY <3>1, <3>2
  <2>6. next_unused_object(objects, avoided, d) = [cursor |-> c, drawn |-> s]
    BY <2>2, <2>4, <2>5 DEF next_unused_object
  <2> QED BY <2>6
<1>3. start \in D
  OBVIOUS
<1>4. step \in [D -> D] /\ \A d \in D : step[d] = next_unused_object(objects, avoided, d)
  <2> HIDE DEF D
  <2> QED BY <1>2
<1> HIDE DEF D, start, step
<1>5. PICK f : f \in [0 .. count -> D] /\ f = LoopStep(count, start, step, f)
  BY <1>3, <1>4, LoopExists
<1>6. f = Loop(f)
  <2>1. \A k \in 0 .. count : k # 0 =>
          step[f[k - 1]] = next_unused_object(objects, avoided, f[k - 1])
    <3> SUFFICES ASSUME NEW k \in 0 .. count, k # 0
                 PROVE  step[f[k - 1]] = next_unused_object(objects, avoided, f[k - 1])
      OBVIOUS
    <3>1. k - 1 \in 0 .. count
      OBVIOUS
    <3>2. f[k - 1] \in D
      BY <1>5, <3>1
    <3> QED BY <1>4, <3>2
  <2> QED BY <1>5, <2>1 DEF LoopStep
<1>7. draw = Loop(draw)
  <2> HIDE DEF Loop
  <2> QED BY <1>6
<1> HIDE DEF draw
<1>8. draw[0] \in Drawn(w, avoided, 0)
  <2>1. draw[0] = [cursor |-> cursor, drawn |-> <<>>]
    BY <1>7 DEF start
  <2>2. <<>> \in Seq(HotObjects(w)) /\ Len(<<>>) = 0
    OBVIOUS
  <2>3. IsInjective(<<>>) /\ ToSet(<<>>) = {}
    BY DEF IsInjective, ToSet
  <2> QED BY <2>1, <2>2, <2>3 DEF Drawn
<1>9. \A k \in 1 .. count :
        draw[k - 1] \in Drawn(w, avoided, k - 1) => draw[k] \in Drawn(w, avoided, k)
  <2> SUFFICES ASSUME NEW k \in 1 .. count, draw[k - 1] \in Drawn(w, avoided, k - 1)
               PROVE  draw[k] \in Drawn(w, avoided, k)
    OBVIOUS
  <2>1. draw[k] = next_unused_object(objects, avoided, draw[k - 1])
    BY <1>7
  <2>2. PICK m \in Nat : m = k - 1 /\ m + 1 = k
    OBVIOUS
  <2>3. Cardinality(avoided) \in Nat /\ Len(objects) \in Nat
    BY FS_Subset, FS_CardinalityType DEF SizesFit, IsShuffle
  <2>4. Cardinality(avoided) + m < Len(objects)
    BY <2>2, <2>3
  <2>5. next_unused_object(objects, avoided, draw[k - 1]) \in Drawn(w, avoided, m + 1)
    BY <2>2, <2>4, DrawOne
  <2> QED BY <2>1, <2>2, <2>5
<1> DEFINE Good == {k \in Nat : k <= count => draw[k] \in Drawn(w, avoided, k)}
<1>10. \A n \in Nat : (\A m \in Nat : m < n => m \in Good) => n \in Good
  <2> SUFFICES ASSUME NEW n \in Nat, \A m \in Nat : m < n => m \in Good, n <= count
               PROVE  draw[n] \in Drawn(w, avoided, n)
    OBVIOUS
  <2>1. CASE n = 0
    BY <1>8, <2>1
  <2>2. CASE n # 0
    <3>1. n - 1 \in Nat /\ n - 1 < n /\ n - 1 <= count /\ n \in 1 .. count
      BY <2>2
    <3>2. draw[n - 1] \in Drawn(w, avoided, n - 1)
      BY <3>1
    <3> QED BY <1>9, <3>1, <3>2
  <2> QED BY <2>1, <2>2
<1>11. Nat \subseteq Good
  <2> HIDE DEF Good
  <2> QED BY <1>10, NoLeastCounterexample
<1> QED BY <1>1, <1>11

-----------------------------------------------------------------------------
(* A churned layout *)

\* The r objects drawn after the first a.
DrawnPart(drawn, a, r) == {drawn[i] : i \in a + 1 .. a + r}

\* What a segment becomes that keeps a prefix and is filled up with them.
Refilled(s, r, drawn, a) == SubSeq(s, 1, Len(s) - r) \o SubSeq(drawn, a + 1, a + r)

\* It is a segment again, and new in it is what was drawn.
LEMMA RefilledIsSegment ==
  ASSUME NEW w, NEW n \in Nat, NEW s \in Segments(w, n), NEW r \in 0 .. n,
         NEW drawn \in Seq(HotObjects(w)), IsInjective(drawn),
         NEW a \in Nat, a + r <= Len(drawn), ToSet(drawn) \cap ToSet(s) = {}
  PROVE  /\ Refilled(s, r, drawn, a) \in Segments(w, n)
         /\ ToSet(Refilled(s, r, drawn, a)) \subseteq ToSet(s) \cup DrawnPart(drawn, a, r)
         /\ DrawnPart(drawn, a, r) \subseteq ToSet(Refilled(s, r, drawn, a))
<1>1. /\ s \in Seq(HotObjects(w)) /\ Len(s) = n /\ DOMAIN s = 1 .. n
      /\ \A i \in 1 .. n : s[i] \in HotObjects(w) /\ s[i] \in ToSet(s)
      /\ \A i, j \in 1 .. n : s[i] = s[j] => i = j
  BY DEF Segments, IsInjective, ToSet
<1>2. PICK L \in Nat : L = Len(drawn) /\ DOMAIN drawn = 1 .. L
  OBVIOUS
<1>3. /\ \A i \in 1 .. L : drawn[i] \in HotObjects(w) /\ drawn[i] \in ToSet(drawn)
      /\ \A i, j \in 1 .. L : drawn[i] = drawn[j] => i = j
  BY <1>2 DEF IsInjective, ToSet
<1>4. PICK k \in 0 .. n : k = n - r
  OBVIOUS
<1>5. PICK p : p = SubSeq(s, 1, k)
  OBVIOUS
<1>6. /\ p \in Seq(HotObjects(w)) /\ Len(p) = k
      /\ \A i \in 1 .. k : p[i] = s[i]
  BY <1>1, <1>4, <1>5
<1>7. PICK q : q = SubSeq(drawn, a + 1, a + r)
  OBVIOUS
<1>8. /\ q \in Seq(HotObjects(w)) /\ Len(q) = r
      /\ \A i \in 1 .. r : q[i] = drawn[a + i]
  <2>1. PICK b \in Nat, c \in Nat :
          b = a + 1 /\ c = a + r /\ 1 <= b /\ c <= L /\ b <= c + 1 /\ c - b + 1 = r
    BY <1>2
  <2>2. q = SubSeq(drawn, b, c)
    BY <1>7, <2>1
  <2>3. q \in Seq(HotObjects(w)) /\ Len(q) = r
    BY <1>2, <1>3, <2>1, <2>2
  <2>4. \A i \in 1 .. r : q[i] = drawn[b + i - 1] /\ b + i - 1 = a + i
    BY <1>2, <1>3, <2>1, <2>2
  <2> QED BY <2>3, <2>4
<1>9. PICK t : t = p \o q
  OBVIOUS
<1>10. /\ t \in Seq(HotObjects(w)) /\ Len(t) = n /\ DOMAIN t = 1 .. n
       /\ \A i \in 1 .. k : t[i] = s[i]
       /\ \A i \in k + 1 .. n : t[i] = drawn[a + (i - k)]
  <2>1. t \in Seq(HotObjects(w)) /\ Len(t) = k + r /\ k + r = n
    <3>1. p \in Seq(HotObjects(w)) /\ q \in Seq(HotObjects(w))
      BY <1>6, <1>8
    <3>2. t \in Seq(HotObjects(w))
      BY <1>9, <3>1
    <3>3. Len(t) = Len(p) + Len(q)
      BY <1>9, <3>1
    <3> QED BY <1>4, <1>6, <1>8, <3>2, <3>3
  <2>2. \A i \in 1 .. k : t[i] = s[i]
    BY <1>4, <1>6, <1>8, <1>9
  <2>3. \A i \in k + 1 .. n : t[i] = q[i - k] /\ i - k \in 1 .. r
    BY <1>4, <1>6, <1>8, <1>9, <2>1
  <2>4. \A i \in k + 1 .. n : t[i] = drawn[a + (i - k)]
    <3> SUFFICES ASSUME NEW i \in k + 1 .. n
                 PROVE  t[i] = drawn[a + (i - k)]
      OBVIOUS
    <3>1. i - k \in 1 .. r /\ t[i] = q[i - k]
      BY <2>3
    <3> QED BY <1>8, <3>1
  <2>5. DOMAIN t = 1 .. n
    BY <1>4, <2>1
  <2> QED BY <2>1, <2>2, <2>4, <2>5
<1>11. Refilled(s, r, drawn, a) = t
  BY <1>1, <1>4, <1>5, <1>7, <1>9 DEF Refilled
<1>12. \A i \in k + 1 .. n : a + (i - k) \in a + 1 .. a + r /\ a + (i - k) \in 1 .. L
  BY <1>2, <1>4
<1>13. \A i, j \in 1 .. n : t[i] = t[j] => i = j
  <2> SUFFICES ASSUME NEW i \in 1 .. n, NEW j \in 1 .. n, t[i] = t[j]
               PROVE  i = j
    OBVIOUS
  <2>1. (i \in 1 .. k \/ i \in k + 1 .. n) /\ (j \in 1 .. k \/ j \in k + 1 .. n)
    BY <1>4
  <2>2. CASE i \in 1 .. k /\ j \in 1 .. k
    BY <1>1, <1>4, <1>10, <2>2
  <2>3. CASE i \in k + 1 .. n /\ j \in k + 1 .. n
    <3>1. a + (i - k) = a + (j - k)
      BY <1>3, <1>10, <1>12, <2>3
    <3> QED BY <1>4, <3>1
  <2>4. \A x \in 1 .. k, y \in k + 1 .. n : t[x] # t[y]
    <3> SUFFICES ASSUME NEW x \in 1 .. k, NEW y \in k + 1 .. n PROVE t[x] # t[y]
      OBVIOUS
    <3>1. t[x] \in ToSet(s) /\ x \in 1 .. n
      BY <1>1, <1>4, <1>10
    <3>2. t[y] \in ToSet(drawn)
      BY <1>3, <1>10, <1>12
    <3> QED BY <3>1, <3>2
  <2> QED BY <2>1, <2>2, <2>3, <2>4
<1>14. t \in Segments(w, n)
  BY <1>10, <1>13 DEF Segments, IsInjective
<1>15. ToSet(t) \subseteq ToSet(s) \cup DrawnPart(drawn, a, r)
  <2> SUFFICES ASSUME NEW i \in 1 .. n
               PROVE  t[i] \in ToSet(s) \cup DrawnPart(drawn, a, r)
    BY <1>10 DEF ToSet
  <2>1. CASE i \in 1 .. k
    BY <1>1, <1>4, <1>10, <2>1
  <2>2. CASE i \in k + 1 .. n
    BY <1>10, <1>12, <2>2 DEF DrawnPart
  <2> QED BY <1>4, <2>1, <2>2
<1>16. DrawnPart(drawn, a, r) \subseteq ToSet(t)
  <2> SUFFICES ASSUME NEW i \in a + 1 .. a + r PROVE drawn[i] \in ToSet(t)
    BY DEF DrawnPart
  <2>1. PICK m \in k + 1 .. n : a + (m - k) = i
    <3>1. k + (i - a) \in k + 1 .. n /\ a + ((k + (i - a)) - k) = i
      BY <1>4
    <3> QED BY <3>1
  <2>2. t[m] = drawn[i]
    BY <1>10, <2>1
  <2>3. m \in DOMAIN t
    BY <1>4, <1>10
  <2> QED BY <2>2, <2>3 DEF ToSet
<1> QED BY <1>11, <1>14, <1>15, <1>16

\* Parts drawn one behind the other have no object in common, and each has as many
\* as were drawn.
LEMMA DrawnPartsDiffer ==
  ASSUME NEW X, NEW drawn \in Seq(X), IsInjective(drawn),
         NEW a \in Nat, NEW r \in Nat, a + r <= Len(drawn)
  PROVE  /\ DrawnPart(drawn, a, r) \subseteq ToSet(drawn)
         /\ IsFiniteSet(DrawnPart(drawn, a, r)) /\ Cardinality(DrawnPart(drawn, a, r)) = r
         /\ \A b, q \in Nat : a + r <= b /\ b + q <= Len(drawn)
              => DrawnPart(drawn, a, r) \cap DrawnPart(drawn, b, q) = {}
<1>1. PICK L \in Nat : L = Len(drawn) /\ DOMAIN drawn = 1 .. L
  OBVIOUS
<1>2. \A i, j \in 1 .. L : drawn[i] = drawn[j] => i = j
  BY <1>1 DEF IsInjective
<1>3. DrawnPart(drawn, a, r) \subseteq ToSet(drawn)
  BY <1>1 DEF DrawnPart, ToSet
<1>4. PICK s : s = [i \in 1 .. r |-> drawn[a + i]]
  OBVIOUS
<1>5. /\ s \in [1 .. r -> X] /\ \A i \in 1 .. r : s[i] = drawn[a + i] /\ a + i \in 1 .. L
  <2>1. \A i \in 1 .. r : a + i \in 1 .. L
    BY <1>1
  <2> QED BY <1>1, <1>4, <2>1
<1>6. IsInjective(s)
  <2> SUFFICES ASSUME NEW i \in 1 .. r, NEW j \in 1 .. r, s[i] = s[j] PROVE i = j
    BY <1>5 DEF IsInjective
  <2>1. a + i = a + j
    BY <1>2, <1>5
  <2> QED BY <2>1
<1>7. ToSet(s) = DrawnPart(drawn, a, r)
  <2>1. ToSet(s) \subseteq DrawnPart(drawn, a, r)
    <3> SUFFICES ASSUME NEW i \in 1 .. r PROVE s[i] \in DrawnPart(drawn, a, r)
      BY <1>5 DEF ToSet
    <3>1. a + i \in a + 1 .. a + r
      OBVIOUS
    <3> QED BY <1>5, <3>1 DEF DrawnPart
  <2>2. DrawnPart(drawn, a, r) \subseteq ToSet(s)
    <3> SUFFICES ASSUME NEW i \in a + 1 .. a + r PROVE drawn[i] \in ToSet(s)
      BY DEF DrawnPart
    <3>1. i - a \in 1 .. r /\ a + (i - a) = i
      OBVIOUS
    <3> QED BY <1>5, <3>1 DEF ToSet
  <2> QED BY <2>1, <2>2
<1>8. IsFiniteSet(ToSet(s)) /\ Cardinality(ToSet(s)) = r
  BY <1>5, <1>6, ElementsCounted
<1>9. ASSUME NEW b \in Nat, NEW q \in Nat, a + r <= b, b + q <= L
      PROVE  DrawnPart(drawn, a, r) \cap DrawnPart(drawn, b, q) = {}
  <2> SUFFICES ASSUME NEW i \in a + 1 .. a + r, NEW j \in b + 1 .. b + q,
                      drawn[i] = drawn[j]
               PROVE  FALSE
    BY DEF DrawnPart
  <2>1. i \in 1 .. L /\ j \in 1 .. L /\ i < j
    BY <1>1, <1>9
  <2> QED BY <1>2, <2>1
<1> QED BY <1>1, <1>3, <1>7, <1>8, <1>9

\* The elements of a hot set are those of its two segments.
LEMMA HotSetElements ==
  ASSUME NEW w, NEW a \in Nat, NEW b \in Nat, NEW s \in Segments(w, a), NEW t \in Segments(w, b)
  PROVE  /\ s \o t \in Seq(HotObjects(w)) /\ Len(s \o t) = a + b
         /\ ToSet(s \o t) = ToSet(s) \cup ToSet(t)
<1>1. s \in Seq(HotObjects(w)) /\ t \in Seq(HotObjects(w)) /\ Len(s) = a /\ Len(t) = b
  BY DEF Segments
<1>2. PICK u : u = s \o t
  OBVIOUS
<1>3. u \in Seq(HotObjects(w)) /\ Len(u) = Len(s) + Len(t)
  <2>1. s \in Seq(HotObjects(w)) /\ t \in Seq(HotObjects(w))
    BY <1>1
  <2>2. u \in Seq(HotObjects(w))
    BY <1>2, <2>1
  <2>3. Len(u) = Len(s) + Len(t)
    BY <1>2, <2>1
  <2> QED BY <2>2, <2>3
<1>4. DOMAIN s = 1 .. a /\ DOMAIN t = 1 .. b /\ DOMAIN u = 1 .. a + b
  BY <1>1, <1>3
<1>5. \A i \in 1 .. a : u[i] = s[i]
  BY <1>1, <1>2
<1>6. \A i \in a + 1 .. a + b : u[i] = t[i - a]
  <2> SUFFICES ASSUME NEW i \in a + 1 .. a + b PROVE u[i] = t[i - a]
    OBVIOUS
  <2>1. i \in 1 .. Len(s) + Len(t) /\ i > Len(s)
    BY <1>1
  <2>2. s \in Seq(HotObjects(w)) /\ t \in Seq(HotObjects(w))
    BY <1>1
  <2>3. u[i] = t[i - Len(s)]
    BY <1>2, <2>1, <2>2
  <2> QED BY <1>1, <2>3
<1>7. ToSet(u) \subseteq ToSet(s) \cup ToSet(t)
  <2> SUFFICES ASSUME NEW i \in 1 .. a + b PROVE u[i] \in ToSet(s) \cup ToSet(t)
    BY <1>4 DEF ToSet
  <2>1. CASE i \in 1 .. a
    BY <1>4, <1>5, <2>1 DEF ToSet
  <2>2. CASE i \in a + 1 .. a + b
    <3>1. i - a \in 1 .. b
      BY <2>2
    <3> QED BY <1>4, <1>6, <2>2, <3>1 DEF ToSet
  <2> QED BY <2>1, <2>2
<1>8. ToSet(s) \subseteq ToSet(u)
  <2> SUFFICES ASSUME NEW i \in 1 .. a PROVE s[i] \in ToSet(u)
    BY <1>4 DEF ToSet
  <2>1. i \in 1 .. a + b
    OBVIOUS
  <2> QED BY <1>4, <1>5, <2>1 DEF ToSet
<1>9. ToSet(t) \subseteq ToSet(u)
  <2> SUFFICES ASSUME NEW i \in 1 .. b PROVE t[i] \in ToSet(u)
    BY <1>4 DEF ToSet
  <2>1. PICK m \in a + 1 .. a + b : m - a = i
    <3>1. a + i \in a + 1 .. a + b /\ (a + i) - a = i
      OBVIOUS
    <3> QED BY <3>1
  <2>2. u[m] = t[i] /\ m \in 1 .. a + b
    BY <1>6, <2>1
  <2> QED BY <1>4, <2>2 DEF ToSet
<1> QED BY <1>1, <1>2, <1>3, <1>7, <1>8, <1>9

\* Every hot set of a layout is made of its two segments.
LEMMA LayoutElements ==
  ASSUME NEW w, SizesFit(w), NEW g, IsLayout(w, g)
  PROVE  /\ \A n \in 1 .. w.node_count :
              /\ hot_set_for_node(g, n) \in Seq(HotObjects(w))
              /\ ToSet(hot_set_for_node(g, n)) =
                   ToSet(g.shared_hot_objects) \cup ToSet(g.private_hot_objects_by_node[n])
         /\ all_hot_objects(g) \subseteq HotObjects(w)
         /\ \A n \in 1 .. w.node_count :
              ToSet(hot_set_for_node(g, n)) \subseteq all_hot_objects(g)
<1>1. shared_hot_object_count(w) \in Nat /\ private_hot_object_count(w) \in Nat
  BY DEF SizesFit
<1>2. \A n \in 1 .. w.node_count :
        /\ hot_set_for_node(g, n) \in Seq(HotObjects(w))
        /\ ToSet(hot_set_for_node(g, n)) =
             ToSet(g.shared_hot_objects) \cup ToSet(g.private_hot_objects_by_node[n])
  BY <1>1, HotSetElements DEF IsLayout, hot_set_for_node
<1>3. \A n \in 1 .. w.node_count : ToSet(hot_set_for_node(g, n)) \subseteq HotObjects(w)
  <2> SUFFICES ASSUME NEW n \in 1 .. w.node_count
               PROVE  ToSet(hot_set_for_node(g, n)) \subseteq HotObjects(w)
    OBVIOUS
  <2>1. PICK s \in Seq(HotObjects(w)) : s = hot_set_for_node(g, n)
    BY <1>2
  <2>2. ToSet(s) \subseteq HotObjects(w)
    BY DEF ToSet
  <2> QED BY <2>1, <2>2
<1>4. DOMAIN g.private_hot_objects_by_node = 1 .. w.node_count
  BY DEF IsLayout
<1> QED BY <1>2, <1>3, <1>4 DEF all_hot_objects

\* A layout has no more hot objects than an epoch requires.
LEMMA LayoutSize ==
  ASSUME NEW w, SizesFit(w), NEW g, IsLayout(w, g)
  PROVE  /\ IsFiniteSet(all_hot_objects(g))
         /\ Cardinality(all_hot_objects(g)) <= required_hot_objects_per_epoch(w)
<1>1. PICK N \in Nat, S \in Nat, P \in Nat :
        /\ N = w.node_count /\ S = shared_hot_object_count(w)
        /\ P = private_hot_object_count(w)
  BY DEF SizesFit
<1>2. PICK shared : /\ shared = ToSet(g.shared_hot_objects)
                    /\ IsFiniteSet(shared) /\ Cardinality(shared) <= S
                    /\ Cardinality(shared) \in Nat
  BY <1>1, ElementsCounted DEF IsLayout, Segments
<1>3. PICK A : A = [n \in 1 .. N |-> ToSet(g.private_hot_objects_by_node[n])]
  OBVIOUS
<1>4. \A n \in 1 .. N : /\ IsFiniteSet(A[n]) /\ Cardinality(A[n]) <= P
                        /\ Cardinality(A[n]) \in Nat
  BY <1>1, <1>3, ElementsCounted DEF IsLayout, Segments
<1> DEFINE Upto(k) == shared \cup UNION {A[n] : n \in 1 .. k}
           Good == {k \in Nat : k <= N => /\ IsFiniteSet(Upto(k))
                                          /\ Cardinality(Upto(k)) <= S + P * k}
<1>5. \A k \in Nat : (\A m \in Nat : m < k => m \in Good) => k \in Good
  <2> SUFFICES ASSUME NEW k \in Nat, \A m \in Nat : m < k => m \in Good, k <= N
               PROVE  IsFiniteSet(Upto(k)) /\ Cardinality(Upto(k)) <= S + P * k
    OBVIOUS
  <2>1. CASE k = 0
    <3>1. Upto(0) = shared
      OBVIOUS
    <3> HIDE DEF Upto
    <3> QED BY <1>1, <1>2, <2>1, <3>1
  <2>2. CASE k # 0
    <3>1. PICK m \in Nat : m = k - 1 /\ k = m + 1 /\ m < k /\ m <= N /\ k \in 1 .. N
      BY <2>2
    <3>2. Upto(k) = Upto(m) \cup A[k]
      <4>1. 1 .. k = (1 .. m) \cup {k}
        BY <3>1
      <4> QED BY <4>1
    <3>3. m \in Good
      BY <3>1
    <3>4. IsFiniteSet(Upto(m)) /\ Cardinality(Upto(m)) <= S + P * m
      BY <3>1, <3>3
    <3> HIDE DEF Upto, Good
    <3>5. /\ IsFiniteSet(Upto(k))
          /\ Cardinality(Upto(k)) =
               Cardinality(Upto(m)) + Cardinality(A[k]) - Cardinality(Upto(m) \cap A[k])
      BY <1>4, <3>1, <3>2, <3>4, FS_Union
    <3>6. Cardinality(Upto(m)) \in Nat /\ Cardinality(Upto(m) \cap A[k]) \in Nat
      BY <3>4, FS_Subset, FS_CardinalityType
    <3>7. P * k = P * m + P /\ P * m \in Nat
      BY <3>1
    <3>8. Cardinality(A[k]) <= P /\ Cardinality(A[k]) \in Nat
      BY <1>4, <3>1
    <3> QED BY <1>1, <3>4, <3>5, <3>6, <3>7, <3>8
  <2> QED BY <2>1, <2>2
<1>6. Nat \subseteq Good
  <2> HIDE DEF Good
  <2> QED BY <1>5, NoLeastCounterexample
<1>7. IsFiniteSet(Upto(N)) /\ Cardinality(Upto(N)) <= S + P * N
  BY <1>1, <1>6
<1>8. all_hot_objects(g) \subseteq Upto(N)
  <2> SUFFICES ASSUME NEW n \in 1 .. N
               PROVE  ToSet(hot_set_for_node(g, n)) \subseteq Upto(N)
    BY <1>1 DEF all_hot_objects, IsLayout
  <2>1. ToSet(hot_set_for_node(g, n)) = shared \cup A[n]
    BY <1>1, <1>2, <1>3, LayoutElements
  <2> QED BY <2>1
<1>9. required_hot_objects_per_epoch(w) = S + P * N
  BY <1>1 DEF required_hot_objects_per_epoch
<1> HIDE DEF Upto
<1>10. /\ IsFiniteSet(all_hot_objects(g))
       /\ Cardinality(all_hot_objects(g)) <= Cardinality(Upto(N))
  BY <1>7, <1>8, FS_Subset
<1>11. Cardinality(all_hot_objects(g)) \in Nat /\ Cardinality(Upto(N)) \in Nat /\ P * N \in Nat
  BY <1>1, <1>7, <1>10, FS_CardinalityType
<1> QED BY <1>1, <1>7, <1>9, <1>10, <1>11

\* What churn replaces in the shared segment and in a private one.
SharedReplaced(w) ==
  replacement_count(shared_hot_object_count(w), effective_hot_set_churn_fraction(w))

PrivateReplaced(w) ==
  replacement_count(private_hot_object_count(w), effective_hot_set_churn_fraction(w))

\* The drawn objects before those of node n.
DrawnBefore(w, n) == SharedReplaced(w) + (n - 1) * PrivateReplaced(w)

\* They are enough for an epoch.
EnoughDrawn(w, drawn) ==
  /\ drawn \in Seq(HotObjects(w)) /\ IsInjective(drawn)
  /\ Len(drawn) = total_replacements_per_epoch(w)

\* Where the drawn objects of each segment begin, and that they end in time.
LEMMA DrawnPlaces ==
  ASSUME NEW w, SizesFit(w), NEW drawn, EnoughDrawn(w, drawn)
  PROVE  /\ SharedReplaced(w) \in 0 .. shared_hot_object_count(w)
         /\ PrivateReplaced(w) \in 0 .. private_hot_object_count(w)
         /\ SharedReplaced(w) <= Len(drawn)
         /\ \A n \in 1 .. w.node_count :
              /\ DrawnBefore(w, n) \in Nat /\ SharedReplaced(w) <= DrawnBefore(w, n)
              /\ DrawnBefore(w, n) + PrivateReplaced(w) <= Len(drawn)
              /\ SharedReplaced(w) + n * PrivateReplaced(w)
                   = DrawnBefore(w, n) + PrivateReplaced(w)
              /\ \A m \in 1 .. w.node_count :
                   m < n => DrawnBefore(w, m) + PrivateReplaced(w) <= DrawnBefore(w, n)
<1>1. PICK N \in Nat, S \in Nat, P \in Nat :
        /\ N = w.node_count /\ S = shared_hot_object_count(w)
        /\ P = private_hot_object_count(w)
  BY DEF SizesFit
<1>2. PICK f \in 0 .. WholeHotSet : f = effective_hot_set_churn_fraction(w)
  BY DEF SizesFit
<1>3. PICK r \in 0 .. S, q \in 0 .. P : r = SharedReplaced(w) /\ q = PrivateReplaced(w)
  <2>1. replacement_count(S, f) \in 0 .. S
    BY ReplacementBounds
  <2>2. replacement_count(P, f) \in 0 .. P
    BY ReplacementBounds
  <2> QED BY <1>1, <1>2, <2>1, <2>2 DEF SharedReplaced, PrivateReplaced
<1>4. Len(drawn) = r + q * N /\ q * N \in Nat
  <2>1. total_replacements_per_epoch(w) = r + q * N
    BY <1>1, <1>3 DEF total_replacements_per_epoch, SharedReplaced, PrivateReplaced
  <2>2. q * N \in Nat
    BY <1>1, <1>3
  <2> QED BY <2>1, <2>2 DEF EnoughDrawn
<1>5. \A n \in 1 .. N : DrawnBefore(w, n) = r + (n - 1) * q
  BY <1>3 DEF DrawnBefore
<1>6. ASSUME NEW n \in 1 .. N
      PROVE  /\ DrawnBefore(w, n) \in Nat /\ r <= DrawnBefore(w, n)
             /\ DrawnBefore(w, n) + q <= Len(drawn)
             /\ r + n * q = DrawnBefore(w, n) + q
             /\ \A m \in 1 .. N : m < n => DrawnBefore(w, m) + q <= DrawnBefore(w, n)
  <2>1. PICK x \in Nat : /\ x = (n - 1) * q /\ n * q = x + q /\ n * q <= q * N
                         /\ \A m \in 1 .. N : m < n => m * q <= x
    BY <1>3, BlocksFollow
  <2>2. DrawnBefore(w, n) = r + x
    BY <1>5, <2>1
  <2>3. \A m \in 1 .. N : m < n => DrawnBefore(w, m) + q <= DrawnBefore(w, n)
    <3> SUFFICES ASSUME NEW m \in 1 .. N, m < n
                 PROVE  DrawnBefore(w, m) + q <= DrawnBefore(w, n)
      OBVIOUS
    <3>1. PICK y \in Nat : y = (m - 1) * q /\ m * q = y + q
      BY <1>3, BlocksFollow
    <3>2. DrawnBefore(w, m) = r + y
      BY <1>5, <3>1
    <3>3. y + q <= x
      BY <2>1, <3>1
    <3> QED BY <1>3, <2>2, <3>2, <3>3
  <2>4. r \in Nat /\ q \in Nat /\ x + q <= q * N
    BY <1>3, <2>1
  <2>5. DrawnBefore(w, n) + q <= Len(drawn)
    BY <1>4, <2>2, <2>4
  <2>6. r + n * q = DrawnBefore(w, n) + q
    BY <2>1, <2>2, <2>4
  <2>7. DrawnBefore(w, n) \in Nat /\ r <= DrawnBefore(w, n)
    BY <2>2, <2>4
  <2> QED BY <2>3, <2>5, <2>6, <2>7
<1> QED BY <1>1, <1>3, <1>4, <1>6

\* churn_hot_set_segments refills each segment with its part of what was drawn.
LEMMA FillRefills ==
  ASSUME NEW w, SizesFit(w), NEW g, IsLayout(w, g), NEW drawn, EnoughDrawn(w, drawn),
         NEW h, h = FillSegments(g, effective_hot_set_churn_fraction(w), drawn)
  PROVE  /\ h.shared_hot_objects = Refilled(g.shared_hot_objects, SharedReplaced(w), drawn, 0)
         /\ DOMAIN h.private_hot_objects_by_node = 1 .. w.node_count
         /\ \A n \in 1 .. w.node_count :
              h.private_hot_objects_by_node[n] =
                Refilled(g.private_hot_objects_by_node[n], PrivateReplaced(w), drawn,
                         DrawnBefore(w, n))
<1> DEFINE f == effective_hot_set_churn_fraction(w)
           private == g.private_hot_objects_by_node
<1>1. /\ Len(g.shared_hot_objects) = shared_hot_object_count(w)
      /\ \A n \in 1 .. w.node_count : Len(private[n]) = private_hot_object_count(w)
      /\ DOMAIN private = 1 .. w.node_count
  BY DEF IsLayout, Segments, SizesFit
<1>2. /\ replacement_count(Len(g.shared_hot_objects), f) = SharedReplaced(w)
      /\ \A n \in 1 .. w.node_count :
           replacement_count(Len(private[n]), f) = PrivateReplaced(w)
  BY <1>1 DEF SharedReplaced, PrivateReplaced
<1>3. /\ h.shared_hot_objects =
           keep_prefix_for_churn(g.shared_hot_objects, f) \o SubSeq(drawn, 1, SharedReplaced(w))
      /\ DOMAIN h.private_hot_objects_by_node = 1 .. w.node_count
      /\ \A n \in 1 .. w.node_count :
           h.private_hot_objects_by_node[n] =
             keep_prefix_for_churn(private[n], f)
               \o SubSeq(drawn, SharedReplaced(w) + (n - 1) * PrivateReplaced(w) + 1,
                         SharedReplaced(w) + n * PrivateReplaced(w))
  BY <1>1, <1>2 DEF FillSegments
<1>4. h.shared_hot_objects = Refilled(g.shared_hot_objects, SharedReplaced(w), drawn, 0)
  <2>1. SharedReplaced(w) \in Nat
    BY DrawnPlaces
  <2>2. 0 + 1 = 1 /\ 0 + SharedReplaced(w) = SharedReplaced(w)
    BY <2>1
  <2> QED BY <1>2, <1>3, <2>2 DEF Refilled, keep_prefix_for_churn
<1>5. ASSUME NEW n \in 1 .. w.node_count
      PROVE  h.private_hot_objects_by_node[n] =
               Refilled(private[n], PrivateReplaced(w), drawn, DrawnBefore(w, n))
  <2>1. SharedReplaced(w) + n * PrivateReplaced(w) = DrawnBefore(w, n) + PrivateReplaced(w)
    BY DrawnPlaces
  <2>2. SharedReplaced(w) + (n - 1) * PrivateReplaced(w) = DrawnBefore(w, n)
    BY DEF DrawnBefore
  <2> QED BY <1>2, <1>3, <2>1, <2>2 DEF Refilled, keep_prefix_for_churn
<1> QED BY <1>3, <1>4, <1>5

\* The drawn objects that are new for node n.
NewFor(w, drawn, n) ==
  DrawnPart(drawn, 0, SharedReplaced(w))
    \cup DrawnPart(drawn, DrawnBefore(w, n), PrivateReplaced(w))

\* With objects that were hot nowhere it is a layout again, and each hot set has new
\* just those drawn for it.
LEMMA ChurnIsLayout ==
  ASSUME NEW w, SizesFit(w), NEW g, IsLayout(w, g), NEW drawn, EnoughDrawn(w, drawn),
         ToSet(drawn) \cap all_hot_objects(g) = {},
         NEW h, h = FillSegments(g, effective_hot_set_churn_fraction(w), drawn)
  PROVE  /\ IsLayout(w, h)
         /\ \A n \in 1 .. w.node_count :
              ToSet(hot_set_for_node(h, n)) \ ToSet(hot_set_for_node(g, n))
                = NewFor(w, drawn, n)
<1>1. PICK N \in Nat, S \in Nat, P \in Nat :
        /\ N = w.node_count /\ S = shared_hot_object_count(w)
        /\ P = private_hot_object_count(w)
  BY DEF SizesFit
<1>2. PICK r \in 0 .. S, q \in 0 .. P :
        /\ r = SharedReplaced(w) /\ q = PrivateReplaced(w) /\ r <= Len(drawn)
        /\ \A n \in 1 .. N :
             /\ DrawnBefore(w, n) \in Nat /\ r <= DrawnBefore(w, n)
             /\ DrawnBefore(w, n) + q <= Len(drawn)
             /\ \A m \in 1 .. N : m < n => DrawnBefore(w, m) + q <= DrawnBefore(w, n)
  BY <1>1, DrawnPlaces
<1>3. PICK shared, private, from :
        /\ shared = g.shared_hot_objects /\ private = g.private_hot_objects_by_node
        /\ from = [n \in 1 .. N |-> DrawnBefore(w, n)]
  OBVIOUS
<1>4. /\ shared \in Segments(w, S)
      /\ \A n \in 1 .. N : /\ private[n] \in Segments(w, P)
                           /\ ToSet(shared) \cap ToSet(private[n]) = {}
                           /\ \A m \in 1 .. N : m # n =>
                                ToSet(private[m]) \cap ToSet(private[n]) = {}
  BY <1>1, <1>3 DEF IsLayout
<1>5. /\ drawn \in Seq(HotObjects(w)) /\ IsInjective(drawn) /\ Len(drawn) \in Nat
      /\ ToSet(drawn) \cap ToSet(shared) = {}
      /\ \A n \in 1 .. N : /\ ToSet(drawn) \cap ToSet(private[n]) = {}
                           /\ ToSet(drawn) \cap ToSet(hot_set_for_node(g, n)) = {}
  <2>1. drawn \in Seq(HotObjects(w)) /\ IsInjective(drawn) /\ Len(drawn) \in Nat
    BY DEF EnoughDrawn
  <2>2. \A n \in 1 .. N : /\ ToSet(hot_set_for_node(g, n)) \subseteq all_hot_objects(g)
                          /\ ToSet(hot_set_for_node(g, n)) = ToSet(shared) \cup ToSet(private[n])
    BY <1>1, <1>3, LayoutElements
  <2>3. 1 \in 1 .. N
    BY <1>1 DEF SizesFit
  <2> QED BY <2>1, <2>2, <2>3
<1>6. PICK shared2 : /\ shared2 = h.shared_hot_objects
                     /\ shared2 = Refilled(shared, r, drawn, 0)
  BY <1>2, <1>3, FillRefills
<1>7. PICK private2 : /\ private2 = h.private_hot_objects_by_node
                      /\ DOMAIN private2 = 1 .. N
                      /\ \A n \in 1 .. N :
                           private2[n] = Refilled(private[n], q, drawn, from[n])
  BY <1>1, <1>2, <1>3, FillRefills
<1>8. \A n \in 1 .. N : /\ from[n] \in Nat /\ r <= from[n] /\ from[n] + q <= Len(drawn)
                        /\ \A m \in 1 .. N : m < n => from[m] + q <= from[n]
  BY <1>2, <1>3
<1>9. PICK A, B : /\ A = DrawnPart(drawn, 0, r)
                  /\ B = [n \in 1 .. N |-> DrawnPart(drawn, from[n], q)]
  OBVIOUS
<1>10. /\ A \subseteq ToSet(drawn)
       /\ \A n \in 1 .. N : A \cap B[n] = {}
  <2>1. A \subseteq ToSet(drawn)
    BY <1>2, <1>5, <1>9, DrawnPartsDiffer
  <2>2. \A b, p \in Nat : r <= b /\ b + p <= Len(drawn) => A \cap DrawnPart(drawn, b, p) = {}
    <3>1. \A b, p \in Nat : 0 + r <= b /\ b + p <= Len(drawn)
            => DrawnPart(drawn, 0, r) \cap DrawnPart(drawn, b, p) = {}
      <4>1. r \in Nat /\ 0 \in Nat /\ 0 + r <= Len(drawn)
        BY <1>2
      <4> QED BY <1>5, <4>1, DrawnPartsDiffer
    <3>2. 0 + r = r
      BY <1>2
    <3> QED BY <1>9, <3>1, <3>2
  <2>3. q \in Nat
    BY <1>2
  <2> QED BY <1>8, <1>9, <2>1, <2>2, <2>3
<1>11. \A n \in 1 .. N : /\ B[n] \subseteq ToSet(drawn)
                         /\ \A m \in 1 .. N : m # n => B[n] \cap B[m] = {}
  <2>1. \A n \in 1 .. N : B[n] \subseteq ToSet(drawn)
    BY <1>2, <1>5, <1>8, <1>9, DrawnPartsDiffer
  <2>2. \A n, m \in 1 .. N : m < n => B[m] \cap B[n] = {}
    <3> SUFFICES ASSUME NEW n \in 1 .. N, NEW m \in 1 .. N, m < n PROVE B[m] \cap B[n] = {}
      OBVIOUS
    <3>1. PICK a \in Nat, b \in Nat, p \in Nat :
            /\ a = from[m] /\ b = from[n] /\ p = q /\ a + p <= b /\ b + p <= Len(drawn)
            /\ a + p <= Len(drawn)
      <4>1. /\ from[m] \in Nat /\ from[n] \in Nat /\ q \in Nat /\ Len(drawn) \in Nat
            /\ from[m] + q <= from[n] /\ from[n] + q <= Len(drawn)
            /\ from[m] + q <= Len(drawn)
        BY <1>2, <1>5, <1>8
      <4> QED BY <4>1
    <3>2. DrawnPart(drawn, a, p) \cap DrawnPart(drawn, b, p) = {}
      BY <1>5, <3>1, DrawnPartsDiffer
    <3> QED BY <1>9, <3>1, <3>2
  <2>3. ASSUME NEW n \in 1 .. N, NEW m \in 1 .. N, m # n PROVE B[n] \cap B[m] = {}
    <3>1. m < n \/ n < m
      BY <2>3
    <3> QED BY <2>2, <3>1
  <2> QED BY <2>1, <2>3
<1>12. /\ shared2 \in Segments(w, S) /\ A \subseteq ToSet(shared2)
       /\ ToSet(shared2) \subseteq ToSet(shared) \cup A
  <2>1. 0 + r <= Len(drawn) /\ 0 \in Nat
    BY <1>2
  <2> QED BY <1>2, <1>4, <1>5, <1>6, <1>9, <2>1, RefilledIsSegment
<1>13. \A n \in 1 .. N : /\ private2[n] \in Segments(w, P) /\ B[n] \subseteq ToSet(private2[n])
                         /\ ToSet(private2[n]) \subseteq ToSet(private[n]) \cup B[n]
  <2> SUFFICES ASSUME NEW n \in 1 .. N
               PROVE  /\ private2[n] \in Segments(w, P) /\ B[n] \subseteq ToSet(private2[n])
                      /\ ToSet(private2[n]) \subseteq ToSet(private[n]) \cup B[n]
    OBVIOUS
  <2>1. PICK s \in Segments(w, P), a \in Nat :
          /\ s = private[n] /\ a = from[n] /\ a + q <= Len(drawn)
          /\ ToSet(drawn) \cap ToSet(s) = {}
    BY <1>4, <1>5, <1>8
  <2>2. private2[n] = Refilled(s, q, drawn, a) /\ B[n] = DrawnPart(drawn, a, q)
    BY <1>7, <1>9, <2>1
  <2> QED BY <1>5, <2>1, <2>2, RefilledIsSegment
<1>14. IsLayout(w, h)
  <2>1. \A n \in 1 .. N : ToSet(shared2) \cap ToSet(private2[n]) = {}
    <3> SUFFICES ASSUME NEW n \in 1 .. N PROVE ToSet(shared2) \cap ToSet(private2[n]) = {}
      OBVIOUS
    <3> QED BY <1>4, <1>5, <1>10, <1>11, <1>12, <1>13
  <2>2. \A n, m \in 1 .. N : m # n => ToSet(private2[m]) \cap ToSet(private2[n]) = {}
    <3> SUFFICES ASSUME NEW n \in 1 .. N, NEW m \in 1 .. N, m # n
                 PROVE  ToSet(private2[m]) \cap ToSet(private2[n]) = {}
      OBVIOUS
    <3> QED BY <1>4, <1>5, <1>11, <1>13
  <2> QED BY <1>1, <1>6, <1>7, <1>12, <1>13, <2>1, <2>2 DEF IsLayout
<1>15. ASSUME NEW n \in 1 .. N
       PROVE  ToSet(hot_set_for_node(h, n)) \ ToSet(hot_set_for_node(g, n))
                = NewFor(w, drawn, n)
  <2>1. ToSet(hot_set_for_node(h, n)) = ToSet(shared2) \cup ToSet(private2[n])
    <3>1. n \in 1 .. w.node_count
      BY <1>1
    <3>2. ToSet(hot_set_for_node(h, n)) =
            ToSet(h.shared_hot_objects) \cup ToSet(h.private_hot_objects_by_node[n])
      BY <1>14, <3>1, LayoutElements
    <3> QED BY <1>6, <1>7, <3>2
  <2>2. ToSet(hot_set_for_node(g, n)) = ToSet(shared) \cup ToSet(private[n])
    BY <1>1, <1>3, LayoutElements
  <2>3. NewFor(w, drawn, n) = A \cup B[n]
    BY <1>2, <1>3, <1>9 DEF NewFor
  <2> QED BY <1>5, <1>10, <1>11, <1>12, <1>13, <2>1, <2>2, <2>3
<1> QED BY <1>1, <1>14, <1>15

-----------------------------------------------------------------------------
(* What the properties say of an epoch, and of two epochs in a row *)

\* The hot sets of a layout.
HotSetsOf(w, g) == [n \in 1 .. w.node_count |-> hot_set_for_node(g, n)]

\* HotSetsKeepTheirShape, of one epoch.
EpochShape(w, epoch) ==
  LET hot(n) == ToSet(epoch[n])
      common == {o \in hot(1) : \A n \in 1 .. w.node_count : o \in hot(n)}
  IN \A n, m \in 1 .. w.node_count :
       /\ Cardinality(hot(n)) = w.hot_set_size
       /\ n # m => /\ hot(n) \cap hot(m) = common
                   /\ Cardinality(common) = shared_hot_object_count(w)
       /\ w.hot_object_channel_count > 0 =>
            \A o \in hot(n) :
              memory_channel_for_object(o, w.memory_channel_count)
                < w.hot_object_channel_count

\* ChurnBringsNewObjects, of an epoch and the one before it.
EpochChurn(w, old, new) ==
  \A n \in 1 .. w.node_count :
    LET before == UNION {ToSet(old[m]) : m \in 1 .. w.node_count}
        fresh == ToSet(new[n]) \ ToSet(old[n])
        asked == w.hot_set_size * effective_hot_set_churn_fraction(w)
    IN /\ fresh \cap before = {}
       /\ WholeHotSet * Cardinality(fresh) \in asked .. asked + 2 * (WholeHotSet - 1)

\* Every layout has the shape: the segments have their sizes and nothing in common.
LEMMA LayoutHasShape ==
  ASSUME NEW w, SizesFit(w), NEW g, IsLayout(w, g)
  PROVE  EpochShape(w, HotSetsOf(w, g))
<1>1. PICK N \in Nat \ {0}, S \in Nat, P \in Nat :
        /\ N = w.node_count /\ S = shared_hot_object_count(w)
        /\ P = private_hot_object_count(w) /\ S + P = w.hot_set_size
  BY DEF SizesFit
<1>2. PICK A, B, e : /\ A = ToSet(g.shared_hot_objects)
                     /\ B = [n \in 1 .. N |-> ToSet(g.private_hot_objects_by_node[n])]
                     /\ e = HotSetsOf(w, g)
  OBVIOUS
<1>3. \A n \in 1 .. N : /\ A \cap B[n] = {}
                        /\ \A m \in 1 .. N : m # n => B[m] \cap B[n] = {}
  BY <1>1, <1>2 DEF IsLayout
<1>4. IsFiniteSet(A) /\ Cardinality(A) = S
  BY <1>1, <1>2, ElementsCounted DEF IsLayout, Segments
<1>5. \A n \in 1 .. N : IsFiniteSet(B[n]) /\ Cardinality(B[n]) = P
  BY <1>1, <1>2, ElementsCounted DEF IsLayout, Segments
<1>6. \A n \in 1 .. N : ToSet(e[n]) = A \cup B[n] /\ ToSet(e[n]) \subseteq HotObjects(w)
  <2> SUFFICES ASSUME NEW n \in 1 .. N
               PROVE  ToSet(e[n]) = A \cup B[n] /\ ToSet(e[n]) \subseteq HotObjects(w)
    OBVIOUS
  <2>1. e[n] = hot_set_for_node(g, n)
    BY <1>1, <1>2 DEF HotSetsOf
  <2>2. n \in 1 .. w.node_count
    BY <1>1
  <2>3. ToSet(hot_set_for_node(g, n)) =
          ToSet(g.shared_hot_objects) \cup ToSet(g.private_hot_objects_by_node[n])
    BY <2>2, LayoutElements
  <2>4. /\ ToSet(hot_set_for_node(g, n)) \subseteq all_hot_objects(g)
        /\ all_hot_objects(g) \subseteq HotObjects(w)
    BY <2>2, LayoutElements
  <2> QED BY <1>2, <2>1, <2>3, <2>4
<1>7. \A n \in 1 .. N : Cardinality(A \cup B[n]) = S + P
  <2> SUFFICES ASSUME NEW n \in 1 .. N PROVE Cardinality(A \cup B[n]) = S + P
    OBVIOUS
  <2>1. Cardinality(A \cup B[n]) =
          Cardinality(A) + Cardinality(B[n]) - Cardinality(A \cap B[n])
    BY <1>4, <1>5, FS_Union
  <2>2. Cardinality(A \cap B[n]) = 0
    BY <1>3, FS_EmptySet
  <2> QED BY <1>4, <1>5, <2>1, <2>2
<1> DEFINE common == {o \in ToSet(e[1]) : \A n \in 1 .. N : o \in ToSet(e[n])}
<1>8. ASSUME NEW n \in 1 .. N, NEW m \in 1 .. N, n # m
      PROVE  ToSet(e[n]) \cap ToSet(e[m]) = A /\ common = A
  <2>1. ToSet(e[n]) \cap ToSet(e[m]) = A
    BY <1>3, <1>6, <1>8
  <2>2. 1 \in 1 .. N
    BY <1>1
  <2>3. A \subseteq common
    BY <1>6, <2>2
  <2>4. common \subseteq A
    BY <2>1
  <2> QED BY <2>1, <2>3, <2>4
<1>9. ASSUME NEW o \in HotObjects(w), w.hot_object_channel_count > 0
      PROVE  memory_channel_for_object(o, w.memory_channel_count) < w.hot_object_channel_count
  <2>1. w.hot_object_channel_count # 0
    BY <1>9
  <2> QED BY <2>1 DEF HotObjects, OnHotChannel
<1> HIDE DEF common
<1>10. \A n, m \in 1 .. N :
         /\ Cardinality(ToSet(e[n])) = w.hot_set_size
         /\ n # m => /\ ToSet(e[n]) \cap ToSet(e[m]) = common
                     /\ Cardinality(common) = S
         /\ w.hot_object_channel_count > 0 =>
              \A o \in ToSet(e[n]) :
                memory_channel_for_object(o, w.memory_channel_count)
                  < w.hot_object_channel_count
  <2>1. \A n \in 1 .. N : Cardinality(ToSet(e[n])) = w.hot_set_size
    BY <1>1, <1>6, <1>7
  <2> QED BY <1>4, <1>6, <1>8, <1>9, <2>1
<1>11. PICK c : /\ c = common
                /\ c = {o \in ToSet(e[1]) : \A n \in 1 .. w.node_count : o \in ToSet(e[n])}
  BY <1>1 DEF common
<1>12. \A n, m \in 1 .. w.node_count :
         /\ Cardinality(ToSet(e[n])) = w.hot_set_size
         /\ n # m => /\ ToSet(e[n]) \cap ToSet(e[m]) = c
                     /\ Cardinality(c) = shared_hot_object_count(w)
         /\ w.hot_object_channel_count > 0 =>
              \A o \in ToSet(e[n]) :
                memory_channel_for_object(o, w.memory_channel_count)
                  < w.hot_object_channel_count
  BY <1>1, <1>10, <1>11
<1>13. EpochShape(w, e)
  BY <1>11, <1>12 DEF EpochShape
<1> QED BY <1>2, <1>13

\* The bounds of the segments add up to those of the hot set.
LEMMA ReplacedBounds ==
  ASSUME NEW w, SizesFit(w)
  PROVE  LET asked == w.hot_set_size * effective_hot_set_churn_fraction(w)
         IN WholeHotSet * (SharedReplaced(w) + PrivateReplaced(w))
              \in asked .. asked + 2 * (WholeHotSet - 1)
<1>1. PICK h \in Nat, S \in Nat, P \in Nat :
        /\ h = w.hot_set_size /\ S = shared_hot_object_count(w)
        /\ P = private_hot_object_count(w) /\ S + P = h
  BY DEF SizesFit
<1>2. PICK f \in 0 .. WholeHotSet : f = effective_hot_set_churn_fraction(w)
  BY DEF SizesFit
<1>3. PICK W \in Nat \ {0} : W = WholeHotSet
  BY WholeHotSetAssumption
<1>4. PICK r \in Nat, q \in Nat :
        /\ r = SharedReplaced(w) /\ q = PrivateReplaced(w)
        /\ W * r \in S * f .. S * f + (W - 1)
        /\ W * q \in P * f .. P * f + (W - 1)
  <2>1. /\ replacement_count(S, f) \in 0 .. S
        /\ WholeHotSet * replacement_count(S, f) \in S * f .. S * f + (WholeHotSet - 1)
    BY ReplacementBounds
  <2>2. /\ replacement_count(P, f) \in 0 .. P
        /\ WholeHotSet * replacement_count(P, f) \in P * f .. P * f + (WholeHotSet - 1)
    BY ReplacementBounds
  <2>3. /\ SharedReplaced(w) = replacement_count(S, f)
        /\ PrivateReplaced(w) = replacement_count(P, f)
    BY <1>1, <1>2 DEF SharedReplaced, PrivateReplaced
  <2> QED BY <1>3, <2>1, <2>2, <2>3
<1>5. PICK x \in Nat, y \in Nat, u \in Nat, v \in Nat :
        x = S * f /\ y = P * f /\ u = W * r /\ v = W * q
  BY <1>2, <1>3
<1>6. h * f = x + y
  BY <1>1, <1>2, <1>3, <1>5
<1>7. W * (r + q) = u + v
  BY <1>3, <1>4, <1>5
<1>8. u >= x /\ u <= x + (W - 1) /\ v >= y /\ v <= y + (W - 1)
  BY <1>3, <1>4, <1>5
<1>9. u + v \in x + y .. x + y + 2 * (W - 1)
  BY <1>3, <1>8
<1> QED BY <1>1, <1>2, <1>3, <1>4, <1>6, <1>7, <1>9

\* Partial churn brings as many new objects as asked for, hot nowhere before.
LEMMA ChurnBringsNew ==
  ASSUME NEW w, SizesFit(w), NEW g, IsLayout(w, g), NEW drawn, EnoughDrawn(w, drawn),
         ToSet(drawn) \cap all_hot_objects(g) = {},
         NEW h, h = FillSegments(g, effective_hot_set_churn_fraction(w), drawn)
  PROVE  EpochChurn(w, HotSetsOf(w, g), HotSetsOf(w, h))
<1>1. PICK old, new : old = HotSetsOf(w, g) /\ new = HotSetsOf(w, h)
  OBVIOUS
<1>2. PICK N \in Nat : N = w.node_count
  BY DEF SizesFit
<1>3. PICK before : before = UNION {ToSet(old[m]) : m \in 1 .. N}
  OBVIOUS
<1>4. before \subseteq all_hot_objects(g)
  <2>1. \A m \in 1 .. N : ToSet(old[m]) \subseteq all_hot_objects(g)
    BY <1>1, <1>2, LayoutElements DEF HotSetsOf
  <2> QED BY <1>3, <2>1
<1>5. ASSUME NEW n \in 1 .. N
      PROVE  /\ (ToSet(new[n]) \ ToSet(old[n])) \cap before = {}
             /\ Cardinality(ToSet(new[n]) \ ToSet(old[n]))
                  = SharedReplaced(w) + PrivateReplaced(w)
  <2>1. PICK r \in Nat, q \in Nat, b \in Nat :
          /\ r = SharedReplaced(w) /\ q = PrivateReplaced(w) /\ b = DrawnBefore(w, n)
          /\ r <= b /\ b + q <= Len(drawn) /\ 0 + r <= Len(drawn) /\ 0 + r <= b
    <3>1. /\ SharedReplaced(w) \in 0 .. shared_hot_object_count(w)
          /\ PrivateReplaced(w) \in 0 .. private_hot_object_count(w)
          /\ SharedReplaced(w) <= Len(drawn)
      BY DrawnPlaces
    <3>2. /\ DrawnBefore(w, n) \in Nat /\ SharedReplaced(w) <= DrawnBefore(w, n)
          /\ DrawnBefore(w, n) + PrivateReplaced(w) <= Len(drawn)
      BY <1>2, DrawnPlaces
    <3> QED BY <3>1, <3>2
  <2>2. PICK A, B : A = DrawnPart(drawn, 0, r) /\ B = DrawnPart(drawn, b, q)
    OBVIOUS
  <2>3. /\ drawn \in Seq(HotObjects(w)) /\ IsInjective(drawn)
    BY DEF EnoughDrawn
  <2>4. /\ A \subseteq ToSet(drawn) /\ IsFiniteSet(A) /\ Cardinality(A) = r
        /\ A \cap B = {}
    BY <2>1, <2>2, <2>3, DrawnPartsDiffer
  <2>5. B \subseteq ToSet(drawn) /\ IsFiniteSet(B) /\ Cardinality(B) = q
    BY <2>1, <2>2, <2>3, DrawnPartsDiffer
  <2>6. Cardinality(A \cup B) = r + q
    <3>1. Cardinality(A \cup B) = Cardinality(A) + Cardinality(B) - Cardinality(A \cap B)
      BY <2>4, <2>5, FS_Union
    <3>2. Cardinality(A \cap B) = 0
      BY <2>4, FS_EmptySet
    <3> QED BY <2>1, <2>4, <2>5, <3>1, <3>2
  <2>7. ToSet(new[n]) \ ToSet(old[n]) = A \cup B
    <3>1. n \in 1 .. w.node_count
      BY <1>2
    <3>2. ToSet(hot_set_for_node(h, n)) \ ToSet(hot_set_for_node(g, n)) = NewFor(w, drawn, n)
      BY <3>1, ChurnIsLayout
    <3>3. old[n] = hot_set_for_node(g, n) /\ new[n] = hot_set_for_node(h, n)
      BY <1>1, <3>1 DEF HotSetsOf
    <3> QED BY <2>1, <2>2, <3>2, <3>3 DEF NewFor
  <2> QED BY <1>4, <2>1, <2>4, <2>5, <2>6, <2>7
<1>6. WholeHotSet * (SharedReplaced(w) + PrivateReplaced(w))
        \in w.hot_set_size * effective_hot_set_churn_fraction(w) ..
            w.hot_set_size * effective_hot_set_churn_fraction(w) + 2 * (WholeHotSet - 1)
  BY ReplacedBounds
<1>7. ASSUME NEW n \in 1 .. w.node_count
      PROVE  LET fresh == ToSet(new[n]) \ ToSet(old[n])
                 asked == w.hot_set_size * effective_hot_set_churn_fraction(w)
             IN /\ fresh \cap before = {}
                /\ WholeHotSet * Cardinality(fresh) \in asked .. asked + 2 * (WholeHotSet - 1)
  BY <1>2, <1>5, <1>6
<1>8. before = UNION {ToSet(old[m]) : m \in 1 .. w.node_count}
  BY <1>2, <1>3
<1>9. EpochChurn(w, old, new)
  BY <1>7, <1>8 DEF EpochChurn
<1> QED BY <1>1, <1>9

\* Without churn an epoch is the one before it.
LEMMA StaticBringsNothing ==
  ASSUME NEW w, SizesFit(w), effective_hot_set_churn_fraction(w) = 0, NEW epoch
  PROVE  EpochChurn(w, epoch, epoch)
<1>1. PICK h \in Nat, W \in Nat \ {0} : h = w.hot_set_size /\ W = WholeHotSet
  BY WholeHotSetAssumption DEF SizesFit
<1>2. h * 0 = 0 /\ W * 0 = 0 /\ 0 \in 0 .. 0 + 2 * (W - 1)
  BY <1>1
<1>3. Cardinality({}) = 0
  BY FS_EmptySet
<1>4. \A n : ToSet(epoch[n]) \ ToSet(epoch[n]) = {}
  OBVIOUS
<1> QED BY <1>1, <1>2, <1>3, <1>4 DEF EpochChurn

-----------------------------------------------------------------------------
(* The generation loop *)

\* Every epoch so far has the shape, the latest is the current layout, and what the
\* loop never gets to is an exception.
HotSetInv ==
  /\ validate_synthetic_workload_config(workload)
  /\ IsShuffle(workload, candidates)
  /\ object_cursor \in Nat
  /\ epochs \in Seq([WorkloadNodes -> Seq(HotObjects(workload))])
  /\ Len(epochs) <= workload.epoch_count
  /\ outcome \in {"generating", "generated"}
  /\ outcome = "generated" => Len(epochs) = workload.epoch_count
  /\ epochs # <<>> => /\ IsLayout(workload, hot_set_segments)
                      /\ epochs[Len(epochs)] = HotSetsOf(workload, hot_set_segments)
  /\ \A k \in 1 .. Len(epochs) : EpochShape(workload, epochs[k])
  /\ Churn < WholeHotSet =>
       \A k \in 2 .. Len(epochs) : EpochChurn(workload, epochs[k - 1], epochs[k])

\* Before the first epoch there is only the shuffle.
LEMMA HotSetsBegin ==
  ASSUME Init
  PROVE  HotSetInv
<1>1. validate_synthetic_workload_config(workload)
  BY DEF Init
<1>2. SizesFit(workload)
  BY <1>1, AcceptedSizesFit
<1>3. PICK n \in Nat : n = Cardinality(HotObjects(workload))
                       /\ n = eligible_hot_object_count(workload)
  BY <1>2 DEF SizesFit
<1>4. /\ candidates \in [1 .. n -> HotObjects(workload)]
      /\ \A i, j \in 1 .. n : i # j => candidates[i] # candidates[j]
  BY <1>3 DEF Init, SetToSeqs, HotObjects
<1>5. IsShuffle(workload, candidates)
  <2>1. candidates \in Seq(HotObjects(workload)) /\ Len(candidates) = n
    BY <1>4
  <2>2. IsInjective(candidates)
    BY <1>4 DEF IsInjective
  <2> QED BY <1>3, <2>1, <2>2 DEF IsShuffle
<1>6. epochs = <<>> /\ object_cursor = 0 /\ outcome = "generating"
  BY DEF Init
<1>7. epochs \in Seq([WorkloadNodes -> Seq(HotObjects(workload))]) /\ Len(epochs) = 0
  BY <1>6
<1>8. workload.epoch_count \in Nat
  BY <1>1 DEF validate_synthetic_workload_config, SyntheticWorkloadConfig
<1> QED BY <1>1, <1>5, <1>6, <1>7, <1>8 DEF HotSetInv

\* What an iteration does to the layout keeps the invariant, if it makes a layout
\* and, below full churn, brings what it should.
LEMMA EmitKeeps ==
  ASSUME HotSetInv, Iterating, EmitEpoch, object_cursor' \in Nat,
         IsLayout(workload, hot_set_segments'),
         Churn < WholeHotSet /\ epochs # <<>> =>
           EpochChurn(workload, HotSetsOf(workload, hot_set_segments),
                      HotSetsOf(workload, hot_set_segments'))
  PROVE  HotSetInv'
<1>1. PICK w, g, e : /\ w = workload /\ g = hot_set_segments'
                     /\ e = HotSetsOf(workload, hot_set_segments')
  OBVIOUS
<1>2. PICK n \in Nat : n = Len(epochs)
  BY DEF HotSetInv
<1>3. SizesFit(w)
  BY <1>1, AcceptedSizesFit DEF HotSetInv
<1>4. workload' = w /\ candidates' = candidates /\ outcome' = outcome
      /\ epochs' = Append(epochs, e)
  BY <1>1 DEF EmitEpoch, HotSetsOf, WorkloadNodes
<1>5. n < w.epoch_count /\ outcome = "generating" /\ w.epoch_count \in Nat
  BY <1>1, <1>2 DEF Iterating, epoch_id, HotSetInv, validate_synthetic_workload_config,
     SyntheticWorkloadConfig
<1>6. e \in [1 .. w.node_count -> Seq(HotObjects(w))]
  <2>1. \A m \in 1 .. w.node_count : hot_set_for_node(g, m) \in Seq(HotObjects(w))
    BY <1>1, <1>3, LayoutElements
  <2> QED BY <1>1, <2>1 DEF HotSetsOf
<1>7. PICK X : X = [1 .. w.node_count -> Seq(HotObjects(w))]
  OBVIOUS
<1>8. epochs \in Seq(X)
  BY <1>1, <1>7 DEF HotSetInv, WorkloadNodes
<1>9. PICK after : after = Append(epochs, e)
  OBVIOUS
<1>10. /\ after \in Seq(X) /\ Len(after) = n + 1 /\ after # <<>>
       /\ after[n + 1] = e /\ \A k \in 1 .. n : after[k] = epochs[k]
  BY <1>2, <1>6, <1>7, <1>8, <1>9
<1>11. EpochShape(w, e)
  BY <1>1, <1>3, LayoutHasShape
<1>12. \A k \in 1 .. n + 1 : EpochShape(w, after[k])
  <2> SUFFICES ASSUME NEW k \in 1 .. n + 1 PROVE EpochShape(w, after[k])
    OBVIOUS
  <2>1. CASE k = n + 1
    BY <1>10, <1>11, <2>1
  <2>2. CASE k \in 1 .. n
    <3>1. EpochShape(w, epochs[k])
      BY <1>1, <1>2, <2>2 DEF HotSetInv
    <3> QED BY <1>10, <2>2, <3>1
  <2> QED BY <2>1, <2>2
<1>13. ASSUME Churn < WholeHotSet, NEW k \in 2 .. n + 1
       PROVE  EpochChurn(w, after[k - 1], after[k])
  <2>1. CASE k = n + 1
    <3>1. n \in 1 .. n /\ k - 1 = n /\ epochs # <<>>
      BY <1>2, <2>1
    <3>2. epochs[n] = HotSetsOf(workload, hot_set_segments)
      BY <1>2, <3>1 DEF HotSetInv
    <3>3. EpochChurn(w, epochs[n], e)
      BY <1>1, <1>13, <3>1, <3>2
    <3> QED BY <1>10, <2>1, <3>1, <3>3
  <2>2. CASE k \in 2 .. n
    <3>1. EpochChurn(w, epochs[k - 1], epochs[k])
      BY <1>1, <1>2, <1>13, <2>2 DEF HotSetInv
    <3>2. k - 1 \in 1 .. n /\ k \in 1 .. n
      BY <2>2
    <3> QED BY <1>10, <3>1, <3>2
  <2> QED BY <2>1, <2>2
<1>14. Churn' = effective_hot_set_churn_fraction(w) /\ Churn = effective_hot_set_churn_fraction(w)
  BY <1>1, <1>4 DEF Churn
<1>15. /\ validate_synthetic_workload_config(w) /\ IsShuffle(w, candidates)
  BY <1>1 DEF HotSetInv
<1>16. workload' = w /\ candidates' = candidates /\ outcome' = outcome /\ epochs' = after
       /\ hot_set_segments' = g
  BY <1>1, <1>4, <1>9
<1>17. WorkloadNodes' = 1 .. w.node_count
  BY <1>16 DEF WorkloadNodes
<1>18. /\ n + 1 <= w.epoch_count /\ e = HotSetsOf(w, g) /\ IsLayout(w, g)
  BY <1>1, <1>5
<1>19. /\ \A k \in 1 .. Len(epochs') : EpochShape(w, epochs'[k])
       /\ Churn' < WholeHotSet =>
            \A k \in 2 .. Len(epochs') : EpochChurn(w, epochs'[k - 1], epochs'[k])
  BY <1>10, <1>12, <1>13, <1>14, <1>16
<1> QED BY <1>5, <1>7, <1>10, <1>15, <1>16, <1>17, <1>18, <1>19 DEF HotSetInv

\* The first layout and the full shifts take a run of objects wherever they begin.
LEMMA AllocateKeeps ==
  ASSUME HotSetInv, FirstLayout \/ FullShift
  PROVE  HotSetInv'
<1>1. SizesFit(workload)
  BY AcceptedSizesFit DEF HotSetInv
<1>2. PICK start \in Nat : AllocateFrom(start)
  <2>1. CASE FirstLayout
    BY <2>1 DEF FirstLayout, HotSetInv
  <2>2. CASE FullShift
    <3>1. PICK r \in Nat, n \in Nat \ {0}, k \in Nat :
            /\ r = required_hot_objects_per_epoch(workload) /\ n = Len(candidates)
            /\ k = epoch_id
      <4>1. /\ required_hot_objects_per_epoch(workload) \in Nat \ {0}
            /\ required_hot_objects_per_epoch(workload) <= Len(candidates)
            /\ Len(candidates) \in Nat
        BY <1>1 DEF SizesFit, HotSetInv, IsShuffle
      <4>2. epoch_id \in Nat
        BY DEF epoch_id, HotSetInv
      <4> QED BY <4>1, <4>2
    <3>2. k * r \in Nat
      OBVIOUS
    <3>3. (k * r) % n \in Nat
      BY <3>2
    <3> QED BY <2>2, <3>1, <3>3 DEF FullShift
  <2> QED BY <2>1, <2>2
<1>3. IsLayout(workload, hot_set_segments')
  <2>1. IsShuffle(workload, candidates)
    BY DEF HotSetInv
  <2>2. hot_set_segments' = allocate_hot_set_segments(workload, candidates, start)
    BY <1>2 DEF AllocateFrom
  <2> QED BY <1>1, <2>1, <2>2, AllocationIsLayout
<1>4. object_cursor' \in Nat
  BY <1>1, <1>2 DEF AllocateFrom, SizesFit
<1>5. Iterating /\ EmitEpoch
  BY <1>2 DEF FirstLayout, FullShift, AllocateFrom
<1>6. ~ (Churn < WholeHotSet /\ epochs # <<>>)
  <2>1. CASE FirstLayout
    <3>1. Len(epochs) = 0 /\ epochs \in Seq([WorkloadNodes -> Seq(HotObjects(workload))])
      BY <2>1 DEF FirstLayout, epoch_id, HotSetInv
    <3> QED BY <3>1
  <2>2. CASE FullShift
    <3>1. Churn >= WholeHotSet /\ Churn \in Nat /\ WholeHotSet \in Nat
      BY <1>1, <2>2, WholeHotSetAssumption DEF FullShift, SizesFit, Churn
    <3> QED BY <3>1
  <2> QED BY <2>1, <2>2
<1> QED BY <1>3, <1>4, <1>5, <1>6, EmitKeeps

\* A churned layout has objects enough, so that it never throws.
LEMMA ChurnKeeps ==
  ASSUME HotSetInv, ChurnLayout
  PROVE  HotSetInv'
<1>1. SizesFit(workload) /\ IsShuffle(workload, candidates) /\ object_cursor \in Nat
  BY AcceptedSizesFit DEF HotSetInv
<1>2. /\ Iterating /\ epoch_id > 0 /\ PartialChurn(workload)
  BY DEF ChurnLayout
<1>3. epochs # <<>> /\ IsLayout(workload, hot_set_segments)
  <2>1. epochs # <<>>
    BY <1>2 DEF epoch_id
  <2> QED BY <2>1 DEF HotSetInv
<1>4. PICK w, objects, g : w = workload /\ objects = candidates /\ g = hot_set_segments
  OBVIOUS
<1>5. PICK count \in Nat : count = total_replacements_per_epoch(w)
  BY <1>1, <1>4 DEF SizesFit
<1>6. PICK avoided \in SUBSET HotObjects(w) :
        /\ avoided = all_hot_objects(g) /\ IsFiniteSet(avoided)
        /\ Cardinality(avoided) <= required_hot_objects_per_epoch(w)
        /\ Cardinality(avoided) \in Nat
  BY <1>1, <1>3, <1>4, LayoutElements, LayoutSize, FS_CardinalityType
<1>7. Cardinality(avoided) + count <= Len(objects) /\ Len(objects) # 0
  <2>1. PICK r \in Nat \ {0}, n \in Nat :
          /\ r = required_hot_objects_per_epoch(w) /\ n = eligible_hot_object_count(w)
          /\ r + count <= n /\ Len(objects) = n
    BY <1>1, <1>2, <1>4, <1>5 DEF SizesFit, IsShuffle
  <2> QED BY <1>6, <2>1
<1>8. PICK draws \in Drawn(w, avoided, count) :
        draws = NextUnusedObjects(objects, object_cursor, avoided, count)
  BY <1>1, <1>4, <1>6, <1>7, DrawsSucceed
<1>9. /\ draws.cursor \in Nat /\ EnoughDrawn(w, draws.drawn)
      /\ Len(draws.drawn) = count /\ ToSet(draws.drawn) \cap all_hot_objects(g) = {}
  BY <1>5, <1>6, <1>8 DEF Drawn, EnoughDrawn
<1>10. /\ object_cursor' = draws.cursor
       /\ hot_set_segments' = FillSegments(g, effective_hot_set_churn_fraction(w), draws.drawn)
       /\ EmitEpoch
  BY <1>4, <1>5, <1>6, <1>8, <1>9 DEF ChurnLayout, Churn
<1>11. PICK h : h = FillSegments(g, effective_hot_set_churn_fraction(w), draws.drawn)
  OBVIOUS
<1>12. IsLayout(w, h)
  BY <1>1, <1>3, <1>4, <1>9, <1>11, ChurnIsLayout
<1>13. EpochChurn(w, HotSetsOf(w, g), HotSetsOf(w, h))
  BY <1>1, <1>3, <1>4, <1>9, <1>11, ChurnBringsNew
<1>14. /\ object_cursor' \in Nat /\ IsLayout(workload, hot_set_segments')
       /\ EpochChurn(workload, HotSetsOf(workload, hot_set_segments),
                     HotSetsOf(workload, hot_set_segments'))
  BY <1>4, <1>9, <1>10, <1>11, <1>12, <1>13
<1> QED BY <1>2, <1>10, <1>14, EmitKeeps

\* Without churn the layout stays.
LEMMA KeepKeeps ==
  ASSUME HotSetInv, KeepLayout
  PROVE  HotSetInv'
<1>1. SizesFit(workload)
  BY AcceptedSizesFit DEF HotSetInv
<1>2. /\ Iterating /\ epoch_id > 0 /\ Churn = 0 /\ EmitEpoch
      /\ object_cursor' = object_cursor /\ hot_set_segments' = hot_set_segments
  BY DEF KeepLayout
<1>3. epochs # <<>> /\ IsLayout(workload, hot_set_segments) /\ object_cursor \in Nat
  <2>1. epochs # <<>>
    BY <1>2 DEF epoch_id
  <2> QED BY <2>1 DEF HotSetInv
<1>4. \A epoch : EpochChurn(workload, epoch, epoch)
  BY <1>1, <1>2, StaticBringsNothing DEF Churn
<1>5. IsLayout(workload, hot_set_segments') /\ object_cursor' \in Nat
  BY <1>2, <1>3
<1>6. EpochChurn(workload, HotSetsOf(workload, hot_set_segments),
                 HotSetsOf(workload, hot_set_segments'))
  BY <1>2, <1>4
<1> QED BY <1>2, <1>5, <1>6, EmitKeeps

\* The return, and a stutter, leave the epochs as they are.
LEMMA ReturnKeeps ==
  ASSUME HotSetInv, ReturnWorkload \/ UNCHANGED hotSetVars
  PROVE  HotSetInv'
<1>1. /\ workload' = workload /\ candidates' = candidates /\ object_cursor' = object_cursor
      /\ hot_set_segments' = hot_set_segments /\ epochs' = epochs
      /\ \/ outcome' = outcome
         \/ outcome' = "generated" /\ Len(epochs) = workload.epoch_count
  BY DEF ReturnWorkload, hotSetVars, epoch_id
<1>2. WorkloadNodes' = WorkloadNodes /\ Churn' = Churn
  BY <1>1 DEF WorkloadNodes, Churn
<1> QED BY <1>1, <1>2 DEF HotSetInv

\* The invariant holds of every reachable state.
LEMMA HotSetInvariant == Spec => []HotSetInv
<1>1. Init => HotSetInv
  BY HotSetsBegin
<1>2. HotSetInv /\ [Next]_hotSetVars => HotSetInv'
  BY AllocateKeeps, ChurnKeeps, KeepKeeps, ReturnKeeps DEF Next
<1> QED BY <1>1, <1>2, PTL DEF Spec

\* Through any number of shifts and churns every node has hot_set_size distinct
\* objects on the hot channels, and two nodes share exactly those common to all, as
\* many as the overlap mode says (allocate_hot_set_segments and
\* churn_hot_set_segments in workloads/generators.cpp).
THEOREM ShapeIsKept == Spec => []HotSetsKeepTheirShape
<1>1. HotSetInv => HotSetsKeepTheirShape
  <2> SUFFICES ASSUME HotSetInv PROVE HotSetsKeepTheirShape
    OBVIOUS
  <2>1. \A k \in DOMAIN epochs : EpochShape(workload, epochs[k])
    BY DEF HotSetInv
  <2> QED BY <2>1 DEF HotSetsKeepTheirShape, EpochShape, WorkloadNodes
<1> QED BY <1>1, HotSetInvariant, PTL

\* Below full churn each node trades at least the fraction asked for, by less than an
\* object a segment more, for objects that were hot nowhere in the epoch before
\* (churn_hot_set_segments).
THEOREM ChurnIsFresh == Spec => []ChurnBringsNewObjects
<1>1. HotSetInv => ChurnBringsNewObjects
  <2> SUFFICES ASSUME HotSetInv, Churn < WholeHotSet,
                      NEW k \in 2 .. Len(epochs), NEW n \in WorkloadNodes
               PROVE  LET hot(i, m) == ToSet(epochs[i][m])
                          before == UNION {hot(k - 1, m) : m \in WorkloadNodes}
                          fresh == hot(k, n) \ hot(k - 1, n)
                          asked == workload.hot_set_size * Churn
                      IN /\ fresh \cap before = {}
                         /\ WholeHotSet * Cardinality(fresh)
                              \in asked .. asked + 2 * (WholeHotSet - 1)
    BY DEF ChurnBringsNewObjects
  <2>1. EpochChurn(workload, epochs[k - 1], epochs[k])
    BY DEF HotSetInv
  <2> QED BY <2>1 DEF EpochChurn, WorkloadNodes, Churn
<1> QED BY <1>1, HotSetInvariant, PTL

\* The validation leaves no configuration that would fail in mid-epoch, however far
\* the cursor has moved (next_unused_object), and every epoch asked for is there.
THEOREM AcceptedIsGenerated == Spec => []AcceptedWorkloadsAreGenerated
<1>1. HotSetInv => AcceptedWorkloadsAreGenerated
  BY DEF HotSetInv, AcceptedWorkloadsAreGenerated
<1> QED BY <1>1, HotSetInvariant, PTL
=============================================================================
