---------------------------- MODULE QueueLemmas ----------------------------
(***************************************************************************)
(* What the list operations of uk/compat_list.h (UK_TAILQ_INSERT_TAIL,     *)
(* INSERT_HEAD, REMOVE, FIRST) do to the set of threads on a list and to   *)
(* the fact that no thread is on it twice; and the distance of two indices *)
(* that wrap, as the circular buffers use them.                            *)
(***************************************************************************)
EXTENDS TailQueue, TLAPS

\* Inserting at the tail adds one member; the list stays free of duplicates
\* when the member is new.
LEMMA AppendLemma ==
  ASSUME NEW S, NEW s \in Seq(S), NEW x \in S
  PROVE  /\ Append(s, x) \in Seq(S)
         /\ Range(Append(s, x)) = Range(s) \cup {x}
         /\ IsInjective(s) /\ x \notin Range(s) => IsInjective(Append(s, x))
<1>1. Append(s, x) \in Seq(S)
  OBVIOUS
<1>2. /\ Len(Append(s, x)) = Len(s) + 1
      /\ DOMAIN Append(s, x) = 1..(Len(s) + 1)
      /\ DOMAIN s = 1..Len(s)
      /\ \A i \in 1..Len(s) : Append(s, x)[i] = s[i]
      /\ Append(s, x)[Len(s) + 1] = x
  OBVIOUS
<1>3. Range(Append(s, x)) = Range(s) \cup {x}
  BY <1>2 DEF Range
<1>4. IsInjective(s) /\ x \notin Range(s) => IsInjective(Append(s, x))
  BY <1>2 DEF Range, IsInjective
<1> QED BY <1>1, <1>3, <1>4

\* Inserting at the head, likewise.
LEMMA ConsLemma ==
  ASSUME NEW S, NEW s \in Seq(S), NEW x \in S
  PROVE  /\ TAILQ_INSERT_HEAD(s, x) \in Seq(S)
         /\ Range(TAILQ_INSERT_HEAD(s, x)) = Range(s) \cup {x}
         /\ IsInjective(s) /\ x \notin Range(s) => IsInjective(TAILQ_INSERT_HEAD(s, x))
<1> DEFINE c == <<x>> \o s
<1>1. c \in Seq(S)
  OBVIOUS
<1>2. /\ DOMAIN c = 1..(Len(s) + 1)
      /\ DOMAIN s = 1..Len(s)
      /\ c[1] = x
      /\ \A i \in 1..Len(s) : c[i + 1] = s[i]
  OBVIOUS
<1>3. \A i \in 2..(Len(s) + 1) : i - 1 \in 1..Len(s) /\ c[i] = s[i - 1]
  BY <1>2
<1> HIDE DEF c
<1>4. Range(c) = Range(s) \cup {x}
  <2>1. Range(c) \subseteq Range(s) \cup {x}
    BY <1>2, <1>3 DEF Range
  <2>2. x \in Range(c)
    BY <1>2 DEF Range
  <2>3. Range(s) \subseteq Range(c)
    <3> SUFFICES ASSUME NEW i \in 1..Len(s) PROVE s[i] \in Range(c)
      BY <1>2 DEF Range
    <3> i + 1 \in 1..(Len(s) + 1)
      OBVIOUS
    <3> QED BY <1>2 DEF Range
  <2> QED BY <2>1, <2>2, <2>3
<1>5. IsInjective(s) /\ x \notin Range(s) => IsInjective(c)
  <2> SUFFICES ASSUME IsInjective(s), x \notin Range(s),
                      NEW i \in 1..(Len(s) + 1), NEW j \in 1..(Len(s) + 1),
                      c[i] = c[j]
               PROVE  i = j
    BY <1>2 DEF IsInjective
  <2>1. \A k \in 2..(Len(s) + 1) : c[k] # x
    BY <1>2, <1>3 DEF Range
  <2>2. CASE i = 1 \/ j = 1
    BY <1>2, <2>1, <2>2
  <2>3. CASE i # 1 /\ j # 1
    <3>1. i \in 2..(Len(s) + 1) /\ j \in 2..(Len(s) + 1)
      BY <2>3
    <3>2. s[i - 1] = s[j - 1] /\ i - 1 \in DOMAIN s /\ j - 1 \in DOMAIN s
      BY <1>2, <1>3, <3>1
    <3>3. i - 1 = j - 1
      BY <3>2 DEF IsInjective
    <3> QED BY <3>3
  <2> QED BY <2>2, <2>3
<1> QED BY <1>1, <1>4, <1>5 DEF TAILQ_INSERT_HEAD, c

\* Taking the first element off the list.
LEMMA HeadTailLemma ==
  ASSUME NEW S, NEW s \in Seq(S), s # <<>>, IsInjective(s)
  PROVE  /\ Head(s) \in Range(s) /\ Head(s) \in S
         /\ Tail(s) \in Seq(S)
         /\ Range(Tail(s)) = Range(s) \ {Head(s)}
         /\ IsInjective(Tail(s))
<1>1. /\ Len(s) > 0 /\ Len(s) \in Nat
      /\ Head(s) = s[1] /\ Head(s) \in S
      /\ Tail(s) \in Seq(S)
      /\ DOMAIN s = 1..Len(s)
      /\ DOMAIN Tail(s) = 1..(Len(s) - 1)
      /\ \A i \in 1..(Len(s) - 1) : Tail(s)[i] = s[i + 1]
  OBVIOUS
<1>2. \A i \in 2..Len(s) : i - 1 \in 1..(Len(s) - 1) /\ Tail(s)[i - 1] = s[i]
  BY <1>1
<1>3. IsInjective(Tail(s))
  BY <1>1 DEF IsInjective
<1>4. \A i \in 1..Len(s) : s[i] = s[1] => i = 1
  BY <1>1 DEF IsInjective
<1>5. Range(Tail(s)) \subseteq Range(s) \ {Head(s)}
  <2> SUFFICES ASSUME NEW i \in 1..(Len(s) - 1)
               PROVE  Tail(s)[i] \in Range(s) \ {s[1]}
    BY <1>1 DEF Range
  <2> i + 1 \in 1..Len(s) /\ i + 1 # 1
    BY <1>1
  <2> QED BY <1>1, <1>4 DEF Range
<1>6. Range(s) \ {Head(s)} \subseteq Range(Tail(s))
  <2> SUFFICES ASSUME NEW i \in 1..Len(s), s[i] # s[1]
               PROVE  s[i] \in Range(Tail(s))
    BY <1>1 DEF Range
  <2> i \in 2..Len(s)
    BY <1>1
  <2> QED BY <1>1, <1>2, Zenon DEF Range
<1>7. Head(s) \in Range(s)
  BY <1>1 DEF Range
<1> QED BY <1>1, <1>3, <1>5, <1>6, <1>7

\* Where the elements of a list are once one of them has been unlinked.
LEMMA RemoveShape ==
  ASSUME NEW S, NEW s \in Seq(S), NEW x \in Range(s), IsInjective(s)
  PROVE  \E k \in 1..Len(s) :
           /\ s[k] = x /\ TAILQ_REMOVE(s, x) \in Seq(S)
           /\ DOMAIN TAILQ_REMOVE(s, x) = 1..(Len(s) - 1)
           /\ \A i \in 1..(Len(s) - 1) :
                TAILQ_REMOVE(s, x)[i] = IF i < k THEN s[i] ELSE s[i + 1]
<1> DEFINE k == CHOOSE i \in DOMAIN s : s[i] = x
           r == [i \in 1 .. Len(s) - 1 |-> IF i < k THEN s[i] ELSE s[i + 1]]
<1>0. DOMAIN s = 1..Len(s) /\ Len(s) \in Nat
  OBVIOUS
<1>1. k \in 1..Len(s) /\ s[k] = x
  BY <1>0 DEF Range
<1>2. TAILQ_REMOVE(s, x) = r
  BY DEF TAILQ_REMOVE
<1> HIDE DEF k
<1>3. r \in [1 .. Len(s) - 1 -> S] /\ Len(s) - 1 \in Nat
  BY <1>0, <1>1
<1>4. r \in Seq(S) /\ DOMAIN r = 1 .. Len(s) - 1
  BY <1>3
<1>5. \A i \in 1 .. Len(s) - 1 : r[i] = IF i < k THEN s[i] ELSE s[i + 1]
  OBVIOUS
<1> HIDE DEF r
<1> QED BY <1>1, <1>2, <1>4, <1>5

\* Unlinking an element, wherever on the list it is.
LEMMA RemoveLemma ==
  ASSUME NEW S, NEW s \in Seq(S), NEW x, IsInjective(s)
  PROVE  /\ TAILQ_REMOVE(s, x) \in Seq(S)
         /\ Range(TAILQ_REMOVE(s, x)) = Range(s) \ {x}
         /\ IsInjective(TAILQ_REMOVE(s, x))
<1>0. DOMAIN s = 1..Len(s) /\ Len(s) \in Nat
  OBVIOUS
<1>1. CASE ~ \E i \in 1..Len(s) : s[i] = x
  BY <1>0, <1>1, Zenon DEF TAILQ_REMOVE, Range
<1>2. CASE \E i \in 1..Len(s) : s[i] = x
  <2> DEFINE r == TAILQ_REMOVE(s, x)
  <2>1. PICK k \in 1..Len(s) :
          /\ s[k] = x /\ r \in Seq(S) /\ DOMAIN r = 1..(Len(s) - 1)
          /\ \A i \in 1..(Len(s) - 1) : r[i] = IF i < k THEN s[i] ELSE s[i + 1]
    <3>1. x \in Range(s)
      BY <1>0, <1>2 DEF Range
    <3> QED BY <3>1, RemoveShape
  <2>2. \A i \in 1..Len(s) : s[i] = x => i = k
    BY <1>0, <2>1 DEF IsInjective
  <2>5. r \in Seq(S) /\ DOMAIN r = 1..(Len(s) - 1)
    BY <2>1
  <2>6. \A i \in 1..(Len(s) - 1) : r[i] = IF i < k THEN s[i] ELSE s[i + 1]
    BY <2>1
  <2> HIDE DEF r
  <2>7. IsInjective(r)
    <3> SUFFICES ASSUME NEW i \in 1..(Len(s) - 1), NEW j \in 1..(Len(s) - 1),
                        r[i] = r[j]
                 PROVE  i = j
      BY <2>5 DEF IsInjective
    <3>1. /\ i \in DOMAIN s /\ i + 1 \in DOMAIN s
          /\ j \in DOMAIN s /\ j + 1 \in DOMAIN s
      BY <1>0
    <3>2. \A a, b \in DOMAIN s : s[a] = s[b] => a = b
      BY DEF IsInjective
    <3>3. (IF i < k THEN i ELSE i + 1) = (IF j < k THEN j ELSE j + 1)
      BY <2>6, <3>1, <3>2
    <3> QED BY <1>0, <3>3
  <2>8. Range(r) \subseteq Range(s) \ {x}
    <3> SUFFICES ASSUME NEW i \in 1..(Len(s) - 1) PROVE r[i] \in Range(s) \ {x}
      BY <2>5 DEF Range
    <3>1. i \in 1..Len(s) /\ i + 1 \in 1..Len(s)
      BY <1>0
    <3>2. \A j \in 1..Len(s) : j # k => s[j] \in Range(s) \ {x}
      BY <1>0, <2>2 DEF Range
    <3>3. CASE i < k
      BY <2>6, <3>1, <3>2, <3>3
    <3>4. CASE ~ (i < k)
      <4>1. i + 1 # k
        BY <1>0, <3>4
      <4> QED BY <2>6, <3>1, <3>2, <3>4, <4>1
    <3> QED BY <3>3, <3>4
  <2>9. Range(s) \ {x} \subseteq Range(r)
    <3> SUFFICES ASSUME NEW i \in 1..Len(s), s[i] # x PROVE s[i] \in Range(r)
      BY <1>0 DEF Range
    <3>1. CASE i < k
      <4>1. i \in 1..(Len(s) - 1) /\ r[i] = s[i]
        BY <1>0, <2>6, <3>1
      <4> QED BY <2>5, <4>1 DEF Range
    <3>2. CASE i > k
      <4>1. i - 1 \in 1..(Len(s) - 1) /\ r[i - 1] = s[i]
        BY <1>0, <2>6, <3>2
      <4> QED BY <2>5, <4>1 DEF Range
    <3> QED BY <2>1, <3>1, <3>2
  <2> QED BY <2>5, <2>7, <2>8, <2>9 DEF r
<1> QED BY <1>1, <1>2

-----------------------------------------------------------------------------
(* Indices that run around the ring of a queue.                            *)

\* Remainders, and their value next to the range of the indices.
LEMMA ModRange == ASSUME NEW m \in Nat \ {0}, NEW x \in Int PROVE x % m \in 0 .. m - 1
OBVIOUS

LEMMA ModSmall == ASSUME NEW m \in Nat \ {0}, NEW x \in 0 .. m - 1 PROVE x % m = x
OBVIOUS

LEMMA ModAbove == ASSUME NEW m \in Nat \ {0}, NEW x \in m .. 2 * m - 1 PROVE x % m = x - m
OBVIOUS

LEMMA ModBelow == ASSUME NEW m \in Nat \ {0}, NEW x \in (-m) .. (-1) PROVE x % m = x + m
OBVIOUS

\* The distance of two indices, although both wrap.
LEMMA Distance ==
  ASSUME NEW m \in Nat \ {0}, NEW p \in 0 .. m - 1, NEW c \in 0 .. m - 1
  PROVE  ((p - c) % m) = IF c <= p THEN p - c ELSE p - c + m
<1>1. CASE c <= p
  BY <1>1, ModSmall
<1>2. CASE c > p
  BY <1>2, ModBelow
<1> QED BY <1>1, <1>2

LEMMA IndexStep ==
  ASSUME NEW m \in Nat \ {0}, NEW p \in 0 .. m - 1, NEW n \in 0 .. m - 1
  PROVE  (p + n) % m = IF p + n < m THEN p + n ELSE p + n - m
<1>1. CASE p + n < m
  BY <1>1, ModSmall
<1>2. CASE p + n >= m
  BY <1>2, ModAbove, SMTT(40)
<1> QED BY <1>1, <1>2

\* A producer that advances by n adds n to the distance, if that stays below m; ...
LEMMA Produce ==
  ASSUME NEW m \in Nat \ {0}, NEW p \in 0 .. m - 1, NEW c \in 0 .. m - 1,
         NEW n \in 0 .. m - 1, ((p - c) % m) + n < m
  PROVE  (((p + n) % m) - c) % m = ((p - c) % m) + n
<1> DEFINE q == (p + n) % m
<1>1. q = IF p + n < m THEN p + n ELSE p + n - m
  BY IndexStep, Zenon
<1>2. q \in 0 .. m - 1
  BY <1>1
<1>3. ((p - c) % m) = IF c <= p THEN p - c ELSE p - c + m
  BY Distance
<1>4. (q - c) % m = IF c <= q THEN q - c ELSE q - c + m
  BY <1>2, Distance, Zenon
<1> HIDE DEF q
<1>5. (q - c) % m = ((p - c) % m) + n
  BY <1>1, <1>2, <1>3, <1>4
<1> QED BY <1>5 DEF q

\* ... and a consumer that advances by n takes n from it.
LEMMA Consume ==
  ASSUME NEW m \in Nat \ {0}, NEW p \in 0 .. m - 1, NEW c \in 0 .. m - 1,
         NEW n \in 0 .. m - 1, n <= ((p - c) % m)
  PROVE  (p - ((c + n) % m)) % m = ((p - c) % m) - n
<1> DEFINE q == (c + n) % m
<1>1. q = IF c + n < m THEN c + n ELSE c + n - m
  BY IndexStep, Zenon
<1>2. q \in 0 .. m - 1
  BY <1>1
<1>3. ((p - c) % m) = IF c <= p THEN p - c ELSE p - c + m
  BY Distance
<1>4. (p - q) % m = IF q <= p THEN p - q ELSE p - q + m
  BY <1>2, Distance, Zenon
<1> HIDE DEF q
<1>5. (p - q) % m = ((p - c) % m) - n
  BY <1>1, <1>2, <1>3, <1>4
<1> QED BY <1>5 DEF q

\* The distance is 0 for equal indices only, and tells indices behind a producer apart.
LEMMA DistanceOne ==
  ASSUME NEW m \in Nat \ {0}, NEW p \in 0 .. m - 1, NEW c \in 0 .. m - 1,
         NEW d \in 0 .. m - 1
  PROVE  /\ (p - c) % m \in 0 .. m - 1
         /\ (p - p) % m = 0
         /\ (p - c) % m = (p - d) % m => c = d
BY Distance

\* Remainders and multiples of the modulus.
LEMMA Division ==
  ASSUME NEW m \in Nat \ {0}, NEW x \in Int
  PROVE  x = (x \div m) * m + (x % m) /\ x % m \in 0 .. m - 1 /\ x \div m \in Int
OBVIOUS

LEMMA Remainder ==
  ASSUME NEW m \in Nat \ {0}, NEW d \in Int, NEW r \in 0 .. m - 1
  PROVE  (d * m + r) % m = r
OBVIOUS

LEMMA Period ==
  ASSUME NEW m \in Nat \ {0}, NEW n \in Int, n % m = 0, NEW x \in Int
  PROVE  (x + n) % m = x % m
<1> DEFINE d == x \div m
           q == n \div m
           r == x % m
<1>1. d \in Int /\ q \in Int /\ r \in 0 .. m - 1 /\ x = d * m + r /\ n = q * m
  BY Division
<1> HIDE DEF d, q, r
<1>2. x + n = (d + q) * m + r
  BY <1>1
<1>3. (x + n) % m = r
  BY <1>1, <1>2, Remainder
<1> QED BY <1>3 DEF r

\* The distance of two places in a ring is that of the indices they come from.
LEMMA DistanceOfPlaces ==
  ASSUME NEW m \in Nat \ {0}, NEW a \in Int, NEW b \in Int
  PROVE  ((a % m) - (b % m)) % m = (a - b) % m
<1> DEFINE d == a \div m
           e == b \div m
           r == a % m
           s == b % m
           n == (d - e) * m
<1>1. d \in Int /\ e \in Int /\ r \in 0 .. m - 1 /\ s \in 0 .. m - 1
      /\ a = d * m + r /\ b = e * m + s
  BY Division
<1> HIDE DEF d, e, r, s
<1>2. n \in Int /\ n = (d - e) * m + 0
  BY <1>1
<1>3. n % m = 0
  BY <1>1, <1>2, Remainder
<1>4. a - b = (r - s) + n
  BY <1>1
<1> HIDE DEF n
<1>5. (a - b) % m = (r - s) % m
  <2>1. r - s \in Int
    BY <1>1
  <2>2. ((r - s) + n) % m = (r - s) % m
    BY <1>2, <1>3, <2>1, Period
  <2> QED BY <1>4, <2>2
<1> QED BY <1>5 DEF r, s

-----------------------------------------------------------------------------
\* Sequences, element by element.
LEMMA MemberOf ==
  ASSUME NEW S, NEW s \in Seq(S), NEW i \in 1 .. Len(s)
  PROVE  s[i] \in S
OBVIOUS

LEMMA SameSequence ==
  ASSUME NEW S, NEW s \in Seq(S), NEW t \in Seq(S), Len(s) = Len(t),
         \A i \in 1 .. Len(s) : s[i] = t[i]
  PROVE  s = t
<1>1. s = [i \in 1 .. Len(s) |-> s[i]] /\ t = [i \in 1 .. Len(t) |-> t[i]]
  OBVIOUS
<1> QED BY <1>1

LEMMA Concatenated ==
  ASSUME NEW S, NEW s \in Seq(S), NEW t \in Seq(S)
  PROVE  /\ s \o t \in Seq(S) /\ Len(s \o t) = Len(s) + Len(t)
         /\ \A i \in 1 .. Len(s) + Len(t) :
              (s \o t)[i] = IF i <= Len(s) THEN s[i] ELSE t[i - Len(s)]
OBVIOUS

LEMMA Rest ==
  ASSUME NEW S, NEW s \in Seq(S), s # <<>>
  PROVE  /\ Head(s) \in S /\ Head(s) = s[1] /\ Tail(s) \in Seq(S)
         /\ Len(s) \in Nat \ {0} /\ DOMAIN s = 1 .. Len(s)
         /\ Len(Tail(s)) = Len(s) - 1 /\ DOMAIN Tail(s) = 1 .. Len(s) - 1
         /\ \A k \in 1 .. Len(s) - 1 : Tail(s)[k] = s[k + 1]
OBVIOUS

LEMMA Longer ==
  ASSUME NEW S, NEW s \in Seq(S), NEW x \in S
  PROVE  /\ Append(s, x) \in Seq(S)
         /\ Len(s) \in Nat /\ DOMAIN s = 1 .. Len(s)
         /\ Len(Append(s, x)) = Len(s) + 1 /\ DOMAIN Append(s, x) = 1 .. Len(s) + 1
         /\ \A k \in 1 .. Len(s) : Append(s, x)[k] = s[k]
         /\ Append(s, x)[Len(s) + 1] = x
OBVIOUS
=============================================================================
