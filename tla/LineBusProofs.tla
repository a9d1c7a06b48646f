---------------------------- MODULE LineBusProofs ----------------------------
(***************************************************************************)
(* LineBus for any number of clients, filters, lines and connections: the  *)
(* filters are counted right, and lines are neither repeated nor turned    *)
(* around.                                                                 *)
(***************************************************************************)
EXTENDS LineBus, Counting, FiniteSetTheorems, SequenceTheorems, TLAPS

Pfx == Pfxs \cup Clients
Lines == [cmd : CommandNames \cup {"none"}, from : Clients, no : Nat, pfx : Pfx]
Buffers == {b \in Seq(Lines) : Len(b) <= OutRoom}
Sockets == {b \in Seq(Lines) : Len(b) <= SocketRoom}
ClientType == [open : BOOLEAN, out : Buffers, named : BOOLEAN, xoff : BOOLEAN,
               precious : BOOLEAN, dropped : Nat, filters : Seq(Pfx)]
FilterMaps == UNION {[S -> Int] : S \in SUBSET Pfx}
\* What Dispatch works on.
States == [cl : [Clients -> ClientType], filters : FilterMaps, heard : [Clients -> Seq(Lines)]]

TypeInv ==
  /\ clients \in Seq(Clients) /\ cl \in [Clients -> ClientType] /\ filters \in FilterMaps
  /\ to \in [Clients -> Sockets] /\ from \in [Clients -> Sockets]
  /\ sent \in [Clients -> Nat] /\ heard \in [Clients -> Seq(Lines)]
  /\ MaxLines = 0 => \A c \in Clients : sent[c] = 0
  /\ peer \in [Clients -> {"away", "waiting", "there", "gone"}]

\* There is a filter for what the clients in cs subscribed to, and it is counted right.
Counted(k, fs, cs) ==
  \A p \in Pfx : /\ IsFiniteSet(Uses(k, p, cs))
                 /\ p \in DOMAIN fs <=> Uses(k, p, cs) # {}
                 /\ p \in DOMAIN fs => fs[p] = Cardinality(Uses(k, p, cs)) - 1

\* The lines of a client increase from what others have heard of it over what is in its socket
\* to what it has sent.  Without numbers nothing is recorded.
Ordered(h, f) ==
  /\ \A c \in Clients : \A i \in 1..Len(f[c]) : f[c][i].from = c /\ f[c][i].no <= sent[c]
  /\ MaxLines = 0 => \A c \in Clients : h[c] = <<>>
  /\ MaxLines > 0 =>
       /\ \A c \in Clients : \A i, j \in 1..Len(f[c]) :
            i < j /\ f[c][i].cmd = "none" /\ f[c][j].cmd = "none" => f[c][i].no < f[c][j].no
       /\ \A d \in Clients : \A i \in 1..Len(h[d]) :
            /\ h[d][i].from # d /\ h[d][i].no <= sent[h[d][i].from]
            /\ \A j \in 1..Len(f[h[d][i].from]) :
                 f[h[d][i].from][j].cmd = "none" => h[d][i].no < f[h[d][i].from][j].no
       /\ \A d \in Clients : \A i, j \in 1..Len(h[d]) :
            i < j /\ h[d][i].from = h[d][j].from => h[d][i].no < h[d][j].no

IInv == TypeInv /\ Counted(cl, filters, Listed) /\ Ordered(heard, from)

-----------------------------------------------------------------------------
(* Recursion over the lines of a sequence.                                 *)

\* Handled goes through the lines one by one.
LEMMA HandledSteps ==
  ASSUME NEW s, NEW lines, Len(lines) \in Nat
  PROVE  \E g : /\ g[0] = s /\ g[Len(lines)] = Handled(s, lines)
                /\ \A k \in 1..Len(lines) : g[k] = Dispatch(g[k - 1], lines[k])
<1> DEFINE n == Len(lines)
           Is(g, m) == g = [k \in 0..m |-> IF k = 0 THEN s ELSE Dispatch(g[k - 1], lines[k])]
           Good == {m \in 0..n : \E g : Is(g, m)}
<1>0. n \in Nat
  OBVIOUS
<1>1. 0 \in Good
  <2> DEFINE g == [k \in 0..0 |-> s]
  <2>1. g = [k \in 0..0 |-> IF k = 0 THEN s ELSE Dispatch(g[k - 1], lines[k])]
    OBVIOUS
  <2>2. \E h : Is(h, 0)
    BY <2>1
  <2> QED
    BY <1>0, <2>2
<1>2. ASSUME NEW m \in 0..(n - 1), m \in Good PROVE m + 1 \in Good
  <2>1. PICK g : Is(g, m)
    BY <1>2
  <2> DEFINE h == [k \in 0..(m + 1) |-> IF k = m + 1 THEN Dispatch(g[m], lines[m + 1]) ELSE g[k]]
  <2>2. \A k \in 0..m : g[k] = IF k = 0 THEN s ELSE Dispatch(g[k - 1], lines[k])
    BY <2>1
  <2>3. ASSUME NEW k \in 0..(m + 1)
        PROVE  h[k] = IF k = 0 THEN s ELSE Dispatch(h[k - 1], lines[k])
    <3>1. CASE k = m + 1
      <4>1. k # 0 /\ k - 1 = m /\ h[k - 1] = g[m]
        BY <3>1
      <4> QED
        BY <3>1, <4>1
    <3>2. CASE k # m + 1
      <4>1. k \in 0..m /\ h[k] = g[k] /\ (k # 0 => h[k - 1] = g[k - 1])
        BY <3>2
      <4> QED
        BY <2>2, <4>1
    <3> QED
      BY <3>1, <3>2
  <2>4. Is(h, m + 1)
    BY <2>3
  <2>5. m + 1 \in 0..n
    BY <1>0
  <2> HIDE DEF h, Is
  <2> QED
    BY <2>4, <2>5
<1>3. \E g : Is(g, n)
  <2> HIDE DEF Is, n
  <2>1. \A k \in 0..n : k \in Good
    <3> HIDE DEF Good
    <3> QED
      BY <1>0, <1>1, <1>2, CountUp
  <2>2. n \in 0..n
    BY <1>0
  <2> QED
    BY <2>1, <2>2
<1> DEFINE a == CHOOSE g : Is(g, n)
<1>4. Is(a, n)
  BY <1>3
<1>5. Handled(s, lines) = a[n]
  BY DEF Handled
<1> HIDE DEF a
<1>6. a[0] = s /\ \A k \in 1..n : a[k] = Dispatch(a[k - 1], lines[k])
  <2>1. \A k \in 0..n : a[k] = IF k = 0 THEN s ELSE Dispatch(a[k - 1], lines[k])
    BY <1>4
  <2>2. 0 \in 0..n /\ \A k \in 1..n : k \in 0..n /\ k # 0
    BY <1>0
  <2> QED
    BY <2>1, <2>2
<1> QED
  BY <1>5, <1>6

-----------------------------------------------------------------------------
(* The list of clients.                                                    *)

\* Appending adds one element.
LEMMA RangeOfAppend ==
  ASSUME NEW S, NEW t \in Seq(S), NEW x \in S
  PROVE  Append(t, x) \in Seq(S) /\ Range(Append(t, x)) = Range(t) \cup {x}
<1>1. Append(t, x) \in Seq(S) /\ Len(Append(t, x)) = Len(t) + 1
  OBVIOUS
<1>2. Append(t, x)[Len(t) + 1] = x /\ \A i \in 1..Len(t) : Append(t, x)[i] = t[i]
  OBVIOUS
<1>3. DOMAIN t = 1..Len(t) /\ DOMAIN Append(t, x) = 1..(Len(t) + 1) /\ Len(t) \in Nat
  BY <1>1
<1> QED
  BY <1>1, <1>2, <1>3 DEF Range

\* Taking the closed clients out of the list leaves the others.
LEMMA OpenOnlyKeeps ==
  ASSUME NEW S, NEW list \in Seq(S), NEW open
  PROVE  OpenOnly(list, open) \in Seq(S) /\ Range(OpenOnly(list, open)) = Range(list) \cap open
<1> DEFINE n == Len(list)
           Is(g, m) == g = [i \in 0..m |-> IF i = 0 THEN <<>>
                                           ELSE IF list[i] \in open THEN Append(g[i - 1], list[i]) ELSE g[i - 1]]
           Good == {m \in 0..n : \E g : Is(g, m)}
<1>0. n \in Nat
  OBVIOUS
<1>01. \A i \in 1..n : list[i] \in S
  OBVIOUS
<1>1. 0 \in Good
  <2> DEFINE g == [k \in 0..0 |-> <<>>]
  <2>1. Is(g, 0)
    OBVIOUS
  <2> HIDE DEF Is, g
  <2> QED
    BY <1>0, <2>1
<1>2. ASSUME NEW m \in 0..(n - 1), m \in Good PROVE m + 1 \in Good
  <2>1. PICK g : Is(g, m)
    BY <1>2
  <2> DEFINE last == IF list[m + 1] \in open THEN Append(g[m], list[m + 1]) ELSE g[m]
             h == [k \in 0..(m + 1) |-> IF k = m + 1 THEN last ELSE g[k]]
  <2>2. \A k \in 0..m : g[k] = IF k = 0 THEN <<>>
                               ELSE IF list[k] \in open THEN Append(g[k - 1], list[k]) ELSE g[k - 1]
    BY <2>1
  <2>3. ASSUME NEW k \in 0..(m + 1)
        PROVE  h[k] = IF k = 0 THEN <<>> ELSE IF list[k] \in open THEN Append(h[k - 1], list[k]) ELSE h[k - 1]
    <3>1. CASE k = m + 1
      <4>1. k # 0 /\ k - 1 = m /\ h[k - 1] = g[m] /\ h[k] = last
        BY <3>1
      <4> HIDE DEF h
      <4> QED
        BY <3>1, <4>1
    <3>2. CASE k # m + 1
      <4>1. k \in 0..m /\ h[k] = g[k] /\ (k # 0 => h[k - 1] = g[k - 1])
        BY <3>2
      <4> HIDE DEF h
      <4> QED
        BY <2>2, <4>1
    <3> QED
      BY <3>1, <3>2
  <2>4. Is(h, m + 1)
    BY <2>3
  <2>5. m + 1 \in 0..n
    BY <1>0
  <2> HIDE DEF h, Is
  <2> QED
    BY <2>4, <2>5
<1>3. \E g : Is(g, n)
  <2> HIDE DEF Is, n
  <2>1. \A k \in 0..n : k \in Good
    <3> HIDE DEF Good
    <3> QED
      BY <1>0, <1>1, <1>2, CountUp
  <2>2. n \in 0..n
    BY <1>0
  <2> QED
    BY <2>1, <2>2
<1> DEFINE a == CHOOSE g : Is(g, n)
<1>4. Is(a, n)
  BY <1>3
<1>5. OpenOnly(list, open) = a[n]
  BY DEF OpenOnly
<1> HIDE DEF a
<1>6. a[0] = <<>> /\ \A k \in 1..n : a[k] = IF list[k] \in open THEN Append(a[k - 1], list[k]) ELSE a[k - 1]
  <2>1. \A k \in 0..n : a[k] = IF k = 0 THEN <<>>
                               ELSE IF list[k] \in open THEN Append(a[k - 1], list[k]) ELSE a[k - 1]
    BY <1>4
  <2>2. 0 \in 0..n /\ \A k \in 1..n : k \in 0..n /\ k # 0
    BY <1>0
  <2> QED
    BY <2>1, <2>2
<1> DEFINE Right == {k \in 0..n : /\ a[k] \in Seq(S)
                                  /\ Range(a[k]) = {list[i] : i \in 1..k} \cap open}
<1>7. 0 \in Right
  <2>1. {list[i] : i \in 1..0} = {}
    OBVIOUS
  <2>2. a[0] \in Seq(S) /\ Range(a[0]) = {}
    <3>1. a[0] = <<>>
      BY <1>6
    <3>2. <<>> \in Seq(S) /\ Range(<<>>) = {}
      BY DEF Range
    <3> QED
      BY <3>1, <3>2
  <2> QED
    BY <1>0, <2>1, <2>2
<1>8. ASSUME NEW k \in 0..(n - 1), k \in Right PROVE k + 1 \in Right
  <2>1. /\ k + 1 \in 1..n /\ k + 1 \in 0..n /\ (k + 1) - 1 = k
        /\ {list[i] : i \in 1..(k + 1)} = {list[i] : i \in 1..k} \cup {list[k + 1]}
    BY <1>0
  <2>11. list[k + 1] \in S
    BY <1>01, <2>1
  <2>2. a[k + 1] = IF list[k + 1] \in open THEN Append(a[k], list[k + 1]) ELSE a[k]
    BY <1>6, <2>1
  <2>3. a[k] \in Seq(S) /\ Range(a[k]) = {list[i] : i \in 1..k} \cap open
    BY <1>8
  <2>4. a[k + 1] \in Seq(S) /\ Range(a[k + 1]) = {list[i] : i \in 1..(k + 1)} \cap open
    <3> HIDE DEF n
    <3>1. CASE list[k + 1] \in open
      <4>1. Append(a[k], list[k + 1]) \in Seq(S) /\ Range(Append(a[k], list[k + 1])) = Range(a[k]) \cup {list[k + 1]}
        BY <2>3, <2>11, RangeOfAppend
      <4> QED
        BY <2>1, <2>2, <2>3, <3>1, <4>1
    <3>2. CASE list[k + 1] \notin open
      BY <2>1, <2>2, <2>3, <3>2
    <3> QED
      BY <3>1, <3>2
  <2> QED
    BY <2>1, <2>4
<1>9. n \in Right
  <2> HIDE DEF Right, n
  <2>1. \A k \in 0..n : k \in Right
    BY <1>0, <1>7, <1>8, CountUp
  <2> QED
    BY <1>0, <2>1
<1>10. Range(list) = {list[i] : i \in 1..n}
  BY DEF Range
<1> QED
  BY <1>5, <1>9, <1>10

-----------------------------------------------------------------------------
(* What a line does to the clients.                                        *)

LEMMA FilterMapsAre ==
  ASSUME NEW S \in SUBSET Pfx, NEW f \in [S -> Int]
  PROVE  f \in FilterMaps
BY DEF FilterMaps

LEMMA FilterMapIs ==
  ASSUME NEW f \in FilterMaps
  PROVE  DOMAIN f \subseteq Pfx /\ f \in [DOMAIN f -> Int]
BY DEF FilterMaps

\* Clients that keep their filters keep the references.
LEMMA SameUses ==
  ASSUME NEW k, NEW k2, NEW p, NEW cs, \A c \in cs : k2[c].filters = k[c].filters
  PROVE  Uses(k2, p, cs) = Uses(k, p, cs)
BY DEF Uses

LEMMA SameCount ==
  ASSUME NEW k, NEW k2, NEW fs, NEW cs, \A c \in cs : k2[c].filters = k[c].filters, Counted(k, fs, cs)
  PROVE  Counted(k2, fs, cs)
BY SameUses DEF Counted

LEMMA ClosedClient ==
  ASSUME NEW k \in ClientType
  PROVE  Close(k) \in ClientType /\ Close(k).filters = k.filters
BY DEF ClientType, Close

LEMMA OfferedClient ==
  ASSUME NEW k \in ClientType, NEW l \in Lines
  PROVE  Offer(k, l) \in ClientType /\ Offer(k, l).filters = k.filters
<1>1. k.out \in Seq(Lines) /\ Len(k.out) \in Nat /\ OutRoom \in Nat /\ DropLimit \in Nat
  BY LineBusAssumption DEF ClientType, Buffers
<1>2. CASE ~Full(k)
  <2>1. Append(k.out, l) \in Seq(Lines) /\ Len(Append(k.out, l)) = Len(k.out) + 1
    BY <1>1
  <2>2. Append(k.out, l) \in Buffers
    BY <1>1, <1>2, <2>1 DEF Full, Buffers
  <2>3. k.dropped \div 2 \in Nat
    BY DEF ClientType
  <2> QED
    BY <1>2, <2>2, <2>3 DEF Offer, ClientType
<1>3. CASE Full(k)
  <2> DEFINE d == [k EXCEPT !.dropped = IF @ > DropLimit THEN @ ELSE @ + 1]
  <2>1. d \in ClientType /\ d.filters = k.filters
    BY <1>1 DEF ClientType
  <2>2. Offer(k, l) = IF d.precious /\ d.dropped > DropLimit THEN Close(d) ELSE d
    BY <1>3 DEF Offer
  <2> HIDE DEF d
  <2> QED
    BY <2>1, <2>2, ClosedClient
<1> QED
  BY <1>2, <1>3

\* From k to k2 client c subscribes to q.
Subscribes(k, k2, c, q) ==
  /\ k \in [Clients -> ClientType] /\ k2 \in [Clients -> ClientType] /\ c \in Clients /\ q \in Pfx
  /\ k2[c].filters = <<q>> \o k[c].filters
  /\ \A d \in Clients : d # c => k2[d].filters = k[d].filters

\* A new subscription is one reference more.
LEMMA SubscribedUses ==
  ASSUME NEW k, NEW k2, NEW c, NEW q, Subscribes(k, k2, c, q), NEW cs \in SUBSET Clients, c \in cs,
         NEW p \in Pfx, IsFiniteSet(Uses(k, p, cs))
  PROVE  /\ IsFiniteSet(Uses(k2, p, cs))
         /\ Cardinality(Uses(k2, p, cs)) = Cardinality(Uses(k, p, cs)) + IF p = q THEN 1 ELSE 0
<1> DEFINE old == k[c].filters
           new == k2[c].filters
           U == Uses(k, p, cs)
           V == Uses(k2, p, cs) \ {<<c, 1>>}
           shift == [u \in U |-> IF u[1] = c THEN <<c, u[2] + 1>> ELSE u]
<1>0. /\ k \in [Clients -> ClientType] /\ k2 \in [Clients -> ClientType] /\ c \in Clients /\ q \in Pfx
      /\ new = <<q>> \o old /\ \A d \in Clients : d # c => k2[d].filters = k[d].filters
  BY DEF Subscribes
<1>1. /\ old \in Seq(Pfx) /\ Len(old) \in Nat /\ new \in Seq(Pfx) /\ Len(new) = Len(old) + 1
      /\ new[1] = q /\ \A i \in 1..Len(old) : new[i + 1] = old[i]
      /\ DOMAIN old = 1..Len(old) /\ DOMAIN new = 1..(Len(old) + 1)
  <2>1. old \in Seq(Pfx)
    BY <1>0 DEF ClientType
  <2> HIDE DEF old, new
  <2> QED
    BY <1>0, <2>1
<1> HIDE DEF old, new
<1>2. \A d, i : <<d, i>> \in U <=> d \in cs /\ i \in DOMAIN k[d].filters /\ k[d].filters[i] = p
  BY DEF Uses
<1>3. \A d, i : <<d, i>> \in Uses(k2, p, cs) <=> d \in cs /\ i \in DOMAIN k2[d].filters /\ k2[d].filters[i] = p
  BY DEF Uses
<1>4. /\ \A u \in U : u = <<u[1], u[2]>>
      /\ \A u \in Uses(k2, p, cs) : u = <<u[1], u[2]>>
  BY DEF Uses
<1>5. \A i : <<c, i>> \in U <=> i \in 1..Len(old) /\ old[i] = p
  BY <1>1, <1>2 DEF old
<1>6. \A i : <<c, i>> \in V <=> i \in 2..(Len(old) + 1) /\ new[i] = p
  <2>1. \A i : i \in 2..(Len(old) + 1) <=> i \in 1..(Len(old) + 1) /\ i # 1
    BY <1>1
  <2>2. \A i : <<c, i>> \in V <=> <<c, i>> \in Uses(k2, p, cs) /\ i # 1
    OBVIOUS
  <2>3. \A i : <<c, i>> \in Uses(k2, p, cs) <=> i \in 1..(Len(old) + 1) /\ new[i] = p
    BY <1>1, <1>3 DEF new
  <2> HIDE DEF V
  <2> QED
    BY <2>1, <2>2, <2>3
<1>7. \A d \in Clients : \A i : d # c => (<<d, i>> \in V <=> <<d, i>> \in U)
  BY <1>0, <1>2, <1>3
<1>8. \A u \in U : u[1] \in Clients
  BY <1>2, <1>4
<1>9. \A u \in V : u[1] \in Clients
  BY <1>3, <1>4
<1> HIDE DEF U, V
<1>10. ASSUME NEW u \in U PROVE shift[u] \in V
  <2>1. CASE u[1] = c
    <3>1. u = <<c, u[2]>> /\ u[2] \in 1..Len(old) /\ old[u[2]] = p
      BY <1>4, <1>5, <2>1
    <3>2. u[2] + 1 \in 2..(Len(old) + 1) /\ new[u[2] + 1] = p
      BY <1>1, <3>1
    <3> QED
      BY <1>6, <2>1, <3>2
  <2>2. CASE u[1] # c
    BY <1>4, <1>7, <1>8, <2>2
  <2> QED
    BY <2>1, <2>2
<1>11. ASSUME NEW u \in U, NEW v \in U, shift[u] = shift[v] PROVE u = v
  <2>1. u = <<u[1], u[2]>> /\ v = <<v[1], v[2]>>
    BY <1>4
  <2>2. u[1] = v[1]
    BY <1>11, <2>1
  <2>3. CASE u[1] = c
    <3>1. u[2] \in Nat /\ v[2] \in Nat
      BY <1>1, <1>5, <2>1, <2>2, <2>3
    <3>2. u[2] + 1 = v[2] + 1
      BY <1>11, <2>2, <2>3
    <3> QED
      BY <2>1, <2>2, <3>1, <3>2
  <2>4. CASE u[1] # c
    BY <1>11, <2>2, <2>4
  <2> QED
    BY <2>3, <2>4
<1>12. ASSUME NEW v \in V PROVE \E u \in U : shift[u] = v
  <2>1. v = <<v[1], v[2]>>
    BY <1>4 DEF V
  <2>2. CASE v[1] = c
    <3>1. v[2] \in 2..(Len(old) + 1) /\ new[v[2]] = p
      BY <1>6, <2>1, <2>2
    <3>2. v[2] - 1 \in 1..Len(old) /\ old[v[2] - 1] = p /\ (v[2] - 1) + 1 = v[2]
      BY <1>1, <3>1
    <3>3. <<c, v[2] - 1>> \in U
      BY <1>5, <3>2
    <3>4. shift[<<c, v[2] - 1>>] = v
      BY <2>1, <2>2, <3>2, <3>3
    <3> QED
      BY <3>3, <3>4
  <2>3. CASE v[1] # c
    <3>1. v \in U
      BY <1>7, <1>9, <2>1, <2>3
    <3>2. shift[v] = v
      BY <2>3, <3>1
    <3> QED
      BY <3>1, <3>2
  <2> QED
    BY <2>2, <2>3
<1>13. shift \in Bijection(U, V)
  <2>1. shift \in [U -> V]
    BY <1>10
  <2>2. \A u, v \in U : shift[u] = shift[v] => u = v
    BY <1>11
  <2>3. \A v \in V : \E u \in U : shift[u] = v
    BY <1>12
  <2> HIDE DEF shift
  <2>4. shift \in Injection(U, V)
    BY <2>1, <2>2 DEF Injection, IsInjective
  <2>5. shift \in Surjection(U, V)
    BY <2>1, <2>3 DEF Surjection
  <2> QED
    BY <2>4, <2>5 DEF Bijection
<1>14. IsFiniteSet(V) /\ Cardinality(V) = Cardinality(U)
  <2>1. IsFiniteSet(U)
    BY DEF U
  <2>2. ExistsBijection(U, V)
    BY <1>13 DEF ExistsBijection
  <2> QED
    BY <2>1, <2>2, FS_Bijection
<1>15. Cardinality(V) \in Nat
  BY <1>14, FS_CardinalityType
<1>16. CASE p = q
  <2>1. <<c, 1>> \in Uses(k2, p, cs)
    BY <1>1, <1>3, <1>16 DEF new
  <2>2. Uses(k2, p, cs) = V \cup {<<c, 1>>} /\ <<c, 1>> \notin V
    BY <2>1 DEF V
  <2> QED
    BY <1>14, <1>15, <1>16, <2>2, FS_AddElement DEF U
<1>17. CASE p # q
  <2>1. <<c, 1>> \notin Uses(k2, p, cs)
    BY <1>1, <1>3, <1>17 DEF new
  <2>2. Uses(k2, p, cs) = V
    BY <2>1 DEF V
  <2> QED
    BY <1>14, <1>15, <1>17, <2>2 DEF U
<1> QED
  BY <1>16, <1>17

LEMMA ListedAre == TypeInv => Listed \subseteq Clients
BY DEF TypeInv, Listed, Range

\* A subscription keeps the filters counted.
LEMMA Subscribed ==
  ASSUME TypeInv, NEW s \in States, NEW l \in Lines, l.from \in Listed, l.cmd = "subscribe",
         Counted(s.cl, s.filters, Listed)
  PROVE  /\ HandleCmd(s, l) \in States /\ HandleCmd(s, l).heard = s.heard
         /\ Counted(HandleCmd(s, l).cl, HandleCmd(s, l).filters, Listed)
<1> DEFINE c == l.from
           q == l.pfx
           k2 == [s.cl EXCEPT ![c] = [s.cl[c] EXCEPT !.filters = <<q>> \o s.cl[c].filters]]
           fs == NewFilter(s.filters, q)
<1>1. /\ s.cl \in [Clients -> ClientType] /\ s.filters \in FilterMaps /\ s.heard \in [Clients -> Seq(Lines)]
      /\ c \in Clients /\ q \in Pfx /\ s.cl[c] \in ClientType
  BY DEF States, Lines
<1>2. HandleCmd(s, l) = [s EXCEPT !.cl = k2, !.filters = fs]
  <2>1. HandleCmd(s, l) = [s EXCEPT !.cl[l.from].filters = <<l.pfx>> \o @, !.filters = NewFilter(@, l.pfx)]
    BY DEF HandleCmd
  <2> QED
    BY <2>1
<1>3. <<q>> \o s.cl[c].filters \in Seq(Pfx)
  <2>1. s.cl[c].filters \in Seq(Pfx)
    BY <1>1 DEF ClientType
  <2>2. <<q>> \in Seq(Pfx)
    BY <1>1
  <2> QED
    BY <2>1, <2>2
<1>4. /\ k2 \in [Clients -> ClientType] /\ k2[c].filters = <<q>> \o s.cl[c].filters
      /\ \A d \in Clients : d # c => k2[d].filters = s.cl[d].filters
  BY <1>1, <1>3 DEF ClientType
<1>5. DOMAIN s.filters \subseteq Pfx /\ s.filters \in [DOMAIN s.filters -> Int]
  BY <1>1, FilterMapIs
<1>6. /\ DOMAIN fs = DOMAIN s.filters \cup {q}
      /\ \A p \in DOMAIN fs : fs[p] = IF p # q THEN s.filters[p]
                                      ELSE IF q \in DOMAIN s.filters THEN s.filters[q] + 1 ELSE 0
  BY DEF NewFilter
<1>7. fs \in FilterMaps
  <2>1. fs \in [DOMAIN fs -> Int]
    BY <1>5, <1>6 DEF NewFilter
  <2>2. DOMAIN fs \in SUBSET Pfx
    BY <1>1, <1>5, <1>6
  <2> HIDE DEF fs
  <2> QED
    BY <2>1, <2>2, FilterMapsAre
<1> HIDE DEF k2, fs
<1>8. ASSUME NEW p \in Pfx
      PROVE  /\ IsFiniteSet(Uses(k2, p, Listed))
             /\ p \in DOMAIN fs <=> Uses(k2, p, Listed) # {}
             /\ p \in DOMAIN fs => fs[p] = Cardinality(Uses(k2, p, Listed)) - 1
  <2> DEFINE old == Uses(s.cl, p, Listed)
             new == Uses(k2, p, Listed)
  <2>1. IsFiniteSet(old) /\ (p \in DOMAIN s.filters <=> old # {})
        /\ (p \in DOMAIN s.filters => s.filters[p] = Cardinality(old) - 1)
    <3> HIDE DEF old
    <3> QED
      BY DEF Counted, old
  <2>2. IsFiniteSet(new) /\ Cardinality(new) = Cardinality(old) + IF p = q THEN 1 ELSE 0
    <3>1. Listed \in SUBSET Clients
      BY ListedAre
    <3>2. IsFiniteSet(Uses(s.cl, p, Listed))
      BY <2>1
    <3>3. c \in Listed
      OBVIOUS
    <3>4. Subscribes(s.cl, k2, c, q)
      BY <1>1, <1>4 DEF Subscribes
    <3> HIDE DEF c, q
    <3> QED
      BY <3>1, <3>2, <3>3, <3>4, SubscribedUses
  <2>3. /\ Cardinality(old) \in Nat /\ Cardinality(new) \in Nat
        /\ old = {} <=> Cardinality(old) = 0
        /\ new = {} <=> Cardinality(new) = 0
    BY <2>1, <2>2, FS_CardinalityType, FS_EmptySet
  <2> HIDE DEF old, new
  <2>4. CASE p = q
    BY <1>6, <2>1, <2>2, <2>3, <2>4 DEF new
  <2>5. CASE p # q
    BY <1>6, <2>1, <2>2, <2>3, <2>5 DEF new
  <2> QED
    BY <2>4, <2>5
<1>9. Counted(k2, fs, Listed)
  BY <1>8 DEF Counted
<1> QED
  BY <1>1, <1>2, <1>4, <1>7, <1>9 DEF States

\* The other commands leave the filters alone.
LEMMA OtherCommands ==
  ASSUME TypeInv, NEW s \in States, NEW l \in Lines, l.from \in Listed,
         l.cmd \in CommandNames \ {"subscribe"}
  PROVE  /\ HandleCmd(s, l) \in States /\ HandleCmd(s, l).heard = s.heard
         /\ HandleCmd(s, l).filters = s.filters
         /\ \A c \in Clients : HandleCmd(s, l).cl[c].filters = s.cl[c].filters
<1>1. /\ s.cl \in [Clients -> ClientType] /\ s.filters \in FilterMaps /\ s.heard \in [Clients -> Seq(Lines)]
      /\ s = [cl |-> s.cl, filters |-> s.filters, heard |-> s.heard]
      /\ l.from \in Clients /\ \A c \in Clients : s.cl[c] \in ClientType
  BY DEF States, Lines
<1>2. ASSUME NEW k2 \in [Clients -> ClientType], HandleCmd(s, l) = [s EXCEPT !.cl = k2],
             \A c \in Clients : k2[c].filters = s.cl[c].filters
      PROVE  /\ HandleCmd(s, l) \in States /\ HandleCmd(s, l).heard = s.heard
             /\ HandleCmd(s, l).filters = s.filters
             /\ \A c \in Clients : HandleCmd(s, l).cl[c].filters = s.cl[c].filters
  BY <1>1, <1>2 DEF States
<1>3. CASE l.cmd = "kill"
  <2> DEFINE k2 == [c \in Clients |-> IF c \in Listed /\ s.cl[c].named /\ c = l.pfx THEN Close(s.cl[c]) ELSE s.cl[c]]
  <2>1. HandleCmd(s, l) = [s EXCEPT !.cl = k2]
    BY <1>1, <1>3 DEF HandleCmd
  <2>2. k2 \in [Clients -> ClientType] /\ \A c \in Clients : k2[c].filters = s.cl[c].filters
    BY <1>1, ClosedClient
  <2> HIDE DEF k2
  <2> QED
    BY <1>2, <2>1, <2>2
<1>4. ASSUME NEW k \in ClientType, k.filters = s.cl[l.from].filters,
             HandleCmd(s, l) = [s EXCEPT !.cl = [s.cl EXCEPT ![l.from] = k]]
      PROVE  /\ HandleCmd(s, l) \in States /\ HandleCmd(s, l).heard = s.heard
             /\ HandleCmd(s, l).filters = s.filters
             /\ \A c \in Clients : HandleCmd(s, l).cl[c].filters = s.cl[c].filters
  <2> DEFINE k2 == [s.cl EXCEPT ![l.from] = k]
  <2>1. k2 \in [Clients -> ClientType] /\ \A c \in Clients : k2[c].filters = s.cl[c].filters
    BY <1>1, <1>4
  <2> HIDE DEF k2
  <2>2. HandleCmd(s, l) = [s EXCEPT !.cl = k2]
    BY <1>4 DEF k2
  <2> QED
    BY <1>2, <2>1, <2>2
<1>5. CASE l.cmd \in {"name", "xoff", "xon", "precious"}
  <2> DEFINE k == CASE l.cmd = "name"     -> [s.cl[l.from] EXCEPT !.named = TRUE]
                    [] l.cmd = "xoff"     -> [s.cl[l.from] EXCEPT !.xoff = TRUE]
                    [] l.cmd = "xon"      -> [s.cl[l.from] EXCEPT !.xoff = FALSE]
                    [] l.cmd = "precious" -> [s.cl[l.from] EXCEPT !.precious = TRUE]
  <2>1. k \in ClientType /\ k.filters = s.cl[l.from].filters
    BY <1>1, <1>5 DEF ClientType
  <2>2. HandleCmd(s, l) = [s EXCEPT !.cl = [s.cl EXCEPT ![l.from] = k]]
    BY <1>1, <1>5 DEF HandleCmd
  <2> HIDE DEF k
  <2> QED
    BY <1>4, <2>1, <2>2
<1>6. CASE l.cmd = "stats"
  <2> DEFINE stats == [i \in DOMAIN clients |-> l]
             answer == s.cl[l.from].out \o stats
             n == IF Len(answer) < OutRoom THEN Len(answer) ELSE OutRoom
             k == [s.cl[l.from] EXCEPT !.out = SubSeq(answer, 1, n)]
  <2>1. stats \in Seq(Lines)
    <3>1. Len(clients) \in Nat /\ DOMAIN clients = 1..Len(clients)
      BY DEF TypeInv
    <3>2. stats \in [1..Len(clients) -> Lines]
      BY <3>1
    <3> QED
      BY <3>1, <3>2, SeqDef
  <2>2. answer \in Seq(Lines) /\ Len(answer) \in Nat
    BY <1>1, <2>1 DEF ClientType, Buffers
  <2>3. n \in 0..Len(answer) /\ n <= OutRoom /\ OutRoom \in Nat
    BY <2>2, LineBusAssumption
  <2>4. HandleCmd(s, l) = [s EXCEPT !.cl = [s.cl EXCEPT ![l.from] = k]]
    BY <1>1, <1>6 DEF HandleCmd
  <2> HIDE DEF answer, n
  <2>5. SubSeq(answer, 1, n) \in Seq(Lines) /\ Len(SubSeq(answer, 1, n)) = n
    BY <2>2, <2>3
  <2>6. SubSeq(answer, 1, n) \in Buffers
    BY <2>3, <2>5 DEF Buffers
  <2>7. k \in ClientType /\ k.filters = s.cl[l.from].filters
    BY <1>1, <2>6 DEF ClientType
  <2> HIDE DEF k
  <2> QED
    BY <1>4, <2>4, <2>7
<1> QED
  BY <1>3, <1>5, <1>6 DEF CommandNames

-----------------------------------------------------------------------------
(* One line after the other.                                               *)

\* A first line that is heard, or not, was sent after what was heard and before what follows.
LEMMA HeardNext ==
  ASSUME TypeInv, NEW h \in [Clients -> Seq(Lines)], NEW f \in [Clients -> Seq(Lines)], Ordered(h, f),
         NEW c \in Clients, Len(f[c]) > 0,
         NEW h2 \in [Clients -> Seq(Lines)],
         \A d \in Clients : \/ h2[d] = h[d]
                            \/ /\ d # c /\ f[c][1].cmd = "none" /\ MaxLines > 0
                               /\ h2[d] = Append(h[d], f[c][1])
  PROVE  Ordered(h2, [f EXCEPT ![c] = Tail(@)])
<1> DEFINE f2 == [f EXCEPT ![c] = Tail(@)]
           l == f[c][1]
<1>1. /\ \A d \in Clients : f[d] \in Seq(Lines) /\ h[d] \in Seq(Lines) /\ h2[d] \in Seq(Lines)
      /\ \A d \in Clients : Len(f[d]) \in Nat /\ Len(h[d]) \in Nat
      /\ l \in Lines /\ l.no \in Nat /\ sent \in [Clients -> Nat]
  <2>1. /\ \A d \in Clients : f[d] \in Seq(Lines) /\ h[d] \in Seq(Lines) /\ h2[d] \in Seq(Lines)
        /\ \A d \in Clients : Len(f[d]) \in Nat /\ Len(h[d]) \in Nat
    OBVIOUS
  <2>2. l \in Lines
    BY <2>1
  <2>3. \A e \in Lines : e.no \in Nat
    BY DEF Lines
  <2> QED
    BY <2>1, <2>2, <2>3 DEF TypeInv
<1>2. /\ \A d \in Clients : d # c => f2[d] = f[d]
      /\ f2[c] \in Seq(Lines) /\ Len(f2[c]) = Len(f[c]) - 1
      /\ \A i \in 1..Len(f2[c]) : i + 1 \in 1..Len(f[c]) /\ f2[c][i] = f[c][i + 1]
  <2>1. /\ \A d \in Clients : d # c => f2[d] = f[d]
        /\ f2[c] = Tail(f[c])
    OBVIOUS
  <2>2. \A g \in Seq(Lines) : Len(g) > 0 => /\ Tail(g) \in Seq(Lines) /\ Len(Tail(g)) = Len(g) - 1
                                           /\ \A i \in 1..Len(Tail(g)) : i + 1 \in 1..Len(g) /\ Tail(g)[i] = g[i + 1]
    OBVIOUS
  <2> HIDE DEF f2
  <2> QED
    BY <1>1, <2>1, <2>2
<1>3. \A d \in Clients : \A i \in 1..Len(h[d]) : h2[d][i] = h[d][i]
  <2>1. \A g \in Seq(Lines) : \A i \in 1..Len(g) : Append(g, l)[i] = g[i]
    OBVIOUS
  <2> QED
    BY <1>1, <2>1
<1>4. \A d \in Clients : \/ h2[d] = h[d]
                         \/ /\ d # c /\ l.cmd = "none" /\ MaxLines > 0
                            /\ Len(h2[d]) = Len(h[d]) + 1 /\ h2[d][Len(h[d]) + 1] = l
  BY <1>1
<1>5. l.from = c /\ l.no <= sent[c]
  BY <1>1 DEF Ordered
<1> HIDE DEF f2, l
<1>6. \A d \in Clients : \A i \in 1..Len(f2[d]) : f2[d][i].from = d /\ f2[d][i].no <= sent[d]
  <2>1. \A d \in Clients : \A i \in 1..Len(f[d]) : f[d][i].from = d /\ f[d][i].no <= sent[d]
    BY DEF Ordered
  <2>2. ASSUME NEW d \in Clients, NEW i \in 1..Len(f2[d]) PROVE f2[d][i].from = d /\ f2[d][i].no <= sent[d]
    <3>1. CASE d = c
      <4>1. i + 1 \in 1..Len(f[c]) /\ f2[c][i] = f[c][i + 1]
        BY <1>2, <3>1
      <4> QED
        BY <2>1, <3>1, <4>1
    <3>2. CASE d # c
      BY <1>2, <2>1, <3>2
    <3> QED
      BY <3>1, <3>2
  <2> QED
    BY <2>2
<1>7. MaxLines = 0 => \A d \in Clients : h2[d] = <<>>
  BY <1>4 DEF Ordered
<1>8. ASSUME MaxLines > 0
      PROVE  \A d \in Clients : \A i, j \in 1..Len(f2[d]) :
               i < j /\ f2[d][i].cmd = "none" /\ f2[d][j].cmd = "none" => f2[d][i].no < f2[d][j].no
  <2> SUFFICES ASSUME NEW d \in Clients, NEW i \in 1..Len(f2[d]), NEW j \in 1..Len(f2[d]), i < j,
                      f2[d][i].cmd = "none", f2[d][j].cmd = "none"
               PROVE  f2[d][i].no < f2[d][j].no
    OBVIOUS
  <2>1. CASE d = c
    <3>1. /\ i + 1 \in 1..Len(f[c]) /\ j + 1 \in 1..Len(f[c]) /\ i + 1 < j + 1
          /\ f2[c][i] = f[c][i + 1] /\ f2[c][j] = f[c][j + 1]
      BY <1>1, <1>2, <2>1
    <3>2. \A m, n \in 1..Len(f[c]) :
            m < n /\ f[c][m].cmd = "none" /\ f[c][n].cmd = "none" => f[c][m].no < f[c][n].no
      BY <1>8 DEF Ordered
    <3>3. f2[c][i].cmd = "none" /\ f2[c][j].cmd = "none"
      BY <2>1
    <3> QED
      BY <2>1, <3>1, <3>2, <3>3
  <2>2. CASE d # c
    BY <1>2, <1>8, <2>2 DEF Ordered
  <2> QED
    BY <2>1, <2>2
<1>9. ASSUME MaxLines > 0, NEW d \in Clients, NEW i \in 1..Len(h2[d])
      PROVE  /\ h2[d][i].from # d /\ h2[d][i].no <= sent[h2[d][i].from]
             /\ h2[d][i].from \in Clients
             /\ \A j \in 1..Len(f2[h2[d][i].from]) :
                  f2[h2[d][i].from][j].cmd = "none" => h2[d][i].no < f2[h2[d][i].from][j].no
  <2>1. CASE i \in 1..Len(h[d])
    <3> DEFINE e == h[d][i].from
    <3>1. h2[d][i] = h[d][i]
      BY <1>3, <2>1
    <3>2. /\ e # d /\ h[d][i].no <= sent[e]
          /\ \A j \in 1..Len(f[e]) : f[e][j].cmd = "none" => h[d][i].no < f[e][j].no
      BY <1>9, <2>1 DEF Ordered
    <3>3. e \in Clients
      <4>1. h[d][i] \in Lines
        BY <1>1, <2>1
      <4> QED
        BY <4>1 DEF Lines
    <3> HIDE DEF e
    <3>4. \A j \in 1..Len(f2[e]) : f2[e][j].cmd = "none" => h[d][i].no < f2[e][j].no
      <4>1. CASE e = c
        BY <1>2, <3>2, <4>1
      <4>2. CASE e # c
        BY <1>2, <3>2, <3>3, <4>2
      <4> QED
        BY <4>1, <4>2
    <3> QED
      BY <3>1, <3>2, <3>3, <3>4 DEF e
  <2>2. CASE i \notin 1..Len(h[d])
    <3>1. d # c /\ l.cmd = "none" /\ i = Len(h[d]) + 1 /\ h2[d][i] = l
      BY <1>1, <1>4, <2>2
    <3>2. \A j \in 1..Len(f2[c]) : f2[c][j].cmd = "none" => l.no < f2[c][j].no
      <4> SUFFICES ASSUME NEW j \in 1..Len(f2[c]), f2[c][j].cmd = "none" PROVE l.no < f2[c][j].no
        OBVIOUS
      <4>1. 1 \in 1..Len(f[c]) /\ j + 1 \in 1..Len(f[c]) /\ 1 < j + 1 /\ f2[c][j] = f[c][j + 1]
        BY <1>1, <1>2
      <4>2. \A m, n \in 1..Len(f[c]) :
              m < n /\ f[c][m].cmd = "none" /\ f[c][n].cmd = "none" => f[c][m].no < f[c][n].no
        BY <1>9 DEF Ordered
      <4>3. f[c][1].cmd = "none" /\ f[c][j + 1].cmd = "none"
        BY <3>1, <4>1 DEF l
      <4> QED
        BY <4>1, <4>2, <4>3 DEF l
    <3> QED
      BY <1>5, <3>1, <3>2
  <2> QED
    BY <2>1, <2>2
<1>10. ASSUME MaxLines > 0, NEW d \in Clients, NEW i \in 1..Len(h2[d]), NEW j \in 1..Len(h2[d]), i < j,
              h2[d][i].from = h2[d][j].from
       PROVE  h2[d][i].no < h2[d][j].no
  <2>1. CASE j \in 1..Len(h[d])
    <3>1. i \in 1..Len(h[d]) /\ h2[d][i] = h[d][i] /\ h2[d][j] = h[d][j]
      <4>1. i \in 1..Len(h[d])
        BY <1>1, <1>10, <2>1
      <4> QED
        BY <1>3, <2>1, <4>1
    <3> QED
      BY <1>10, <2>1, <3>1 DEF Ordered
  <2>2. CASE j \notin 1..Len(h[d])
    <3>1. d # c /\ l.cmd = "none" /\ j = Len(h[d]) + 1 /\ h2[d][j] = l
      BY <1>1, <1>4, <2>2
    <3>2. i \in 1..Len(h[d]) /\ h2[d][i] = h[d][i] /\ h[d][i].from = c
      BY <1>1, <1>3, <1>5, <1>10, <3>1
    <3>3. \A k \in 1..Len(f[c]) : f[c][k].cmd = "none" => h[d][i].no < f[c][k].no
      BY <1>10, <3>2 DEF Ordered
    <3>4. 1 \in 1..Len(f[c])
      BY <1>1
    <3> QED
      BY <3>1, <3>2, <3>3, <3>4 DEF l
  <2> QED
    BY <2>1, <2>2
<1> QED
  BY <1>6, <1>7, <1>8, <1>9, <1>10 DEF Ordered, f2

\* A text goes to some of the others.
LEMMA TextDispatched ==
  ASSUME TypeInv, NEW s \in States, NEW l \in Lines, l.cmd = "none"
  PROVE  /\ Dispatch(s, l) \in States /\ Dispatch(s, l).filters = s.filters
         /\ \A c \in Clients : Dispatch(s, l).cl[c].filters = s.cl[c].filters
         /\ \A d \in Clients : \/ Dispatch(s, l).heard[d] = s.heard[d]
                               \/ /\ d # l.from /\ MaxLines > 0
                                  /\ Dispatch(s, l).heard[d] = Append(s.heard[d], l)
<1> DEFINE k2 == [c \in Clients |-> IF c \in Receivers(s, l) THEN Offer(s.cl[c], l) ELSE s.cl[c]]
           h2 == [c \in Clients |-> IF MaxLines > 0 /\ c \in Receivers(s, l) /\ ~Full(s.cl[c])
                                    THEN Append(s.heard[c], l) ELSE s.heard[c]]
<1>1. /\ s.cl \in [Clients -> ClientType] /\ s.filters \in FilterMaps /\ s.heard \in [Clients -> Seq(Lines)]
      /\ s = [cl |-> s.cl, filters |-> s.filters, heard |-> s.heard]
      /\ \A c \in Clients : s.cl[c] \in ClientType /\ s.heard[c] \in Seq(Lines)
  BY DEF States
<1>2. Dispatch(s, l) = [s EXCEPT !.cl = k2, !.heard = h2]
  BY DEF Dispatch
<1>3. \A c \in Receivers(s, l) : c # l.from
  BY DEF Receivers
<1>4. k2 \in [Clients -> ClientType] /\ \A c \in Clients : k2[c].filters = s.cl[c].filters
  BY <1>1, OfferedClient
<1>5. h2 \in [Clients -> Seq(Lines)]
  <2>1. \A c \in Clients : Append(s.heard[c], l) \in Seq(Lines)
    BY <1>1
  <2> QED
    BY <1>1, <2>1
<1>6. \A d \in Clients : h2[d] = s.heard[d] \/ (d # l.from /\ MaxLines > 0 /\ h2[d] = Append(s.heard[d], l))
  BY <1>3
<1> HIDE DEF k2, h2
<1> QED
  BY <1>1, <1>2, <1>4, <1>5, <1>6 DEF States

LEMMA DispatchKeeps ==
  ASSUME TypeInv, NEW s \in States, NEW f \in [Clients -> Seq(Lines)], NEW c \in Clients, c \in Listed, Len(f[c]) > 0,
         Ordered(s.heard, f), Counted(s.cl, s.filters, Listed)
  PROVE  LET s2 == Dispatch(s, f[c][1])
         IN  s2 \in States /\ Counted(s2.cl, s2.filters, Listed) /\ Ordered(s2.heard, [f EXCEPT ![c] = Tail(@)])
<1> DEFINE l == f[c][1]
           s2 == Dispatch(s, l)
<1>1. Listed \subseteq Clients
  BY ListedAre
<1>2. l \in Lines /\ l.from = c /\ s.heard \in [Clients -> Seq(Lines)]
  BY DEF Ordered, States
<1>3. CASE l.cmd = "none"
  <2>1. /\ s2 \in States /\ s2.filters = s.filters /\ \A d \in Clients : s2.cl[d].filters = s.cl[d].filters
        /\ \A d \in Clients : \/ s2.heard[d] = s.heard[d]
                              \/ d # c /\ MaxLines > 0 /\ s2.heard[d] = Append(s.heard[d], l)
    BY <1>2, <1>3, TextDispatched
  <2> HIDE DEF s2
  <2>2. s2.heard \in [Clients -> Seq(Lines)]
    BY <2>1 DEF States
  <2>3. Ordered(s2.heard, [f EXCEPT ![c] = Tail(@)])
    BY <1>2, <1>3, <2>1, <2>2, HeardNext
  <2>4. Counted(s2.cl, s2.filters, Listed)
    BY <1>1, <2>1, SameCount
  <2> QED
    BY <2>1, <2>3, <2>4 DEF s2
<1>4. CASE l.cmd # "none"
  <2>1. s2 = HandleCmd(s, l) /\ l.cmd \in CommandNames
    BY <1>2, <1>4 DEF Dispatch, Lines
  <2>2. s2 \in States /\ s2.heard = s.heard /\ Counted(s2.cl, s2.filters, Listed)
    <3> HIDE DEF s2, l
    <3>1. CASE l.cmd = "subscribe"
      BY <1>2, <2>1, <3>1, Subscribed
    <3>2. CASE l.cmd # "subscribe"
      <4>1. /\ s2 \in States /\ s2.heard = s.heard /\ s2.filters = s.filters
            /\ \A d \in Clients : s2.cl[d].filters = s.cl[d].filters
        BY <1>2, <2>1, <3>2, OtherCommands
      <4>2. Counted(s2.cl, s2.filters, Listed)
        BY <1>1, <4>1, SameCount
      <4> QED
        BY <4>1, <4>2
    <3> QED
      BY <3>1, <3>2
  <2> HIDE DEF s2
  <2>3. Ordered(s2.heard, [f EXCEPT ![c] = Tail(@)])
    BY <1>2, <2>2, HeardNext
  <2> QED
    BY <2>2, <2>3 DEF s2
<1> QED
  BY <1>3, <1>4

-----------------------------------------------------------------------------
(* A turn of the main loop.                                                *)

\* The last one read goes to the end of the list, and nobody is lost.
LEMMA RotateKeeps ==
  ASSUME TypeInv, NEW i \in 1..Len(clients)
  PROVE  Rotate(i) \in Seq(Clients) /\ Range(Rotate(i)) = Listed
<1> DEFINE n == Len(clients)
           t == RemoveAt(clients, i)
<1>1. clients \in Seq(Clients) /\ n \in Nat /\ \A j \in 1..n : clients[j] \in Clients
  BY DEF TypeInv
<1>2. /\ SubSeq(clients, 1, i - 1) \in Seq(Clients) /\ Len(SubSeq(clients, 1, i - 1)) = i - 1
      /\ \A j \in 1..(i - 1) : SubSeq(clients, 1, i - 1)[j] = clients[j]
  BY <1>1
<1>3. /\ SubSeq(clients, i + 1, n) \in Seq(Clients) /\ Len(SubSeq(clients, i + 1, n)) = n - i
      /\ \A j \in 1..(n - i) : SubSeq(clients, i + 1, n)[j] = clients[i + j]
  BY <1>1
<1>4. /\ t \in Seq(Clients) /\ Len(t) = n - 1
      /\ \A j \in 1..(n - 1) : t[j] = IF j < i THEN clients[j] ELSE clients[j + 1]
  <2> DEFINE left1 == SubSeq(clients, 1, i - 1)
             right == SubSeq(clients, i + 1, n)
  <2>1. t = left1 \o right
    BY DEF RemoveAt
  <2> HIDE DEF left1, right, t
  <2>2. left1 \in Seq(Clients) /\ right \in Seq(Clients) /\ Len(left1) = i - 1 /\ Len(right) = n - i
    BY <1>2, <1>3 DEF left1, right
  <2>3. t \in Seq(Clients) /\ Len(t) = n - 1
    <3>1. \A x, y \in Seq(Clients) : x \o y \in Seq(Clients) /\ Len(x \o y) = Len(x) + Len(y)
      OBVIOUS
    <3>2. (i - 1) + (n - i) = n - 1
      BY <1>1
    <3> QED
      BY <2>1, <2>2, <3>1, <3>2
  <2>4. \A j \in 1..(n - 1) : t[j] = IF j < i THEN left1[j] ELSE right[j - (i - 1)]
    <3>1. \A x, y \in Seq(Clients) : \A j \in 1..(Len(x) + Len(y)) :
            (x \o y)[j] = IF j <= Len(x) THEN x[j] ELSE y[j - Len(x)]
      OBVIOUS
    <3>2. \A j \in 1..(n - 1) : j \in 1..(Len(left1) + Len(right)) /\ (j <= i - 1 <=> j < i)
      BY <1>1, <2>2
    <3> QED
      BY <2>1, <2>2, <3>1, <3>2
  <2>5. \A j \in 1..(n - 1) : j < i => left1[j] = clients[j]
    BY <1>2 DEF left1
  <2>6. \A j \in 1..(n - 1) : ~ (j < i) => right[j - (i - 1)] = clients[j + 1]
    <3> SUFFICES ASSUME NEW j \in 1..(n - 1), ~ (j < i) PROVE right[j - (i - 1)] = clients[j + 1]
      OBVIOUS
    <3>1. j - (i - 1) \in 1..(n - i) /\ i + (j - (i - 1)) = j + 1
      BY <1>1
    <3> QED
      BY <1>3, <3>1 DEF right
  <2> QED
    BY <2>3, <2>4, <2>5, <2>6
<1> HIDE DEF t
<1>5. Range(t) = {clients[j] : j \in 1..n \ {i}}
  <2>1. Range(t) = {t[j] : j \in 1..(n - 1)}
    BY <1>1, <1>4 DEF Range
  <2>2. ASSUME NEW j \in 1..(n - 1) PROVE \E m \in 1..n \ {i} : clients[m] = t[j]
    <3>1. j \in 1..n \ {i} \/ j + 1 \in 1..n \ {i}
      BY <1>1
    <3>2. CASE j < i
      BY <1>1, <1>4, <3>2
    <3>3. CASE ~ (j < i)
      BY <1>1, <1>4, <3>3
    <3> QED
      BY <3>2, <3>3
  <2>3. ASSUME NEW m \in 1..n \ {i} PROVE \E j \in 1..(n - 1) : t[j] = clients[m]
    <3>1. CASE m < i
      <4>1. m \in 1..(n - 1) /\ t[m] = clients[m]
        BY <1>1, <1>4, <3>1
      <4> QED
        BY <4>1
    <3>2. CASE ~ (m < i)
      <4>1. m - 1 \in 1..(n - 1) /\ ~ (m - 1 < i) /\ (m - 1) + 1 = m
        BY <1>1, <3>2
      <4>2. t[m - 1] = clients[m]
        BY <1>4, <4>1
      <4> QED
        BY <4>1, <4>2
    <3> QED
      BY <3>1, <3>2
  <2> QED
    BY <2>1, <2>2, <2>3
<1>6. Rotate(i) = Append(t, clients[i]) /\ clients[i] \in Clients
  BY <1>1 DEF Rotate, t
<1>7. Listed = {clients[j] : j \in 1..n}
  BY <1>1 DEF Listed, Range
<1> QED
  BY <1>4, <1>5, <1>6, <1>7, RangeOfAppend

\* Lines that are handled are taken out of the socket.
LEMMA HandledKeeps ==
  ASSUME TypeInv, NEW c \in Clients, c \in Listed, NEW n \in 1..Len(from[c]), NEW s \in States,
         Counted(s.cl, s.filters, Listed), Ordered(s.heard, from)
  PROVE  LET s2 == Handled(s, Drain(SubSeq(from[c], 1, n)))
         IN  /\ s2 \in States /\ Counted(s2.cl, s2.filters, Listed)
             /\ Ordered(s2.heard, [from EXCEPT ![c] = SubSeq(@, n + 1, Len(@))])
<1> DEFINE m == Len(from[c])
           lines == SubSeq(from[c], 1, n)
           f(k) == [from EXCEPT ![c] = SubSeq(from[c], k + 1, m)]
<1>1. from \in [Clients -> Seq(Lines)] /\ from[c] \in Seq(Lines) /\ m \in Nat /\ n <= m /\ n \in Nat
  <2>1. from \in [Clients -> Sockets]
    BY DEF TypeInv
  <2>2. from \in [Clients -> Seq(Lines)]
    BY <2>1 DEF Sockets
  <2> QED
    BY <2>2
<1>2. Len(lines) = n /\ \A k \in 1..n : lines[k] = from[c][k]
  BY <1>1
<1> HIDE DEF lines
<1>3. PICK g : /\ g[0] = s /\ g[n] = Handled(s, lines)
               /\ \A k \in 1..n : g[k] = Dispatch(g[k - 1], lines[k])
  <2>1. \E g : /\ g[0] = s /\ g[Len(lines)] = Handled(s, lines)
              /\ \A k \in 1..Len(lines) : g[k] = Dispatch(g[k - 1], lines[k])
    <3>1. PICK ls : ls = lines
      OBVIOUS
    <3>2. Len(ls) \in Nat
      BY <1>1, <1>2, <3>1
    <3>3. \E g : /\ g[0] = s /\ g[Len(ls)] = Handled(s, ls)
                /\ \A k \in 1..Len(ls) : g[k] = Dispatch(g[k - 1], ls[k])
      BY <3>2, HandledSteps
    <3> QED
      BY <3>1, <3>3
  <2> QED
    BY <1>2, <2>1
<1> DEFINE Good == {k \in 0..n : /\ g[k] \in States /\ Counted(g[k].cl, g[k].filters, Listed)
                                 /\ Ordered(g[k].heard, f(k))}
<1>4. \A k \in 0..m : /\ SubSeq(from[c], k + 1, m) \in Seq(Lines) /\ Len(SubSeq(from[c], k + 1, m)) = m - k
                      /\ \A i \in 1..(m - k) : SubSeq(from[c], k + 1, m)[i] = from[c][k + i]
  BY <1>1
<1>5. 0 \in Good
  <2>1. SubSeq(from[c], 1, m) = from[c]
    BY <1>1
  <2>2. f(0) = from
    BY <1>1, <2>1
  <2> HIDE DEF f
  <2> QED
    BY <1>1, <1>3, <2>2
<1>6. ASSUME NEW k \in 0..(n - 1), k \in Good PROVE k + 1 \in Good
  <2> DEFINE rest == SubSeq(from[c], k + 1, m)
             rest2 == SubSeq(from[c], k + 2, m)
  <2>1. k \in 0..m /\ k + 1 \in 0..m /\ k + 1 \in 1..n /\ (k + 1) - 1 = k /\ (k + 1) + 1 = k + 2
    BY <1>1
  <2>2. /\ rest \in Seq(Lines) /\ Len(rest) = m - k /\ \A i \in 1..(m - k) : rest[i] = from[c][k + i]
        /\ rest2 \in Seq(Lines) /\ Len(rest2) = m - (k + 1)
        /\ \A i \in 1..(m - (k + 1)) : rest2[i] = from[c][(k + 1) + i]
    BY <1>4, <2>1
  <2> HIDE DEF rest, rest2
  <2>3. m - k > 0 /\ 1 \in 1..(m - k) /\ rest[1] = lines[k + 1]
    BY <1>1, <1>2, <2>1, <2>2
  <2>4. Tail(rest) = rest2
    <3>1. Tail(rest) \in Seq(Lines) /\ Len(Tail(rest)) = m - (k + 1)
          /\ \A i \in 1..(m - (k + 1)) : Tail(rest)[i] = rest[i + 1]
      BY <1>1, <2>1, <2>2, <2>3
    <3>2. \A i \in 1..(m - (k + 1)) : rest[i + 1] = rest2[i]
      <4> SUFFICES ASSUME NEW i \in 1..(m - (k + 1)) PROVE rest[i + 1] = rest2[i]
        OBVIOUS
      <4>1. i + 1 \in 1..(m - k) /\ k + (i + 1) = (k + 1) + i
        BY <1>1, <2>1
      <4> QED
        BY <2>2, <4>1
    <3> HIDE DEF m
    <3> QED
      BY <1>1, <2>1, <2>2, <3>1, <3>2
  <2>5. /\ f(k) \in [Clients -> Seq(Lines)] /\ f(k)[c] = rest
        /\ [f(k) EXCEPT ![c] = Tail(rest)] = f(k + 1)
    BY <1>1, <2>1, <2>2, <2>4 DEF rest, rest2
  <2> HIDE DEF f
  <2>6. g[k] \in States /\ Counted(g[k].cl, g[k].filters, Listed) /\ Ordered(g[k].heard, f(k))
    BY <1>6
  <2> DEFINE s2 == Dispatch(g[k], f(k)[c][1])
  <2>7. /\ s2 \in States /\ Counted(s2.cl, s2.filters, Listed)
        /\ Ordered(s2.heard, [f(k) EXCEPT ![c] = Tail(@)])
    BY <2>2, <2>3, <2>5, <2>6, DispatchKeeps
  <2>8. s2 = g[k + 1]
    BY <1>3, <2>1, <2>3, <2>5
  <2>9. [f(k) EXCEPT ![c] = Tail(@)] = f(k + 1)
    BY <2>5
  <2>10. k + 1 \in 0..n
    BY <2>1
  <2> HIDE DEF s2
  <2> QED
    BY <2>7, <2>8, <2>9, <2>10
<1>7. n \in Good
  <2> HIDE DEF Good
  <2>1. \A k \in 0..n : k \in Good
    BY <1>1, <1>5, <1>6, CountUp
  <2> QED
    BY <1>1, <2>1
<1> QED
  BY <1>3, <1>7 DEF Drain, lines

LEMMA ReadKeeps ==
  ASSUME IInv, Read
  PROVE  IInv'
<1> DEFINE ready(i) == clients[i] \in rfds /\ Alive(clients[i])
           speaks(i) == ready(i) /\ from[clients[i]] # <<>>
           first == IF \E i \in DOMAIN clients : speaks(i)
                    THEN CHOOSE i \in DOMAIN clients : speaks(i) /\ \A j \in 1 .. i - 1 : ~speaks(j)
                    ELSE Len(clients) + 1
           ended == {clients[i] : i \in {j \in 1 .. first - 1 : ready(j)}}
           here == [c \in Clients |-> IF c \in ended THEN Close(cl[c]) ELSE cl[c]]
           s == [cl |-> here, filters |-> filters, heard |-> heard]
<1>0. TypeInv /\ Counted(cl, filters, Listed) /\ Ordered(heard, from) /\ Listed \subseteq Clients
  BY ListedAre DEF IInv
<1>1. UNCHANGED <<to, sent>>
  BY DEF Read
<1>2. here \in [Clients -> ClientType] /\ \A c \in Clients : here[c].filters = cl[c].filters
  <2>1. cl \in [Clients -> ClientType]
    BY <1>0 DEF TypeInv
  <2> HIDE DEF ended
  <2> QED
    BY <2>1, ClosedClient
<1>3. Counted(here, filters, Listed)
  <2> HIDE DEF here
  <2> QED
    BY <1>0, <1>2, SameCount
<1>4. \A k : \A c \in Clients : Hangups(k)[c] \in {peer[c], "gone"}
  BY DEF Hangups
<1>5. \A k : Hangups(k) \in [Clients -> {"away", "waiting", "there", "gone"}]
  BY <1>0 DEF TypeInv, Hangups
<1>6. CASE first > Len(clients)
  <2>1. cl' = here /\ peer' = Hangups(here) /\ UNCHANGED <<clients, filters, from, heard>>
    BY <1>6 DEF Read
  <2> HIDE DEF here, first
  <2>2. TypeInv'
    BY <1>0, <1>1, <1>2, <1>5, <2>1 DEF TypeInv
  <2>3. Counted(cl, filters, Listed)'
    BY <1>3, <2>1 DEF Counted, Uses, Listed
  <2>4. Ordered(heard, from)'
    BY <1>0, <1>1, <2>1 DEF Ordered
  <2> QED
    BY <2>2, <2>3, <2>4 DEF IInv
<1>7. CASE ~ (first > Len(clients))
  <2> DEFINE c == clients[first]
  <2>1. PICK n \in 1..Len(from[c]) :
           LET after == Handled(s, Drain(SubSeq(from[c], 1, n)))
           IN  /\ cl' = after.cl /\ filters' = after.filters /\ heard' = after.heard
               /\ peer' = Hangups(after.cl)
               /\ from' = [from EXCEPT ![c] = SubSeq(@, n + 1, Len(@))]
               /\ clients' = Rotate(first)
    BY <1>7 DEF Read
  <2>2. first \in 1..Len(clients)
    <3>1. Len(clients) \in Nat /\ DOMAIN clients = 1..Len(clients)
      BY <1>0 DEF TypeInv
    <3> HIDE DEF speaks
    <3>2. \E i \in DOMAIN clients : speaks(i)
      BY <1>7, <3>1
    <3> DEFINE T == {i \in DOMAIN clients : speaks(i)}
    <3>3. PICK i \in T : \A j \in T : i <= j
      <4>1. T \subseteq Nat /\ T # {}
        BY <3>1, <3>2
      <4> HIDE DEF T
      <4> QED
        BY <4>1, LeastNumber
    <3>4. \E k \in DOMAIN clients : speaks(k) /\ \A j \in 1..(k - 1) : ~speaks(j)
      <4>1. i \in 1..Len(clients) /\ speaks(i)
        BY <3>1, <3>3
      <4>2. \A j \in 1..(i - 1) : j \in DOMAIN clients /\ ~ (i <= j)
        BY <3>1, <4>1
      <4>3. \A j \in 1..(i - 1) : ~speaks(j)
        BY <3>3, <4>2
      <4> QED
        BY <3>1, <4>1, <4>3
    <3>5. first \in DOMAIN clients
      BY <3>2, <3>4
    <3> QED
      BY <3>1, <3>5
  <2> HIDE DEF first
  <2>3. c \in Clients /\ c \in Listed
    BY <1>0, <2>2 DEF TypeInv, Listed, Range
  <2>4. s \in States /\ s.cl = here /\ s.filters = filters /\ s.heard = heard
    BY <1>0, <1>2 DEF TypeInv, States
  <2> HIDE DEF s, here, c
  <2> DEFINE s2 == Handled(s, Drain(SubSeq(from[c], 1, n)))
  <2>5. /\ s2 \in States /\ Counted(s2.cl, s2.filters, Listed)
        /\ Ordered(s2.heard, [from EXCEPT ![c] = SubSeq(@, n + 1, Len(@))])
    <3>1. PICK r \in States : r = s
      BY <2>4
    <3>2. Counted(r.cl, r.filters, Listed) /\ Ordered(r.heard, from)
      BY <1>0, <1>3, <2>4, <3>1
    <3>3. PICK d \in Clients : d = c
      BY <2>3
    <3>4. d \in Listed /\ n \in 1..Len(from[d])
      BY <2>3, <3>3
    <3> DEFINE s3 == Handled(r, Drain(SubSeq(from[d], 1, n)))
    <3>5. /\ s3 \in States /\ Counted(s3.cl, s3.filters, Listed)
          /\ Ordered(s3.heard, [from EXCEPT ![d] = SubSeq(@, n + 1, Len(@))])
      BY <1>0, <3>2, <3>4, HandledKeeps
    <3> QED
      BY <3>1, <3>3, <3>5
  <2>6. /\ cl' = s2.cl /\ filters' = s2.filters /\ heard' = s2.heard /\ peer' = Hangups(s2.cl)
        /\ from' = [from EXCEPT ![c] = SubSeq(@, n + 1, Len(@))]
        /\ clients' = Rotate(first)
    BY <2>1
  <2> HIDE DEF s2
  <2>7. Range(clients') = Listed /\ clients' \in Seq(Clients)
    BY <1>0, <2>2, <2>6, RotateKeeps
  <2>8. /\ s2.cl \in [Clients -> ClientType] /\ s2.filters \in FilterMaps /\ s2.heard \in [Clients -> Seq(Lines)]
    BY <2>5 DEF States
  <2>9. from' \in [Clients -> Sockets]
    <3>1. from \in [Clients -> Sockets] /\ from[c] \in Seq(Lines) /\ Len(from[c]) <= SocketRoom /\ SocketRoom \in Nat
      BY <1>0, <2>3, LineBusAssumption DEF TypeInv, Sockets
    <3>2. SubSeq(from[c], n + 1, Len(from[c])) \in Seq(Lines)
          /\ Len(SubSeq(from[c], n + 1, Len(from[c]))) = Len(from[c]) - n
      BY <3>1
    <3>3. SubSeq(from[c], n + 1, Len(from[c])) \in Sockets
      BY <3>1, <3>2 DEF Sockets
    <3> QED
      BY <2>6, <3>1, <3>3
  <2>10. TypeInv'
    BY <1>0, <1>1, <1>5, <2>6, <2>7, <2>8, <2>9 DEF TypeInv
  <2>11. Counted(cl, filters, Listed)'
    <3>1. Listed' = Listed
      BY <2>7 DEF Listed
    <3>2. Counted(cl', filters', Listed')
      BY <2>5, <2>6, <3>1
    <3> QED
      BY <3>2 DEF Counted, Uses
  <2>12. Ordered(heard, from)'
    <3>1. Ordered(heard', from')
      BY <2>5, <2>6
    <3> QED
      BY <1>1, <3>1 DEF Ordered
  <2> QED
    BY <2>10, <2>11, <2>12 DEF IInv
<1> QED
  BY <1>6, <1>7

LEMMA WriteKeeps ==
  ASSUME IInv, Write
  PROVE  IInv'
<1> DEFINE now == {c \in wfds : Alive(c)}
           n(c) == IF Len(cl[c].out) < SocketRoom - Len(to[c]) THEN Len(cl[c].out)
                                                               ELSE SocketRoom - Len(to[c])
           written == {c \in now : peer[c] = "there"}
<1>0. TypeInv /\ Counted(cl, filters, Listed) /\ Ordered(heard, from) /\ Listed \subseteq Clients
  BY ListedAre DEF IInv
<1>1. /\ cl' = [c \in Clients |-> IF c \in written THEN [cl[c] EXCEPT !.out = SubSeq(@, n(c) + 1, Len(@))]
                                  ELSE IF c \in now THEN Close(cl[c]) ELSE cl[c]]
      /\ to' = [c \in Clients |-> IF c \in written THEN to[c] \o SubSeq(cl[c].out, 1, n(c)) ELSE to[c]]
      /\ UNCHANGED <<clients, filters, up, peer, hung, from, left, sent, heard>>
  BY DEF Write
<1>2. /\ cl \in [Clients -> ClientType] /\ to \in [Clients -> Sockets]
      /\ SocketRoom \in Nat /\ OutRoom \in Nat
  BY <1>0, LineBusAssumption DEF TypeInv
<1> HIDE DEF now, written
<1>3. ASSUME NEW c \in Clients
      PROVE  /\ cl'[c] \in ClientType /\ cl'[c].filters = cl[c].filters
             /\ to'[c] \in Sockets
  <2> DEFINE out == cl[c].out
             m == n(c)
             kept == SubSeq(out, m + 1, Len(out))
             put == SubSeq(out, 1, m)
  <2>1. out \in Seq(Lines) /\ Len(out) \in Nat /\ Len(out) <= OutRoom
    BY <1>2 DEF ClientType, Buffers
  <2>2. to[c] \in Seq(Lines) /\ Len(to[c]) \in Nat /\ Len(to[c]) <= SocketRoom
    BY <1>2 DEF Sockets
  <2>3. m \in 0..Len(out) /\ m <= SocketRoom - Len(to[c])
    BY <1>2, <2>1, <2>2
  <2> HIDE DEF m, out
  <2>4. kept \in Seq(Lines) /\ Len(kept) = Len(out) - m
    BY <2>1, <2>3
  <2>5. put \in Seq(Lines) /\ Len(put) = m
    BY <2>1, <2>3
  <2>6. kept \in Buffers
    BY <1>2, <2>1, <2>3, <2>4 DEF Buffers
  <2> HIDE DEF put, kept
  <2>7. to[c] \o put \in Sockets
    <3>1. \A x, y \in Seq(Lines) : x \o y \in Seq(Lines) /\ Len(x \o y) = Len(x) + Len(y)
      OBVIOUS
    <3>2. Len(to[c]) + m <= SocketRoom
      BY <1>2, <2>1, <2>2, <2>3
    <3> QED
      BY <2>2, <2>5, <3>1, <3>2 DEF Sockets
  <2>8. cl[c] \in ClientType /\ Close(cl[c]) \in ClientType /\ Close(cl[c]).filters = cl[c].filters
    BY <1>2, ClosedClient
  <2>9. /\ [cl[c] EXCEPT !.out = kept] \in ClientType
        /\ [cl[c] EXCEPT !.out = kept].filters = cl[c].filters
    BY <2>6, <2>8 DEF ClientType
  <2>10. cl'[c] \in {[cl[c] EXCEPT !.out = kept], Close(cl[c]), cl[c]}
    BY <1>1 DEF kept, m, out
  <2>11. to'[c] \in {to[c] \o put, to[c]}
    BY <1>1 DEF put, m, out
  <2> QED
    BY <1>2, <2>7, <2>8, <2>9, <2>10, <2>11
<1>4. cl' \in [Clients -> ClientType] /\ to' \in [Clients -> Sockets]
  <2>1. DOMAIN cl' = Clients /\ cl' = [c \in Clients |-> cl'[c]]
    BY <1>1
  <2>2. DOMAIN to' = Clients /\ to' = [c \in Clients |-> to'[c]]
    BY <1>1
  <2> QED
    BY <1>3, <2>1, <2>2
<1>5. TypeInv'
  BY <1>0, <1>1, <1>4 DEF TypeInv
<1>6. Counted(cl, filters, Listed)'
  <2>1. Listed' = Listed
    BY <1>1 DEF Listed
  <2>2. Counted(cl', filters, Listed)
    BY <1>0, <1>3, SameCount
  <2>3. Counted(cl', filters', Listed')
    BY <1>1, <2>1, <2>2
  <2> QED
    BY <2>3 DEF Counted, Uses
<1>7. Ordered(heard, from)'
  BY <1>0, <1>1 DEF Ordered
<1> QED
  BY <1>5, <1>6, <1>7 DEF IInv

\* Without the references of the clients that are gone the filters are counted right for the rest.
LEMMA RestCounted ==
  ASSUME TypeInv, Counted(cl, filters, Listed), NEW gone, gone \subseteq Listed
  PROVE  /\ ReapFilters(Freed(filters, gone)) \in FilterMaps
         /\ Counted(cl, ReapFilters(Freed(filters, gone)), Listed \ gone)
<1> DEFINE freed == Freed(filters, gone)
           fs == ReapFilters(freed)
           old(p) == Uses(cl, p, Listed)
           lost(p) == Uses(cl, p, gone)
           kept(p) == Uses(cl, p, Listed \ gone)
<1>1. DOMAIN filters \subseteq Pfx /\ filters \in [DOMAIN filters -> Int]
  BY FilterMapIs DEF TypeInv
<1>2. ASSUME NEW p \in Pfx
      PROVE  /\ IsFiniteSet(old(p)) /\ IsFiniteSet(lost(p)) /\ IsFiniteSet(kept(p))
             /\ Cardinality(lost(p)) \in Nat /\ Cardinality(kept(p)) \in Nat
             /\ Cardinality(old(p)) = Cardinality(lost(p)) + Cardinality(kept(p))
  <2>1. IsFiniteSet(old(p))
    <3> HIDE DEF old
    <3> QED
      BY DEF Counted, old
  <2>2. old(p) = lost(p) \cup kept(p) /\ lost(p) \cap kept(p) = {}
    BY DEF Uses
  <2> HIDE DEF old, lost, kept
  <2>3. IsFiniteSet(lost(p)) /\ IsFiniteSet(kept(p))
    BY <2>1, <2>2, FS_Subset
  <2>4. Cardinality(lost(p)) \in Nat /\ Cardinality(kept(p)) \in Nat
    BY <2>3, FS_CardinalityType
  <2>5. Cardinality(lost(p) \cup kept(p)) = Cardinality(lost(p)) + Cardinality(kept(p))
    BY <2>2, <2>3, <2>4, FS_Union, FS_EmptySet
  <2> QED
    BY <2>1, <2>2, <2>3, <2>4, <2>5
<1>3. DOMAIN freed = DOMAIN filters /\ \A p \in DOMAIN filters : freed[p] = filters[p] - Cardinality(lost(p))
  BY DEF Freed
<1>4. freed \in [DOMAIN filters -> Int]
  <2> HIDE DEF lost
  <2>1. freed = [p \in DOMAIN filters |-> filters[p] - Cardinality(lost(p))]
    BY DEF Freed, lost
  <2> QED
    BY <1>1, <1>2, <2>1
<1> HIDE DEF freed
<1>5. /\ DOMAIN fs = {p \in DOMAIN filters : freed[p] >= 0}
      /\ \A p \in DOMAIN fs : fs[p] = freed[p]
      /\ fs \in [DOMAIN fs -> Int]
  BY <1>3, <1>4 DEF ReapFilters
<1>6. fs \in FilterMaps
  <2> HIDE DEF fs
  <2>1. DOMAIN fs \in SUBSET Pfx
    BY <1>1, <1>5
  <2> QED
    BY <1>5, <2>1, FilterMapsAre
<1> HIDE DEF fs
<1>7. ASSUME NEW p \in Pfx
      PROVE  /\ IsFiniteSet(kept(p))
             /\ p \in DOMAIN fs <=> kept(p) # {}
             /\ p \in DOMAIN fs => fs[p] = Cardinality(kept(p)) - 1
  <2>1. /\ p \in DOMAIN filters <=> old(p) # {}
        /\ p \in DOMAIN filters => filters[p] = Cardinality(old(p)) - 1
    <3> HIDE DEF old
    <3> QED
      BY DEF Counted, old
  <2> HIDE DEF old, lost, kept
  <2>2. (kept(p) = {} <=> Cardinality(kept(p)) = 0) /\ (old(p) = {} <=> Cardinality(old(p)) = 0)
    BY <1>2, FS_EmptySet
  <2>3. CASE p \in DOMAIN filters
    <3>1. freed[p] = Cardinality(kept(p)) - 1
      BY <1>2, <1>3, <2>1, <2>3
    <3>2. p \in DOMAIN fs <=> Cardinality(kept(p)) - 1 >= 0
      BY <1>5, <2>3, <3>1
    <3> QED
      BY <1>2, <1>5, <2>2, <3>1, <3>2
  <2>4. CASE p \notin DOMAIN filters
    <3>1. p \notin DOMAIN fs
      BY <1>5, <2>4
    <3>2. Cardinality(kept(p)) = 0
      BY <1>2, <2>1, <2>2, <2>4
    <3> QED
      BY <1>2, <2>2, <3>1, <3>2
  <2> QED
    BY <2>3, <2>4
<1>8. Counted(cl, fs, Listed \ gone)
  BY <1>7 DEF Counted
<1> QED
  BY <1>6, <1>8 DEF fs, freed

\* A client that is accepted has no filters yet.
LEMMA AcceptedCounted ==
  ASSUME NEW k, NEW k2, NEW fs, NEW rest, NEW cs, rest \subseteq cs, Counted(k, fs, rest),
         \A c \in rest : k2[c].filters = k[c].filters, \A c \in cs \ rest : k2[c].filters = <<>>
  PROVE  Counted(k2, fs, cs)
<1>1. ASSUME NEW p \in Pfx PROVE Uses(k2, p, cs) = Uses(k, p, rest)
  <2>1. \A c \in cs \ rest : DOMAIN k2[c].filters = {}
    OBVIOUS
  <2> QED
    BY <2>1 DEF Uses
<1> QED
  BY <1>1 DEF Counted

LEMMA ReapKeeps ==
  ASSUME IInv, Reap
  PROVE  IInv'
<1> DEFINE gone == {c \in Listed : ~cl[c].open}
           rest == OpenOnly(clients, Listed \ gone)
           accept(c) == "sck" \in rfds /\ peer[c] = "waiting"
           Cond == {"away", "waiting", "there", "gone"}
<1>0. TypeInv /\ Counted(cl, filters, Listed) /\ Ordered(heard, from) /\ Listed \subseteq Clients
  BY ListedAre DEF IInv
<1>1. UNCHANGED <<to, from, sent, heard>>
  BY DEF Reap
<1>2. Ordered(heard, from)'
  BY <1>0, <1>1 DEF Ordered
<1>3. CASE \E c \in gone : Loses(c)
  <2>1. UNCHANGED <<clients, cl, filters, peer>>
    BY <1>3 DEF Reap
  <2>2. TypeInv'
    BY <1>0, <1>1, <2>1 DEF TypeInv
  <2>3. Counted(cl, filters, Listed)'
    BY <1>0, <2>1 DEF Counted, Uses, Listed
  <2> QED
    BY <1>2, <2>2, <2>3 DEF IInv
<1>4. CASE ~ \E c \in gone : Loses(c)
  <2>1. /\ filters' = ReapFilters(Freed(filters, gone))
        /\ cl' = [c \in Clients |-> IF c \in Range(rest) THEN cl[c] ELSE NewClient]
        /\ IF \E c \in Clients : accept(c)
           THEN \E c \in Clients : accept(c) /\ clients' = <<c>> \o rest
                                   /\ peer' = [peer EXCEPT ![c] = "there"]
           ELSE clients' = rest /\ UNCHANGED peer
    BY <1>4 DEF Reap
  <2>2. filters' \in FilterMaps /\ Counted(cl, filters', Listed \ gone)
    <3> HIDE DEF gone
    <3>1. gone \subseteq Listed
      BY DEF gone
    <3> QED
      BY <1>0, <2>1, <3>1, RestCounted
  <2>3. rest \in Seq(Clients) /\ Range(rest) = Listed \ gone
    <3>1. clients \in Seq(Clients)
      BY <1>0 DEF TypeInv
    <3>2. Range(rest) = Range(clients) \cap (Listed \ gone)
      BY <3>1, OpenOnlyKeeps
    <3> QED
      BY <3>1, <3>2, OpenOnlyKeeps DEF Listed
  <2> HIDE DEF rest, gone
  <2>4. NewClient \in ClientType /\ NewClient.filters = <<>>
    <3>1. <<>> \in Buffers
      <4>1. <<>> \in Seq(Lines) /\ Len(<<>>) = 0 /\ OutRoom \in Nat
        BY LineBusAssumption
      <4> QED
        BY <4>1 DEF Buffers
    <3> QED
      BY <3>1 DEF NewClient, ClientType
  <2>5. /\ cl' \in [Clients -> ClientType]
        /\ \A c \in Clients : cl'[c] = IF c \in Listed \ gone THEN cl[c] ELSE NewClient
    BY <1>0, <2>1, <2>3, <2>4 DEF TypeInv
  <2>6. /\ clients' \in Seq(Clients) /\ Listed \ gone \subseteq Range(clients') /\ Range(clients') \subseteq Clients
        /\ peer' \in [Clients -> Cond]
    <3>1. CASE \E c \in Clients : accept(c)
      <4>1. PICK c \in Clients : clients' = <<c>> \o rest /\ peer' = [peer EXCEPT ![c] = "there"]
        BY <2>1, <3>1
      <4>2. peer' \in [Clients -> Cond]
        BY <1>0, <4>1 DEF TypeInv
      <4>3. /\ <<c>> \o rest \in Seq(Clients) /\ Len(<<c>> \o rest) = Len(rest) + 1 /\ Len(rest) \in Nat
            /\ \A i \in 1..Len(rest) : (<<c>> \o rest)[i + 1] = rest[i]
        BY <2>3
      <4>4. Range(rest) \subseteq Range(<<c>> \o rest)
        <5> SUFFICES ASSUME NEW x \in Range(rest) PROVE x \in Range(<<c>> \o rest)
          OBVIOUS
        <5>1. PICK i \in 1..Len(rest) : rest[i] = x
          BY <2>3 DEF Range
        <5>2. i + 1 \in DOMAIN (<<c>> \o rest) /\ (<<c>> \o rest)[i + 1] = x
          BY <4>3, <5>1
        <5> HIDE DEF rest
        <5> QED
          BY <5>2 DEF Range
      <4>5. Range(<<c>> \o rest) \subseteq Clients
        BY <4>3 DEF Range
      <4> QED
        BY <2>3, <4>1, <4>2, <4>3, <4>4, <4>5
    <3>2. CASE ~ \E c \in Clients : accept(c)
      <4>1. clients' = rest /\ peer' = peer
        BY <2>1, <3>2
      <4> QED
        BY <1>0, <2>3, <4>1 DEF TypeInv
    <3> QED
      BY <3>1, <3>2
  <2>7. TypeInv'
    BY <1>0, <1>1, <2>2, <2>5, <2>6 DEF TypeInv
  <2>8. Counted(cl', filters', Range(clients'))
    <3>1. \A c \in Listed \ gone : cl'[c].filters = cl[c].filters
      BY <1>0, <2>5
    <3>2. \A c \in Range(clients') \ (Listed \ gone) : cl'[c].filters = <<>>
      BY <2>4, <2>5, <2>6
    <3> QED
      BY <2>2, <2>6, <3>1, <3>2, AcceptedCounted
  <2>9. Counted(cl, filters, Listed)'
    <3>1. Listed' = Range(clients')
      BY DEF Listed
    <3>2. Counted(cl', filters', Listed')
      BY <2>8, <3>1
    <3> QED
      BY <3>2 DEF Counted, Uses
  <2> QED
    BY <1>2, <2>7, <2>9 DEF IInv
<1> QED
  BY <1>3, <1>4

-----------------------------------------------------------------------------
(* The programs at the other ends.                                         *)

\* What the clients do leaves the daemon as it is.
LEMMA DaemonUntouched ==
  ASSUME IInv, UNCHANGED <<daemon, heard>>,
         to' \in [Clients -> Sockets], from' \in [Clients -> Sockets], sent' \in [Clients -> Nat],
         MaxLines = 0 => \A c \in Clients : sent'[c] = 0,
         peer' \in [Clients -> {"away", "waiting", "there", "gone"}], Ordered(heard, from)'
  PROVE  IInv'
<1>1. UNCHANGED <<clients, cl, filters, heard>> /\ TypeInv /\ Counted(cl, filters, Listed)
  BY DEF daemon, IInv
<1>2. TypeInv'
  BY <1>1 DEF TypeInv
<1>3. Counted(cl, filters, Listed)'
  <2>1. Counted(cl', filters', Listed')
    BY <1>1 DEF Listed
  <2> QED
    BY <2>1 DEF Counted, Uses
<1> QED
  BY <1>2, <1>3 DEF IInv

\* A socket with room takes a line.
LEMMA SocketTakes ==
  ASSUME NEW b \in Sockets, Len(b) < SocketRoom, NEW l \in Lines
  PROVE  /\ Append(b, l) \in Sockets /\ Len(Append(b, l)) = Len(b) + 1 /\ Len(b) \in Nat
         /\ Append(b, l)[Len(b) + 1] = l
         /\ \A i \in 1..Len(b) : Append(b, l)[i] = b[i]
<1>1. b \in Seq(Lines) /\ SocketRoom \in Nat
  BY LineBusAssumption DEF Sockets
<1>2. Append(b, l) \in Seq(Lines) /\ Len(Append(b, l)) = Len(b) + 1 /\ Len(b) \in Nat
  BY <1>1
<1> QED
  BY <1>1, <1>2 DEF Sockets

LEMMA EmptySocket == <<>> \in Sockets /\ Len(<<>>) = 0
BY LineBusAssumption DEF Sockets

LEMMA ConnectKeeps ==
  ASSUME IInv, NEW c \in Clients, Connect(c)
  PROVE  IInv'
<1>1. /\ peer' = [peer EXCEPT ![c] = "waiting"] /\ UNCHANGED <<daemon, sent, heard>>
      /\ to' = [to EXCEPT ![c] = <<>>] /\ from' = [from EXCEPT ![c] = <<>>]
  BY DEF Connect
<1>2. TypeInv /\ Ordered(heard, from)
  BY DEF IInv
<1>3. to' \in [Clients -> Sockets] /\ from' \in [Clients -> Sockets] /\ sent' \in [Clients -> Nat]
  BY <1>1, <1>2, EmptySocket DEF TypeInv
<1>4. peer' \in [Clients -> {"away", "waiting", "there", "gone"}]
  BY <1>1, <1>2 DEF TypeInv
<1>5. \A d \in Clients : /\ d # c => from'[d] = from[d]
                         /\ d = c => 1..Len(from'[d]) = {}
  BY <1>1, <1>2, EmptySocket DEF TypeInv
<1>6. Ordered(heard, from)'
  <2>1. \A d \in Clients : \A i \in 1..Len(from'[d]) : from'[d] = from[d]
    BY <1>5
  <2> QED
    <3>1. heard' = heard /\ sent' = sent
      BY <1>1
    <3>2. \A d \in Clients : \A i \in 1..Len(from'[d]) : i \in 1..Len(from[d])
      BY <1>5
    <3>3. \A d \in Clients : \A i \in 1..Len(from'[d]) : from'[d][i].from = d /\ from'[d][i].no <= sent[d]
      BY <1>2, <2>1, <3>2 DEF Ordered
    <3>4. MaxLines > 0 => \A d \in Clients : \A i, j \in 1..Len(from'[d]) :
            i < j /\ from'[d][i].cmd = "none" /\ from'[d][j].cmd = "none" => from'[d][i].no < from'[d][j].no
      BY <1>2, <2>1, <3>2 DEF Ordered
    <3>5. \A d \in Clients : \A i \in 1..Len(heard[d]) : heard[d][i].from \in Clients
      <4>1. \A d \in Clients : heard[d] \in Seq(Lines)
        BY <1>2 DEF TypeInv
      <4>2. \A d \in Clients : \A i \in 1..Len(heard[d]) : heard[d][i] \in Lines
        BY <4>1
      <4> QED
        BY <4>2 DEF Lines
    <3>6. ASSUME MaxLines > 0, NEW d \in Clients, NEW i \in 1..Len(heard[d])
          PROVE  /\ heard[d][i].from # d /\ heard[d][i].no <= sent[heard[d][i].from]
                 /\ \A j \in 1..Len(from'[heard[d][i].from]) :
                      from'[heard[d][i].from][j].cmd = "none" => heard[d][i].no < from'[heard[d][i].from][j].no
      BY <1>2, <2>1, <3>2, <3>5, <3>6 DEF Ordered
    <3>7. /\ MaxLines = 0 => \A d \in Clients : heard[d] = <<>>
          /\ MaxLines > 0 => \A d \in Clients : \A i, j \in 1..Len(heard[d]) :
               i < j /\ heard[d][i].from = heard[d][j].from => heard[d][i].no < heard[d][j].no
      BY <1>2 DEF Ordered
    <3> QED
      BY <3>1, <3>3, <3>4, <3>6, <3>7 DEF Ordered
<1>7. MaxLines = 0 => \A d \in Clients : sent'[d] = 0
  BY <1>1, <1>2 DEF TypeInv
<1> QED
  BY <1>1, <1>3, <1>4, <1>6, <1>7, DaemonUntouched

\* What is to be shown of a step that nobody hears.
LEMMA OrderedNext ==
  ASSUME heard' = heard,
         \A d \in Clients : \A i \in 1..Len(from'[d]) : from'[d][i].from = d /\ from'[d][i].no <= sent'[d],
         MaxLines = 0 => \A d \in Clients : heard[d] = <<>>,
         MaxLines > 0 => \A d \in Clients : \A i, j \in 1..Len(from'[d]) :
            i < j /\ from'[d][i].cmd = "none" /\ from'[d][j].cmd = "none" => from'[d][i].no < from'[d][j].no,
         MaxLines > 0 => \A d \in Clients : \A i \in 1..Len(heard[d]) :
            /\ heard[d][i].from # d /\ heard[d][i].no <= sent'[heard[d][i].from]
            /\ \A j \in 1..Len(from'[heard[d][i].from]) :
                 from'[heard[d][i].from][j].cmd = "none" => heard[d][i].no < from'[heard[d][i].from][j].no,
         MaxLines > 0 => \A d \in Clients : \A i, j \in 1..Len(heard[d]) :
            i < j /\ heard[d][i].from = heard[d][j].from => heard[d][i].no < heard[d][j].no
  PROVE  Ordered(heard, from)'
BY DEF Ordered

\* A client puts a line of its own into its socket: a command, or the next text.
LEMMA PutKeeps ==
  ASSUME IInv, UNCHANGED <<daemon, peer, to, heard>>, NEW c \in Clients, Len(from[c]) < SocketRoom,
         NEW l \in Lines, l.from = c, from' = [from EXCEPT ![c] = Append(@, l)],
         sent' \in [Clients -> Nat], \A d \in Clients : sent[d] <= sent'[d], l.no <= sent'[c],
         l.cmd = "none" /\ MaxLines > 0 => sent[c] < l.no,
         MaxLines = 0 => \A d \in Clients : sent'[d] = 0
  PROVE  IInv'
<1>1. TypeInv /\ Ordered(heard, from) /\ l.no \in Nat /\ sent \in [Clients -> Nat]
  BY DEF IInv, TypeInv, Lines
<1>2. from \in [Clients -> Sockets] /\ from[c] \in Sockets
  BY <1>1 DEF TypeInv
<1>3. /\ from' \in [Clients -> Sockets] /\ \A d \in Clients : d # c => from'[d] = from[d]
      /\ from'[c] = Append(from[c], l)
  BY <1>2, SocketTakes
<1>4. /\ Len(from'[c]) = Len(from[c]) + 1 /\ Len(from[c]) \in Nat /\ from'[c][Len(from[c]) + 1] = l
      /\ \A i \in 1..Len(from[c]) : from'[c][i] = from[c][i]
  BY <1>2, <1>3, SocketTakes
<1>5. \A d \in Clients : \A i \in 1..Len(from'[d]) :
        \/ i \in 1..Len(from[d]) /\ from'[d][i] = from[d][i]
        \/ d = c /\ i = Len(from[c]) + 1 /\ from'[d][i] = l
  BY <1>3, <1>4
<1>6. \A d \in Clients : \A i \in 1..Len(from[d]) : from[d][i].no \in Nat /\ from[d][i].no <= sent[d]
  <2>1. \A d \in Clients : from[d] \in Seq(Lines)
    BY <1>2 DEF Sockets
  <2>2. \A d \in Clients : \A i \in 1..Len(from[d]) : from[d][i] \in Lines
    BY <2>1
  <2> QED
    BY <1>1, <2>2 DEF Ordered, Lines
<1>7. \A d \in Clients : \A i \in 1..Len(heard[d]) : heard[d][i].no \in Nat /\ heard[d][i].from \in Clients
  <2>1. \A d \in Clients : heard[d] \in Seq(Lines)
    BY <1>1 DEF TypeInv
  <2>2. \A d \in Clients : \A i \in 1..Len(heard[d]) : heard[d][i] \in Lines
    BY <2>1
  <2> QED
    BY <2>2 DEF Lines
<1>8. \A d \in Clients : \A i \in 1..Len(from'[d]) : from'[d][i].from = d /\ from'[d][i].no <= sent'[d]
  <2> SUFFICES ASSUME NEW d \in Clients, NEW i \in 1..Len(from'[d])
               PROVE  from'[d][i].from = d /\ from'[d][i].no <= sent'[d]
    OBVIOUS
  <2>1. CASE i \in 1..Len(from[d]) /\ from'[d][i] = from[d][i]
    BY <1>1, <1>6, <2>1 DEF Ordered
  <2>2. CASE d = c /\ from'[d][i] = l
    BY <2>2
  <2> QED
    BY <1>5, <2>1, <2>2
<1>9. ASSUME MaxLines > 0, NEW d \in Clients, NEW i \in 1..Len(from'[d]), NEW j \in 1..Len(from'[d]), i < j,
             from'[d][i].cmd = "none", from'[d][j].cmd = "none"
      PROVE  from'[d][i].no < from'[d][j].no
  <2>1. CASE j \in 1..Len(from[d]) /\ from'[d][j] = from[d][j]
    <3>1. i \in 1..Len(from[d]) /\ from'[d][i] = from[d][i]
      <4>1. Len(from[d]) \in Nat
        BY <1>2 DEF Sockets
      <4> QED
        BY <1>3, <1>4, <1>9, <2>1, <4>1
    <3> QED
      BY <1>1, <1>9, <2>1, <3>1 DEF Ordered
  <2>2. CASE d = c /\ j = Len(from[c]) + 1 /\ from'[d][j] = l
    <3>1. i \in 1..Len(from[c]) /\ from'[c][i] = from[c][i]
      BY <1>4, <1>9, <2>2
    <3>2. from[c][i].no <= sent[c] /\ sent[c] < l.no /\ from[c][i].no \in Nat /\ sent[c] \in Nat
      BY <1>1, <1>6, <1>9, <2>2, <3>1
    <3> QED
      BY <1>1, <2>2, <3>1, <3>2
  <2> QED
    BY <1>5, <2>1, <2>2
<1>10. ASSUME MaxLines > 0, NEW d \in Clients, NEW i \in 1..Len(heard[d])
       PROVE  /\ heard[d][i].from # d /\ heard[d][i].no <= sent'[heard[d][i].from]
              /\ \A j \in 1..Len(from'[heard[d][i].from]) :
                   from'[heard[d][i].from][j].cmd = "none" => heard[d][i].no < from'[heard[d][i].from][j].no
  <2> DEFINE e == heard[d][i].from
             no == heard[d][i].no
  <2>1. /\ e # d /\ no <= sent[e] /\ no \in Nat /\ e \in Clients
        /\ \A j \in 1..Len(from[e]) : from[e][j].cmd = "none" => no < from[e][j].no
    BY <1>1, <1>7, <1>10 DEF Ordered
  <2> HIDE DEF e, no
  <2>2. no <= sent'[e]
    BY <1>1, <2>1
  <2>3. ASSUME NEW j \in 1..Len(from'[e]), from'[e][j].cmd = "none" PROVE no < from'[e][j].no
    <3>1. CASE j \in 1..Len(from[e]) /\ from'[e][j] = from[e][j]
      BY <2>1, <2>3, <3>1
    <3>2. CASE e = c /\ from'[e][j] = l
      BY <1>1, <1>10, <2>1, <2>3, <3>2
    <3> QED
      BY <1>5, <2>1, <3>1, <3>2
  <2> QED
    BY <2>1, <2>2, <2>3 DEF e, no
<1>11. Ordered(heard, from)'
  <2>1. MaxLines = 0 => \A d \in Clients : heard[d] = <<>>
    BY <1>1 DEF Ordered
  <2>2. MaxLines > 0 => \A d \in Clients : \A i, j \in 1..Len(heard[d]) :
          i < j /\ heard[d][i].from = heard[d][j].from => heard[d][i].no < heard[d][j].no
    BY <1>1 DEF Ordered
  <2>3. heard' = heard
    OBVIOUS
  <2> QED
    <3>1. MaxLines > 0 => \A d \in Clients : \A i, j \in 1..Len(from'[d]) :
            i < j /\ from'[d][i].cmd = "none" /\ from'[d][j].cmd = "none" => from'[d][i].no < from'[d][j].no
      BY <1>9
    <3>2. MaxLines > 0 => \A d \in Clients : \A i \in 1..Len(heard[d]) :
            /\ heard[d][i].from # d /\ heard[d][i].no <= sent'[heard[d][i].from]
            /\ \A j \in 1..Len(from'[heard[d][i].from]) :
                 from'[heard[d][i].from][j].cmd = "none" => heard[d][i].no < from'[heard[d][i].from][j].no
      BY <1>10
    <3> QED
      BY <1>8, <2>1, <2>2, <2>3, <3>1, <3>2, OrderedNext
<1>12. /\ to' \in [Clients -> Sockets] /\ UNCHANGED <<daemon, heard>>
       /\ peer' \in [Clients -> {"away", "waiting", "there", "gone"}]
  BY <1>1 DEF TypeInv
<1> QED
  BY <1>3, <1>11, <1>12, DaemonUntouched

LEMMA SayKeeps ==
  ASSUME IInv, NEW c \in Talkers, Say(c)
  PROVE  IInv'
<1>1. TypeInv /\ c \in Clients /\ MaxLines \in Nat /\ sent \in [Clients -> Nat] /\ Len(from[c]) < SocketRoom
  BY LineBusAssumption DEF IInv, TypeInv, Say, CanSay
<1>2. PICK p \in Pfxs : from' = [from EXCEPT ![c] = Append(@, Text(c, sent'[c], p))]
  BY DEF Say
<1>3. /\ sent' = [sent EXCEPT ![c] = IF MaxLines = 0 THEN 0 ELSE @ + 1]
      /\ UNCHANGED <<daemon, peer, to, heard>>
  BY DEF Say
<1>4. CASE MaxLines = 0
  <2>1. \A d \in Clients : sent[d] = 0
    BY <1>1, <1>4 DEF TypeInv
  <2>2. sent' = sent
    BY <1>1, <1>3, <1>4, <2>1
  <2>3. PICK l : l = Text(c, sent'[c], p)
    OBVIOUS
  <2>4. l \in Lines /\ l.from = c /\ l.no = sent'[c]
    BY <1>1, <2>2, <2>3 DEF Text, Lines, Pfx
  <2>5. from' = [from EXCEPT ![c] = Append(@, l)]
    BY <1>2, <2>3
  <2>6. /\ sent' \in [Clients -> Nat] /\ \A d \in Clients : sent[d] <= sent'[d]
        /\ l.no <= sent'[c] /\ (l.cmd = "none" /\ MaxLines > 0 => sent[c] < l.no)
    BY <1>1, <1>4, <2>1, <2>2, <2>4
  <2>7. MaxLines = 0 => \A d \in Clients : sent'[d] = 0
    BY <2>1, <2>2
  <2> QED
    BY <1>1, <1>3, <2>4, <2>5, <2>6, <2>7, PutKeeps
<1>5. CASE MaxLines > 0
  <2>1. sent' \in [Clients -> Nat] /\ sent'[c] = sent[c] + 1 /\ \A d \in Clients : sent[d] <= sent'[d]
    BY <1>1, <1>3, <1>5
  <2>2. PICK l : l = Text(c, sent'[c], p)
    OBVIOUS
  <2>3. l \in Lines /\ l.from = c /\ l.no = sent'[c]
    BY <1>1, <2>1, <2>2 DEF Text, Lines, Pfx
  <2>4. from' = [from EXCEPT ![c] = Append(@, l)]
    BY <1>2, <2>2
  <2>5. l.no <= sent'[c] /\ sent[c] < l.no /\ MaxLines # 0
    BY <1>1, <1>5, <2>1, <2>3
  <2>6. MaxLines = 0 => \A d \in Clients : sent'[d] = 0
    BY <2>5
  <2> QED
    BY <1>1, <1>3, <2>1, <2>3, <2>4, <2>5, <2>6, PutKeeps
<1> QED
  BY <1>1, <1>4, <1>5

LEMMA OrderKeeps ==
  ASSUME IInv, NEW c \in Clients, Order(c)
  PROVE  IInv'
<1>1. TypeInv /\ sent \in [Clients -> Nat] /\ Len(from[c]) < SocketRoom
  BY DEF IInv, TypeInv, Order, CanSay
<1>2. PICK l \in Commands(c) : from' = [from EXCEPT ![c] = Append(@, l)]
  BY DEF Order
<1>3. UNCHANGED <<daemon, peer, to, heard, sent>>
  BY DEF Order
<1>4. l \in [cmd : CommandNames, from : {c}, no : {0}, pfx : Pfx]
  BY <1>2, CommandsAssumption DEF Pfx
<1>5. l \in Lines /\ l.from = c /\ l.no = 0 /\ l.cmd # "none"
  BY <1>4 DEF Lines, CommandNames
<1>6. /\ sent' \in [Clients -> Nat] /\ \A d \in Clients : sent[d] <= sent'[d]
      /\ l.no <= sent'[c]
  BY <1>1, <1>3, <1>5
<1>7. MaxLines = 0 => \A d \in Clients : sent'[d] = 0
  BY <1>1, <1>3 DEF TypeInv
<1>8. l.cmd = "none" /\ MaxLines > 0 => sent[c] < l.no
  BY <1>5
<1>9. from' = [from EXCEPT ![c] = Append(@, l)] /\ UNCHANGED <<daemon, peer, to, heard>>
  BY <1>2, <1>3
<1> QED
  BY <1>1, <1>5, <1>6, <1>7, <1>8, <1>9, PutKeeps

LEMMA HearKeeps ==
  ASSUME IInv, NEW c \in Clients, Hear(c)
  PROVE  IInv'
<1>1. TypeInv /\ Ordered(heard, from)
  BY DEF IInv
<1>2. to' = [to EXCEPT ![c] = Tail(@)] /\ to[c] # <<>> /\ UNCHANGED <<daemon, peer, from, sent, heard>>
  BY DEF Hear
<1>3. to \in [Clients -> Sockets] /\ to[c] \in Seq(Lines) /\ Len(to[c]) <= SocketRoom /\ SocketRoom \in Nat
  BY <1>1, LineBusAssumption DEF TypeInv, Sockets
<1>4. Tail(to[c]) \in Seq(Lines) /\ Len(Tail(to[c])) = Len(to[c]) - 1
  BY <1>2, <1>3
<1>5. Tail(to[c]) \in Sockets
  BY <1>3, <1>4 DEF Sockets
<1>6. to' \in [Clients -> Sockets]
  BY <1>2, <1>3, <1>5
<1>7. /\ from' \in [Clients -> Sockets] /\ sent' \in [Clients -> Nat]
      /\ peer' \in [Clients -> {"away", "waiting", "there", "gone"}]
      /\ MaxLines = 0 => \A d \in Clients : sent'[d] = 0
  BY <1>1, <1>2 DEF TypeInv
<1>8. Ordered(heard, from)'
  BY <1>1, <1>2 DEF Ordered
<1> QED
  BY <1>2, <1>6, <1>7, <1>8, DaemonUntouched

\* Nothing that counts is changed by who hangs or leaves, or by what pselect says.
LEMMA OthersKeep ==
  ASSUME IInv, UNCHANGED <<clients, cl, filters, to, from, sent, heard>>,
         peer' \in [Clients -> {"away", "waiting", "there", "gone"}]
  PROVE  IInv'
<1>1. TypeInv /\ Counted(cl, filters, Listed) /\ Ordered(heard, from)
  BY DEF IInv
<1>2. TypeInv'
  BY <1>1 DEF TypeInv
<1>3. Counted(cl, filters, Listed)'
  BY <1>1 DEF Counted, Uses, Listed
<1>4. Ordered(heard, from)'
  BY <1>1 DEF Ordered
<1> QED
  BY <1>2, <1>3, <1>4 DEF IInv

LEMMA InitHolds == Init => IInv
<1> SUFFICES ASSUME Init PROVE IInv
  OBVIOUS
<1>1. /\ clients = <<>> /\ cl = [c \in Clients |-> NewClient] /\ filters = [p \in {} |-> 0]
      /\ peer = [c \in Clients |-> "away"] /\ to = [c \in Clients |-> <<>>] /\ from = [c \in Clients |-> <<>>]
      /\ sent = [c \in Clients |-> 0] /\ heard = [c \in Clients |-> <<>>]
  BY DEF Init
<1>2. NewClient \in ClientType
  <2>1. <<>> \in Buffers
    BY LineBusAssumption DEF Buffers
  <2> QED
    BY <2>1 DEF NewClient, ClientType
<1>3. filters \in FilterMaps /\ DOMAIN filters = {}
  <2>1. filters \in [{} -> Int] /\ {} \in SUBSET Pfx
    BY <1>1
  <2> QED
    BY <1>1, <2>1, FilterMapsAre
<1>4. TypeInv
  BY <1>1, <1>2, <1>3, EmptySocket DEF TypeInv
<1>5. Counted(cl, filters, Listed)
  <2>1. Listed = {}
    BY <1>1 DEF Listed, Range
  <2>2. \A p : Uses(cl, p, {}) = {}
    BY DEF Uses
  <2>3. IsFiniteSet({})
    BY FS_EmptySet
  <2> QED
    BY <1>3, <2>1, <2>2, <2>3 DEF Counted
<1>6. Ordered(heard, from)
  <2>1. \A c \in Clients : from[c] = <<>> /\ heard[c] = <<>> /\ 1..Len(from[c]) = {} /\ 1..Len(heard[c]) = {}
    BY <1>1
  <2> QED
    BY <2>1 DEF Ordered
<1> QED
  BY <1>4, <1>5, <1>6 DEF IInv

LEMMA NextKeeps == IInv /\ [Next]_vars => IInv'
<1> SUFFICES ASSUME IInv, [Next]_vars PROVE IInv'
  OBVIOUS
<1> DEFINE Cond == {"away", "waiting", "there", "gone"}
<1>1. peer \in [Clients -> Cond]
  BY DEF IInv, TypeInv
<1>2. CASE Select
  <2>1. UNCHANGED <<clients, cl, filters, peer, to, from, sent, heard>>
    BY <1>2 DEF Select
  <2> QED
    BY <1>1, <2>1, OthersKeep
<1>3. CASE Write
  BY <1>3, WriteKeeps
<1>4. CASE Read
  BY <1>4, ReadKeeps
<1>5. CASE Reap
  BY <1>5, ReapKeeps
<1>6. ASSUME NEW c \in Clients, Connect(c) PROVE IInv'
  BY <1>6, ConnectKeeps
<1>7. ASSUME NEW c \in Clients, Order(c) PROVE IInv'
  BY <1>7, OrderKeeps
<1>8. ASSUME NEW c \in Clients, Hear(c) PROVE IInv'
  BY <1>8, HearKeeps
<1>9. ASSUME NEW c \in Clients, Hang(c) \/ Leave(c) PROVE IInv'
  <2>1. /\ UNCHANGED <<daemon, to, from, sent, heard>>
        /\ peer' = peer \/ peer' = [peer EXCEPT ![c] = "gone"]
    BY <1>9 DEF Hang, Leave
  <2>2. UNCHANGED <<clients, cl, filters>> /\ peer' \in [Clients -> Cond]
    BY <1>1, <2>1 DEF daemon
  <2> QED
    BY <2>1, <2>2, OthersKeep
<1>10. ASSUME NEW c \in Talkers, Say(c) PROVE IInv'
  BY <1>10, SayKeeps
<1>11. CASE UNCHANGED vars
  <2>1. UNCHANGED <<clients, cl, filters, peer, to, from, sent, heard>>
    BY <1>11 DEF vars
  <2> QED
    BY <1>1, <2>1, OthersKeep
<1> QED
  BY <1>2, <1>3, <1>4, <1>5, <1>6, <1>7, <1>8, <1>9, <1>10, <1>11 DEF Next, Daemon

-----------------------------------------------------------------------------
(* The theorems.                                                           *)

LEMMA Invariant == Spec => []IInv
<1>1. Init => IInv
  BY InitHolds
<1>2. IInv /\ [Next]_vars => IInv'
  BY NextKeeps
<1> QED
  BY <1>1, <1>2, PTL DEF Spec

\* The daemon's list, its clients, their sockets and buffers are what they are declared
\* to be, and no buffer or socket ever holds more than it has room for
\* (linebusd_main.c:43-83, 151-239).
THEOREM TypeCorrect == Spec => []TypeInv
<1>1. IInv => TypeInv
  BY DEF IInv
<1> QED
  BY <1>1, Invariant, PTL

\* For any clients, prefixes and commands, and however many come and go: a filter is
\* kept exactly as long as somebody in the list uses it (linebusd_main.c:85-148).
THEOREM FiltersAreCounted == Spec => []FiltersCounted
<1>1. IInv => FiltersCounted
  <2> SUFFICES ASSUME IInv, NEW p \in Pfxs
               PROVE  /\ p \in DOMAIN filters <=> Cardinality(Uses(cl, p, Listed)) > 0
                      /\ p \in DOMAIN filters => filters[p] = Cardinality(Uses(cl, p, Listed)) - 1
    BY DEF FiltersCounted
  <2> DEFINE users == Uses(cl, p, Listed)
  <2>1. /\ IsFiniteSet(users)
        /\ p \in DOMAIN filters <=> users # {}
        /\ p \in DOMAIN filters => filters[p] = Cardinality(users) - 1
    <3>1. p \in Pfx /\ Counted(cl, filters, Listed)
      BY DEF Pfx, IInv
    <3> HIDE DEF users
    <3> QED
      BY <3>1 DEF Counted, users
  <2> HIDE DEF users
  <2>2. Cardinality(users) \in Nat /\ (Cardinality(users) = 0 <=> users = {})
    BY <2>1, FS_CardinalityType, FS_EmptySet
  <2> QED
    BY <2>1, <2>2 DEF users
<1> QED
  BY <1>1, Invariant, PTL

\* For any number of lines, clients and connections: of each sender a client hears the
\* lines in the order in which they were sent, none twice, and none of its own
\* (linebusd_main.c:459-501).
THEOREM LinesInOrder == Spec => []HeardInOrder
<1>1. IInv => HeardInOrder
  <2> SUFFICES ASSUME IInv, NEW c \in Clients, NEW i \in DOMAIN heard[c], NEW j \in DOMAIN heard[c]
               PROVE  /\ heard[c][i].from # c
                      /\ i < j /\ heard[c][i].from = heard[c][j].from => heard[c][i].no < heard[c][j].no
    BY DEF HeardInOrder
  <2>1. Ordered(heard, from) /\ heard[c] \in Seq(Lines) /\ MaxLines \in Nat
    BY LineBusAssumption DEF IInv, TypeInv
  <2>2. i \in 1..Len(heard[c]) /\ j \in 1..Len(heard[c])
    BY <2>1
  <2>3. heard[c] # <<>>
    BY <2>2
  <2>4. MaxLines > 0
    BY <2>1, <2>3 DEF Ordered
  <2> QED
    BY <2>1, <2>2, <2>4 DEF Ordered
<1> QED
  BY <1>1, Invariant, PTL
=============================================================================
