----------------------- MODULE RaftApplicationProofs ------------------------
(***************************************************************************)
(* The application (adapters/portable) executes the log that Raft agrees   *)
(* on. ApplicationInv says of every application, checkpoint and snapshot   *)
(* on the network that it is what executing some chosen history up to its  *)
(* index gives.  As chosen histories agree, so do applications at the same *)
(* index (StateMachineSafety), and the whole cluster implements one        *)
(* replicated log: the log on the disk with the highest commit index only  *)
(* grows, and every application is a prefix of it                          *)
(* (ImplementsReplicatedLog).                                              *)
(*                                                                         *)
(* commandsOf and entriesAbove are recursive functions.  Collects is what  *)
(* a function that collects values one index after the other satisfies,    *)
(* and facts about it are proved by the least index that would refute      *)
(* them.                                                                   *)
(***************************************************************************)
EXTENDS RaftDurabilityProofs, SequenceTheorems

(* Recursion over the entries of a log.                                    *)

\* f collects, in order, the elements of s at the positions P.
Collects(f, s, P) ==
    /\ f[0] = <<>>
    /\ \A k \in Nat : f[k + 1] = IF k + 1 \in P THEN Append(f[k], s[k + 1]) ELSE f[k]

\* The recursion has a solution: a least length without one would have one.
LEMMA CollectsExists ==
    ASSUME NEW s, NEW P
    PROVE  \E f : f = [k \in Nat |-> f[k]] /\ Collects(f, s, P)
<1> DEFINE step(f, k) == IF k \in P THEN Append(f[k - 1], s[k]) ELSE f[k - 1]
           upTo(n, f) == f[0] = <<>> /\ \A k \in 1..n : f[k] = step(f, k)
           T == {n \in Nat : ~\E f : upTo(n, f)}
<1>1. T = {}
  <2> SUFFICES ASSUME T # {} PROVE FALSE
      OBVIOUS
  <2>1. T \subseteq Nat
        OBVIOUS
  <2> HIDE DEF T
  <2>2. PICK n \in T : \A y \in T : n <= y
        BY <2>1, LeastElement
  <2>3. n \in Nat /\ ~\E f : upTo(n, f)
        BY <2>2 DEF T
  <2>4. CASE n = 0
    <3>1. upTo(n, [k \in Nat |-> <<>>])
          BY <2>4
    <3> QED BY <2>3, <3>1
  <2>5. CASE n # 0
    <3>1. PICK p \in Nat : n = p + 1
      <4>1. n - 1 \in Nat /\ n = (n - 1) + 1
            BY <2>3, <2>5
      <4> QED BY <4>1
    <3>2. p \notin T
          BY <2>2, <2>3, <3>1
    <3>3. PICK f : upTo(p, f)
          BY <3>2 DEF T
    <3> DEFINE g == [k \in Nat |-> IF k = n THEN step(f, n) ELSE f[k]]
    <3>4. g[0] = <<>>
          BY <2>5, <3>3
    <3>5. ASSUME NEW k \in 1..n PROVE g[k] = step(g, k)
      <4>1. k \in Nat /\ k - 1 \in Nat /\ k - 1 # n /\ (k # n => k \in 1..p)
            BY <2>3, <3>1
      <4>2. g[k - 1] = f[k - 1]
            BY <4>1
      <4>3. CASE k = n
            BY <4>1, <4>2, <4>3
      <4>4. CASE k # n
            BY <3>3, <4>1, <4>2, <4>4
      <4> QED BY <4>3, <4>4
    <3>6. upTo(n, g)
          BY <3>4, <3>5
    <3> QED BY <2>3, <3>6
  <2> QED BY <2>4, <2>5
<1>2. \A n \in Nat : \E f : upTo(n, f)
      BY <1>1
<1> DEFINE F(n) == CHOOSE f : upTo(n, f)
<1>3. \A n \in Nat : upTo(n, F(n))
      BY <1>2
<1>4. ASSUME NEW n \in Nat, NEW m \in Nat, n <= m
      PROVE  F(m)[n] = F(n)[n]
  <2> HIDE DEF F
  <2> DEFINE D == {k \in 0..n : F(m)[k] # F(n)[k]}
  <2> SUFFICES ASSUME D # {} PROVE FALSE
    <3>1. n \in 0..n
          OBVIOUS
    <3> QED BY <3>1
  <2>1. D \subseteq Nat
        OBVIOUS
  <2>2. PICK k \in D : \A y \in D : k <= y
        BY <2>1, LeastElement
  <2>3. k \in 0..n /\ F(m)[k] # F(n)[k]
        BY <2>2
  <2>4. k # 0
        BY <1>3, <2>3
  <2>5. k \in 1..n /\ k \in 1..m /\ k - 1 \in 0..n
        BY <1>4, <2>3, <2>4
  <2>6. F(m)[k - 1] = F(n)[k - 1]
    <3>1. k - 1 \notin D
          BY <2>2, <2>5
    <3> QED BY <2>5, <3>1
  <2>7. F(m)[k] = step(F(m), k) /\ F(n)[k] = step(F(n), k)
        BY <1>3, <2>5
  <2> QED BY <2>3, <2>6, <2>7
<1> DEFINE G == [k \in Nat |-> F(k)[k]]
<1> HIDE DEF F
<1>5. G = [k \in Nat |-> G[k]] /\ G[0] = <<>>
      BY <1>3
<1>6. ASSUME NEW k \in Nat PROVE G[k + 1] = step(G, k + 1)
  <2>1. k + 1 \in 1..(k + 1) /\ k + 1 \in Nat /\ (k + 1) - 1 = k /\ k <= k + 1
        OBVIOUS
  <2>2. F(k + 1)[k + 1] = step(F(k + 1), k + 1)
        BY <1>3, <2>1
  <2>3. F(k + 1)[k] = G[k] /\ G[k + 1] = F(k + 1)[k + 1]
        BY <1>4, <2>1
  <2> QED BY <2>1, <2>2, <2>3
<1> HIDE DEF G
<1>7. \A k \in Nat : (k + 1) - 1 = k
      OBVIOUS
<1> QED BY <1>5, <1>6, <1>7 DEF Collects

\* The commands of a sequence of entries are collected one by one.
LEMMA CommandsCollect ==
    ASSUME NEW entries
    PROVE  \E f, s, P :
                /\ Collects(f, s, P) /\ commandsOf(entries) = f[Len(entries)]
                /\ \A k \in Nat : /\ k \in P <=> entries[k].data # NoCommand
                                  /\ s[k] = entries[k].data
<1> DEFINE s == [k \in Nat |-> entries[k].data]
           P == {k \in Nat : entries[k].data # NoCommand}
           eq(f) == f = [k \in Nat |-> IF k = 0 THEN <<>>
                                       ELSE IF entries[k].data = NoCommand THEN f[k - 1]
                                       ELSE Append(f[k - 1], entries[k].data)]
           upTo == CHOOSE f : eq(f)
<1>1. commandsOf(entries) = upTo[Len(entries)]
      BY DEF commandsOf
<1>2. PICK f : f = [k \in Nat |-> f[k]] /\ Collects(f, s, P)
      BY CollectsExists
<1>3. eq(f)
  <2>1. f[0] = <<>>
        BY <1>2 DEF Collects
  <2>2. ASSUME NEW k \in Nat, k # 0
        PROVE  f[k] = IF entries[k].data = NoCommand THEN f[k - 1]
                      ELSE Append(f[k - 1], entries[k].data)
    <3>1. k - 1 \in Nat /\ (k - 1) + 1 = k
          BY <2>2
    <3>2. f[k] = IF k \in P THEN Append(f[k - 1], s[k]) ELSE f[k - 1]
          BY <1>2, <3>1 DEF Collects
    <3> QED BY <3>2
  <2> QED BY <1>2, <2>1, <2>2
<1>4. eq(upTo)
      BY <1>3
<1> HIDE DEF upTo
<1>5. upTo[0] = <<>>
      BY <1>4
<1>6. ASSUME NEW k \in Nat
      PROVE  upTo[k + 1] = IF k + 1 \in P THEN Append(upTo[k], s[k + 1]) ELSE upTo[k]
  <2>1. k + 1 \in Nat /\ k + 1 # 0 /\ (k + 1) - 1 = k
        OBVIOUS
  <2> QED BY <1>4, <2>1
<1>7. Collects(upTo, s, P)
      BY <1>5, <1>6 DEF Collects
<1>8. \A k \in Nat : (k \in P <=> entries[k].data # NoCommand) /\ s[k] = entries[k].data
      OBVIOUS
<1> HIDE DEF s, P
<1> QED BY <1>1, <1>7, <1>8

\* Of elements of S, a sequence over S is collected.
LEMMA CollectsType ==
    ASSUME NEW f, NEW s, NEW P, Collects(f, s, P), NEW S, NEW n \in Nat,
           \A k \in 1..n : k \in P => s[k] \in S
    PROVE  f[n] \in Seq(S)
<1> DEFINE T == {k \in 0..n : f[k] \notin Seq(S)}
<1> SUFFICES ASSUME T # {} PROVE FALSE
  <2>1. n \in 0..n
        OBVIOUS
  <2> QED BY <2>1
<1>1. T \subseteq Nat
      OBVIOUS
<1>2. PICK k \in T : \A y \in T : k <= y
      BY <1>1, LeastElement
<1>3. k \in 0..n /\ f[k] \notin Seq(S)
      BY <1>2
<1>4. k # 0
  <2>1. <<>> \in Seq(S) /\ f[0] = <<>>
        BY DEF Collects
  <2> QED BY <1>3, <2>1
<1>5. PICK p \in Nat : k = p + 1 /\ p \in 0..n /\ k \in 1..n
  <2>1. k - 1 \in Nat /\ k = (k - 1) + 1 /\ k - 1 \in 0..n /\ k \in 1..n
        BY <1>3, <1>4
  <2> QED BY <2>1
<1>6. f[p] \in Seq(S)
  <2>1. p \notin T
        BY <1>2, <1>5
  <2> QED BY <1>5, <2>1
<1>7. f[k] = IF k \in P THEN Append(f[p], s[k]) ELSE f[p]
      BY <1>5 DEF Collects
<1>8. k \in P => Append(f[p], s[k]) \in Seq(S)
      BY <1>5, <1>6
<1> QED BY <1>3, <1>6, <1>7, <1>8

\* Appending to a concatenation appends to its second part.
AppendsLast(S) ==
    \A s \in Seq(S), t \in Seq(S), x \in S : Append(s \o t, x) = s \o Append(t, x)

\* It does, by extensionality: both sides have the same elements.
LEMMA AppendConcat == ASSUME NEW S PROVE AppendsLast(S)
<1> SUFFICES ASSUME NEW s \in Seq(S), NEW t \in Seq(S), NEW x \in S
             PROVE  Append(s \o t, x) = s \o Append(t, x)
    BY DEF AppendsLast
<1>1. PICK l \in Nat : l = Len(s)
      OBVIOUS
<1>2. PICK k \in Nat : k = Len(t)
      OBVIOUS
<1>3. PICK c : /\ c = s \o t /\ c \in Seq(S) /\ Len(c) = l + k
               /\ \A i \in 1..(l + k) : c[i] = IF i <= l THEN s[i] ELSE t[i - l]
  <2>1. /\ s \o t \in Seq(S) /\ Len(s \o t) = l + k
        /\ \A i \in 1..(l + k) : (s \o t)[i] = IF i <= l THEN s[i] ELSE t[i - l]
        BY <1>1, <1>2, ConcatProperties
  <2> QED BY <2>1
<1>4. PICK u : u = Append(t, x)
      OBVIOUS
<1>5. u \in Seq(S) /\ Len(u) = k + 1 /\ u[k + 1] = x /\ \A i \in 1..k : u[i] = t[i]
      BY <1>2, <1>4, AppendAt
<1>6. PICK v : /\ v = s \o u /\ v \in Seq(S) /\ Len(v) = l + (k + 1)
               /\ \A i \in 1..(l + (k + 1)) : v[i] = IF i <= l THEN s[i] ELSE u[i - l]
  <2>1. PICK j \in Nat : j = k + 1
        OBVIOUS
  <2>2. /\ s \o u \in Seq(S) /\ Len(s \o u) = l + j
        /\ \A i \in 1..(l + j) : (s \o u)[i] = IF i <= l THEN s[i] ELSE u[i - l]
    <3>1. u \in Seq(S) /\ Len(u) = j
          BY <1>5, <2>1
    <3> QED BY <1>1, <3>1, ConcatProperties
  <2> QED BY <2>1, <2>2
<1>7. PICK w : w = Append(c, x)
      OBVIOUS
<1>8. /\ w \in Seq(S) /\ Len(w) = (l + k) + 1 /\ w[(l + k) + 1] = x
      /\ \A i \in 1..(l + k) : w[i] = c[i]
      BY <1>3, <1>7, AppendAt
<1>9. ASSUME NEW i \in 1..Len(w) PROVE w[i] = v[i]
  <2>1. i \in 1..(l + (k + 1)) /\ i \in 1..((l + k) + 1)
        BY <1>8
  <2>2. CASE i <= l
    <3>1. i \in 1..(l + k)
          BY <2>1, <2>2
    <3> QED BY <1>3, <1>6, <1>8, <2>1, <2>2, <3>1
  <2>3. CASE i > l /\ i <= l + k
    <3>1. i \in 1..(l + k) /\ i - l \in 1..k /\ ~(i <= l)
          BY <2>1, <2>3
    <3> QED BY <1>3, <1>5, <1>6, <1>8, <2>1, <3>1
  <2>4. CASE i = (l + k) + 1
    <3>1. i - l = k + 1 /\ ~(i <= l)
          BY <2>4
    <3> QED BY <1>5, <1>6, <1>8, <2>1, <2>4, <3>1
  <2> QED BY <2>1, <2>2, <2>3, <2>4
<1>10. Len(w) = Len(v)
      BY <1>6, <1>8
<1>11. w = v
      BY <1>6, <1>8, <1>9, <1>10, SeqEqual
<1> QED BY <1>3, <1>4, <1>6, <1>7, <1>11

\* What is collected from a section of a sequence is added to what was
\* collected before it.
SectionsCollect(f, s, P, g, r, R, S, b, n) ==
    /\ b \in Nat /\ n \in Nat
    /\ Collects(f, s, P) /\ Collects(g, r, R)
    /\ \A k \in 1..b : k \in P => s[k] \in S
    /\ \A k \in 1..n : k \in R => r[k] \in S
    /\ \A k \in 1..n : (b + k \in P <=> k \in R) /\ (k \in R => s[b + k] = r[k])

\* f continues after b with what g collected.
Joined(f, g, S, b, n) ==
    f[b + n] = f[b] \o g[n] /\ f[b] \in Seq(S) /\ g[n] \in Seq(S)

\* Collecting a section from where f stands at b joins the two results.
\* By the least n for which it fails.
LEMMA CollectsSection ==
    ASSUME NEW f, NEW s, NEW P, NEW g, NEW r, NEW R, NEW S, NEW b \in Nat, NEW n \in Nat,
           SectionsCollect(f, s, P, g, r, R, S, b, n)
    PROVE  Joined(f, g, S, b, n)
<1> USE DEF SectionsCollect, Joined
<1>1. f[b] \in Seq(S) /\ \A k \in 0..n : g[k] \in Seq(S)
  <2>1. ASSUME NEW k \in 0..n PROVE g[k] \in Seq(S)
    <3>1. k \in Nat /\ \A i \in 1..k : i \in 1..n
          OBVIOUS
    <3> QED BY <3>1, CollectsType
  <2> QED BY <2>1, CollectsType
<1> DEFINE T == {k \in 0..n : f[b + k] # f[b] \o g[k]}
<1> SUFFICES ASSUME T # {} PROVE FALSE
  <2>1. n \in 0..n
        OBVIOUS
  <2> QED BY <1>1, <2>1
<1>2. T \subseteq Nat /\ \A k \in 0..n : k \notin T => f[b + k] = f[b] \o g[k]
  <2>1. T \subseteq 0..n /\ \A k \in 0..n : k \notin T => f[b + k] = f[b] \o g[k]
        BY Zenon
  <2>2. 0..n \subseteq Nat
        OBVIOUS
  <2> HIDE DEF T
  <2> QED BY <2>1, <2>2
<1>3. PICK k \in T : \A y \in T : k <= y
      BY <1>2, LeastElement
<1>4. k \in 0..n /\ f[b + k] # f[b] \o g[k]
      BY <1>3
<1> HIDE DEF T
<1>5. k # 0
  <2>1. g[0] = <<>> /\ b + 0 = b
        BY DEF Collects
  <2>2. f[b] \o <<>> = f[b]
        BY <1>1
  <2> QED BY <1>4, <2>1, <2>2
<1>6. PICK p \in Nat : k = p + 1 /\ p \in 0..n /\ k \in 1..n
  <2>1. k - 1 \in Nat /\ k = (k - 1) + 1 /\ k - 1 \in 0..n /\ k \in 1..n
        BY <1>4, <1>5
  <2> QED BY <2>1
<1>7. f[b + p] = f[b] \o g[p]
  <2>1. p \notin T
        BY <1>3, <1>6
  <2> QED BY <1>2, <1>6, <2>1
<1>8. PICK q \in Nat : q = b + p /\ b + k = q + 1
      BY <1>6
<1>9. f[q + 1] = IF q + 1 \in P THEN Append(f[q], s[q + 1]) ELSE f[q]
      BY DEF Collects
<1>10. g[k] = IF k \in R THEN Append(g[p], r[k]) ELSE g[p]
      BY <1>6 DEF Collects
<1>11. (q + 1 \in P <=> k \in R) /\ (k \in R => s[q + 1] = r[k] /\ r[k] \in S)
      BY <1>6, <1>8
<1>12. g[p] \in Seq(S)
      BY <1>1, <1>6
<1>13. \A x \in S : Append(f[b] \o g[p], x) = f[b] \o Append(g[p], x)
  <2>1. AppendsLast(S)
        BY AppendConcat
  <2> QED BY <1>1, <1>12, <2>1, Zenon DEF AppendsLast
<1>14. CASE k \in R
  <2>1. f[q + 1] = Append(f[b] \o g[p], r[k])
        BY <1>7, <1>8, <1>9, <1>11, <1>14
  <2> QED BY <1>4, <1>8, <1>10, <1>11, <1>13, <1>14, <2>1
<1>15. CASE k \notin R
      BY <1>4, <1>7, <1>8, <1>9, <1>10, <1>11, <1>15
<1> QED BY <1>14, <1>15

\* Every collected element is one of those at the positions.
LEMMA CollectsFrom ==
    ASSUME NEW f, NEW s, NEW P, Collects(f, s, P), NEW n \in Nat
    PROVE  f[n] \in Seq({s[k] : k \in {i \in 1..n : i \in P}})
<1> DEFINE S == {s[k] : k \in {i \in 1..n : i \in P}}
<1>1. \A k \in 1..n : k \in P => s[k] \in S
      OBVIOUS
<1> HIDE DEF S
<1>2. f[n] \in Seq(S)
      BY <1>1, CollectsType
<1> QED BY <1>2 DEF S

\* The commands of n entries of full after the first b follow those of the first b.
CommandsJoin(full, b, n, entries) ==
    /\ commandsOf(SubSeq(full, 1, b + n))
         = commandsOf(SubSeq(full, 1, b)) \o commandsOf(entries)
    /\ commandsOf(SubSeq(full, 1, b)) \in Seq(Command)
    /\ commandsOf(entries) \in Seq(Command)
    /\ commandsOf(SubSeq(full, 1, b + n)) \in Seq(Command)

\* The commands of a history are those of its first b entries, then those of
\* the section after them.
LEMMA CommandsSection ==
    ASSUME NEW full \in Seq(Entry), NEW b \in Nat, NEW n \in Nat, b + n <= Len(full),
           NEW entries, Len(entries) = n, \A k \in 1..n : entries[k].data = full[b + k].data
    PROVE  CommandsJoin(full, b, n, entries)
<1>1. PICK x : x = SubSeq(full, 1, b + n)
      OBVIOUS
<1>2. PICK y : y = SubSeq(full, 1, b)
      OBVIOUS
<1>3. Len(full) \in Nat /\ b <= Len(full)
      OBVIOUS
<1>4. Len(x) = b + n /\ \A k \in 1..(b + n) : x[k] = full[k] /\ full[k] \in Entry
      BY <1>1, <1>3
<1>5. Len(y) = b /\ \A k \in 1..b : y[k] = full[k] /\ full[k] \in Entry
      BY <1>2, <1>3
<1>6. \A e \in Entry : e.data # NoCommand => e.data \in Command
      BY DEF Entry
<1>7. PICK f, s, P :
        /\ Collects(f, s, P) /\ commandsOf(x) = f[Len(x)]
        /\ \A k \in Nat : (k \in P <=> x[k].data # NoCommand) /\ s[k] = x[k].data
      BY CommandsCollect
<1>8. PICK g, t, Q :
        /\ Collects(g, t, Q) /\ commandsOf(y) = g[Len(y)]
        /\ \A k \in Nat : (k \in Q <=> y[k].data # NoCommand) /\ t[k] = y[k].data
      BY CommandsCollect
<1>9. PICK r, u, R :
        /\ Collects(r, u, R) /\ commandsOf(entries) = r[Len(entries)]
        /\ \A k \in Nat : (k \in R <=> entries[k].data # NoCommand) /\ u[k] = entries[k].data
      BY CommandsCollect
<1>10. ASSUME NEW k \in 1..b
       PROVE  /\ k \in P <=> k \in Q
              /\ s[k] = t[k]
              /\ k \in Q => t[k] \in Command
  <2>1. k \in Nat /\ k \in 1..(b + n)
        OBVIOUS
  <2>2. x[k] = full[k] /\ y[k] = full[k] /\ full[k] \in Entry
        BY <1>4, <1>5, <2>1
  <2> QED BY <1>6, <1>7, <1>8, <2>1, <2>2
<1>11. ASSUME NEW k \in 1..n
       PROVE  /\ b + k \in P <=> k \in R
              /\ s[b + k] = u[k]
              /\ k \in R => u[k] \in Command
  <2>1. k \in Nat /\ b + k \in Nat /\ b + k \in 1..(b + n)
        OBVIOUS
  <2>2. x[b + k] = full[b + k] /\ full[b + k] \in Entry
        BY <1>4, <2>1
  <2>3. entries[k].data = x[b + k].data /\ (x[b + k].data # NoCommand => x[b + k].data \in Command)
        BY <1>6, <2>2
  <2>4. (b + k \in P <=> x[b + k].data # NoCommand) /\ s[b + k] = x[b + k].data
        BY <1>7, <2>1
  <2>5. (k \in R <=> entries[k].data # NoCommand) /\ u[k] = entries[k].data
        BY <1>9, <2>1
  <2> QED BY <2>3, <2>4, <2>5
<1>12. f[b + n] = f[b] \o r[n] /\ f[b] \in Seq(Command) /\ r[n] \in Seq(Command)
  <2>1. \A k \in 1..b : k \in P => s[k] \in Command
        BY <1>10
  <2>2. \A k \in 1..n : k \in R => u[k] \in Command
        BY <1>11
  <2>3. \A k \in 1..n : (b + k \in P <=> k \in R) /\ (k \in R => s[b + k] = u[k])
        BY <1>11
  <2>4. Collects(f, s, P) /\ Collects(r, u, R)
        BY <1>7, <1>9
  <2>5. SectionsCollect(f, s, P, r, u, R, Command, b, n)
        BY <2>1, <2>2, <2>3, <2>4 DEF SectionsCollect
  <2>6. Joined(f, r, Command, b, n)
        BY <2>5, CollectsSection
  <2> QED BY <2>6 DEF Joined
<1>13. f[b] = g[b]
  <2>1. \A k \in 1..b : (0 + k \in P <=> k \in Q) /\ (k \in Q => s[0 + k] = t[k])
    <3> SUFFICES ASSUME NEW k \in 1..b
                 PROVE  (0 + k \in P <=> k \in Q) /\ (k \in Q => s[0 + k] = t[k])
        OBVIOUS
    <3>1. 0 + k = k
          OBVIOUS
    <3> QED BY <1>10, <3>1
  <2>2. \A k \in 1..0 : k \in P => s[k] \in Command
        OBVIOUS
  <2>3. \A k \in 1..b : k \in Q => t[k] \in Command
        BY <1>10
  <2>4. f[0 + b] = f[0] \o g[b] /\ g[b] \in Seq(Command)
    <3>1. Collects(f, s, P) /\ Collects(g, t, Q) /\ 0 \in Nat
          BY <1>7, <1>8
    <3>2. SectionsCollect(f, s, P, g, t, Q, Command, 0, b)
          BY <2>1, <2>2, <2>3, <3>1 DEF SectionsCollect
    <3>3. Joined(f, g, Command, 0, b)
          BY <3>2, CollectsSection
    <3> QED BY <3>3 DEF Joined
  <2>5. f[0] = <<>> /\ 0 + b = b
        BY <1>7 DEF Collects
  <2> QED BY <2>4, <2>5
<1>14. f[b + n] \in Seq(Command)
      BY <1>12
<1>15. commandsOf(x) = f[b + n] /\ commandsOf(y) = g[b] /\ commandsOf(entries) = r[n]
      BY <1>4, <1>5, <1>7, <1>8, <1>9
<1> QED BY <1>1, <1>2, <1>12, <1>13, <1>14, <1>15 DEF CommandsJoin

\* The commands of no entries.
LEMMA NoCommands ==
    ASSUME NEW entries, Len(entries) = 0
    PROVE  commandsOf(entries) = <<>>
<1>1. PICK f, s, P : Collects(f, s, P) /\ commandsOf(entries) = f[Len(entries)]
      BY CommandsCollect
<1> QED BY <1>1 DEF Collects

\* What is above a boundary is a sequence of the same elements.
LEMMA AboveType ==
    ASSUME NEW S, NEW entries \in Seq(S), NEW boundary
    PROVE  entriesAbove(entries, boundary) \in Seq(S)
<1> DEFINE P == {k \in Nat : ~(entries[k].index <= boundary)}
           eq(f) == f = [k \in Nat |-> IF k = 0 THEN <<>>
                                       ELSE IF entries[k].index <= boundary THEN f[k - 1]
                                       ELSE Append(f[k - 1], entries[k])]
           upTo == CHOOSE f : eq(f)
<1>1. entriesAbove(entries, boundary) = upTo[Len(entries)]
      BY DEF entriesAbove
<1>2. PICK f : f = [k \in Nat |-> f[k]] /\ Collects(f, entries, P)
      BY CollectsExists
<1>3. eq(f)
  <2>1. f[0] = <<>>
        BY <1>2 DEF Collects
  <2>2. ASSUME NEW k \in Nat, k # 0
        PROVE  f[k] = IF entries[k].index <= boundary THEN f[k - 1]
                      ELSE Append(f[k - 1], entries[k])
    <3>1. k - 1 \in Nat /\ (k - 1) + 1 = k
          BY <2>2
    <3>2. f[k] = IF k \in P THEN Append(f[k - 1], entries[k]) ELSE f[k - 1]
          BY <1>2, <3>1 DEF Collects
    <3> QED BY <3>2
  <2> QED BY <1>2, <2>1, <2>2
<1>4. eq(upTo)
      BY <1>3
<1> HIDE DEF upTo
<1>5. upTo[0] = <<>>
      BY <1>4
<1>6. ASSUME NEW k \in Nat
      PROVE  upTo[k + 1] = IF k + 1 \in P THEN Append(upTo[k], entries[k + 1]) ELSE upTo[k]
  <2>1. k + 1 \in Nat /\ k + 1 # 0 /\ (k + 1) - 1 = k
        OBVIOUS
  <2> QED BY <1>4, <2>1
<1>7. Collects(upTo, entries, P)
      BY <1>5, <1>6 DEF Collects
<1> HIDE DEF P
<1>8. Len(entries) \in Nat /\ \A k \in 1..Len(entries) : entries[k] \in S
      OBVIOUS
<1>9. upTo[Len(entries)] \in Seq(S)
      BY <1>7, <1>8, CollectsType
<1> QED BY <1>1, <1>9

-----------------------------------------------------------------------------
(* Chosen entries.                                                         *)

\* What is chosen in a term is part of every later history.
Lasting(h, a) ==
    \A t, u \in Terms : \A i \in 1..Len(h.full[t]) :
        t < u /\ h.full[u] # <<>> /\ Own(h, t, i) /\ Chosen(a, t, i)
        => i <= Len(h.full[u]) /\ h.full[u][i].term = t

\* It is the part of LaterHolds that no disk or network has a say in.
LEMMA LaterLasts ==
    ASSUME NEW h, NEW a
    PROVE  /\ LaterHolds(h, a) => Lasting(h, a)
           /\ LaterHolds(h, a)' => Lasting(h, a)
<1>1. \A t, i, d : Chosen(a, t, i) => Choosable(a, d, t, i)
      BY ChosenChoosable
<1> QED BY <1>1 DEF LaterHolds, Lasting

\* Two histories with chosen entries are the same up to the lower of them.
LEMMA SettledAgree ==
    ASSUME NEW h \in Histories, HistoriesAgree(h), NEW a, Lasting(h, a),
           NEW t \in Terms, NEW u \in Terms, NEW i \in Nat, NEW j \in Nat, i <= j,
           Settled(h, a, t, i), Settled(h, a, u, j)
    PROVE  /\ i <= Len(h.full[t]) /\ i <= Len(h.full[u])
           /\ \A k \in 1..i : h.full[t][k] = h.full[u][k]
<1>1. PICK c \in 1..Len(h.full[t]) : i <= c /\ Own(h, t, c) /\ Chosen(a, t, c)
      BY DEF Settled
<1>2. PICK d \in 1..Len(h.full[u]) : j <= d /\ Own(h, u, d) /\ Chosen(a, u, d)
      BY DEF Settled
<1>3. c \in Nat /\ c > 0 /\ c <= Len(h.full[t]) /\ Len(h.full[t]) \in Nat
      BY DEF Histories
<1>4. d \in Nat /\ d > 0 /\ d <= Len(h.full[u]) /\ Len(h.full[u]) \in Nat
      BY DEF Histories
<1>5. h.full[t][c].term = t /\ h.full[u][d].term = u
      BY <1>1, <1>2 DEF Own
<1>7. h.full[t] # <<>> /\ h.full[u] # <<>>
      BY <1>3, <1>4
<1>8. t \in Nat /\ u \in Nat
      BY ConstantsType DEF Terms
<1>9. CASE t = u
      BY <1>1, <1>2, <1>3, <1>4, <1>9
<1>10. CASE t < u
  <2>1. c <= Len(h.full[u]) /\ h.full[u][c].term = t
        BY <1>1, <1>7, <1>10 DEF Lasting
  <2>2. \A k \in 1..c : h.full[t][k] = h.full[u][k]
        BY <1>3, <1>5, <2>1, Matching, ZenonT(40)
  <2> QED BY <1>1, <1>3, <1>4, <2>1, <2>2
<1>11. CASE u < t
  <2>1. d <= Len(h.full[t]) /\ h.full[t][d].term = u
        BY <1>2, <1>7, <1>11 DEF Lasting
  <2>2. \A k \in 1..d : h.full[u][k] = h.full[t][k]
        BY <1>4, <1>5, <2>1, Matching, SMTT(40)
  <2> QED BY <1>2, <1>3, <1>4, <2>1, <2>2
<1> QED BY <1>8, <1>9, <1>10, <1>11, SMTT(40)

\* Prefixes of histories that agree have the same commands.
LEMMA SamePrefix ==
    ASSUME NEW f \in Seq(Entry), NEW g \in Seq(Entry), NEW i \in Nat,
           i <= Len(f), i <= Len(g), \A k \in 1..i : f[k] = g[k]
    PROVE  SubSeq(f, 1, i) = SubSeq(g, 1, i)
<1>1. PICK x : x = SubSeq(f, 1, i)
      OBVIOUS
<1>2. PICK y : y = SubSeq(g, 1, i)
      OBVIOUS
<1>3. x \in Seq(Entry) /\ Len(x) = i /\ \A k \in 1..i : x[k] = f[k]
      BY <1>1
<1>4. y \in Seq(Entry) /\ Len(y) = i /\ \A k \in 1..i : y[k] = g[k]
      BY <1>2
<1>5. \A k \in 1..Len(x) : x[k] = y[k]
      BY <1>3, <1>4
<1> QED BY <1>1, <1>2, <1>3, <1>4, <1>5, SeqEqual

\* Nothing has been executed before the first entry.
LEMMA NoHistory ==
    ASSUME NEW h \in Histories, NEW t \in Terms
    PROVE  historyOf(h, t, 0) = <<>>
<1>1. Len(SubSeq(h.full[t], 1, 0)) = 0
  <2>1. h.full[t] \in Seq(Entry)
        BY DEF Histories
  <2> QED BY <2>1
<1> QED BY <1>1, NoCommands DEF historyOf

\* What was reached at or below a chosen entry is part of its history.
LEMMA ReachedAt ==
    ASSUME NEW h \in Histories, HistoriesAgree(h), NEW a, Lasting(h, a),
           NEW i \in Nat, NEW x, Reached(h, a, i, x),
           NEW t \in Terms, NEW j \in Nat, Settled(h, a, t, j), i <= j
    PROVE  x = historyOf(h, t, i) /\ i <= Len(h.full[t])
<1>1. CASE i = 0
  <2>1. Len(h.full[t]) \in Nat
        BY DEF Histories
  <2> QED BY <1>1, <2>1, NoHistory DEF Reached
<1>2. CASE i # 0
  <2>1. PICK u \in Terms : Settled(h, a, u, i) /\ x = historyOf(h, u, i)
        BY <1>2 DEF Reached
  <2>2. /\ i <= Len(h.full[u]) /\ i <= Len(h.full[t])
        /\ \A k \in 1..i : h.full[u][k] = h.full[t][k]
        BY <2>1, SettledAgree
  <2>3. h.full[u] \in Seq(Entry) /\ h.full[t] \in Seq(Entry)
        BY DEF Histories
  <2>4. SubSeq(h.full[u], 1, i) = SubSeq(h.full[t], 1, i)
        BY <2>2, <2>3, SamePrefix
  <2> QED BY <2>1, <2>2, <2>4 DEF historyOf
<1> QED BY <1>1, <1>2

\* A concatenation begins with its first part.
LEMMA ConcatPrefix ==
    ASSUME NEW S, NEW x \in Seq(S), NEW z \in Seq(S)
    PROVE  IsPrefix(x, x \o z)
<1>1. PICK l \in Nat : l = Len(x)
      OBVIOUS
<1>2. PICK m \in Nat : m = Len(z)
      OBVIOUS
<1>3. PICK c : /\ c = x \o z /\ c \in Seq(S) /\ Len(c) = l + m
               /\ \A i \in 1..(l + m) : c[i] = IF i <= l THEN x[i] ELSE z[i - l]
  <2>1. /\ x \o z \in Seq(S) /\ Len(x \o z) = l + m
        /\ \A i \in 1..(l + m) : (x \o z)[i] = IF i <= l THEN x[i] ELSE z[i - l]
        BY <1>1, <1>2, ConcatProperties
  <2> QED BY <2>1
<1>4. PICK u : u = SubSeq(x, 1, l)
      OBVIOUS
<1>5. PICK v : v = SubSeq(c, 1, l)
      OBVIOUS
<1>6. u \in Seq(S) /\ Len(u) = l /\ \A i \in 1..l : u[i] = x[i]
      BY <1>1, <1>4
<1>7. v \in Seq(S) /\ Len(v) = l /\ \A i \in 1..l : v[i] = c[i]
      BY <1>3, <1>5
<1>8. \A i \in 1..Len(u) : u[i] = v[i]
  <2> SUFFICES ASSUME NEW i \in 1..Len(u) PROVE u[i] = v[i]
      OBVIOUS
  <2>1. i \in 1..l /\ i \in 1..(l + m) /\ i <= l
        BY <1>6
  <2>2. c[i] = x[i]
        BY <1>3, <2>1
  <2> QED BY <1>6, <1>7, <2>1, <2>2
<1>9. u = v
      BY <1>6, <1>7, <1>8, SeqEqual
<1> QED BY <1>1, <1>3, <1>4, <1>5, <1>9 DEF IsPrefix

\* A history begins with every earlier part of it.
LEMMA HistoryPrefix ==
    ASSUME NEW h \in Histories, NEW t \in Terms, NEW i \in Nat, NEW j \in Nat, i <= j,
           j <= Len(h.full[t])
    PROVE  /\ IsPrefix(historyOf(h, t, i), historyOf(h, t, j))
           /\ historyOf(h, t, i) \in Seq(Command) /\ historyOf(h, t, j) \in Seq(Command)
<1>1. PICK f : f = h.full[t] /\ f \in Seq(Entry)
      BY DEF Histories
<1>2. PICK n \in Nat : j = i + n
  <2>1. j - i \in Nat /\ j = i + (j - i)
        OBVIOUS
  <2> QED BY <2>1
<1>3. PICK z : z = SubSeq(f, i + 1, j)
      OBVIOUS
<1>4. Len(z) = n /\ \A k \in 1..n : z[k] = f[i + k]
      BY <1>1, <1>2, <1>3
<1>5. /\ commandsOf(SubSeq(f, 1, i + n)) = commandsOf(SubSeq(f, 1, i)) \o commandsOf(z)
      /\ commandsOf(SubSeq(f, 1, i)) \in Seq(Command) /\ commandsOf(z) \in Seq(Command)
      /\ commandsOf(SubSeq(f, 1, i + n)) \in Seq(Command)
  <2>1. i + n <= Len(f) /\ \A k \in 1..n : z[k].data = f[i + k].data
        BY <1>1, <1>2, <1>4
  <2>2. CommandsJoin(f, i, n, z)
        BY <1>1, <1>4, <2>1, CommandsSection
  <2> QED BY <2>2 DEF CommandsJoin
<1>6. IsPrefix(commandsOf(SubSeq(f, 1, i)), commandsOf(SubSeq(f, 1, i)) \o commandsOf(z))
      BY <1>5, ConcatPrefix
<1> QED BY <1>1, <1>2, <1>5, <1>6 DEF historyOf

\* What was reached earlier is a prefix of what was reached later.
LEMMA ReachedPrefix ==
    ASSUME NEW h \in Histories, HistoriesAgree(h), NEW a, Lasting(h, a),
           NEW i \in Nat, NEW x, Reached(h, a, i, x),
           NEW j \in Nat, NEW y, Reached(h, a, j, y), i <= j
    PROVE  IsPrefix(x, y) /\ x \in Seq(Command) /\ y \in Seq(Command)
<1>1. CASE j = 0
  <2>1. x = <<>> /\ y = <<>>
        BY <1>1 DEF Reached
  <2>2. IsPrefix(<<>>, <<>>)
        BY DEF IsPrefix
  <2> QED BY <2>1, <2>2
<1>2. CASE j # 0
  <2>1. PICK t \in Terms : Settled(h, a, t, j) /\ y = historyOf(h, t, j)
        BY <1>2 DEF Reached
  <2>2. x = historyOf(h, t, i)
        BY <2>1, ReachedAt
  <2>3. j <= Len(h.full[t])
        BY <2>1, ReachedAt
  <2> QED BY <2>1, <2>2, <2>3, HistoryPrefix
<1> QED BY <1>1, <1>2

\* The log of a process, up to its commit index, is what was chosen.
LEMMA CommittedLog ==
    ASSUME NEW h \in Histories, HistoriesAgree(h), NEW a, NEW n, SectionOK(n),
           FromHistory(h, n), NEW c \in Nat, n.commit = c, c > 0, Committed(h, a, n)
    PROVE  \E t \in Terms : /\ Settled(h, a, t, c) /\ c <= Len(h.full[t]) /\ c <= lastIndex(n)
                            /\ \A k \in Nat : n.snap.index < k /\ k <= c =>
                                    entryAt(n, k) = h.full[t][k]
<1>1. PICK e \in Terms : Includes(h, n, c, e) /\ ChosenUpTo(h, a, n.term, c, e)
      BY DEF Committed
<1>2. PICK t \in Terms : \E i \in 1..Len(h.full[t]) :
        c <= i /\ Own(h, t, i) /\ Chosen(a, t, i) /\ h.full[t][c].term = e
      BY <1>1 DEF ChosenUpTo
<1>3. PICK i \in 1..Len(h.full[t]) :
        c <= i /\ Own(h, t, i) /\ Chosen(a, t, i) /\ h.full[t][c].term = e
      BY <1>2
<1>4. PICK u \in Terms : Within(n, h.full[u])
      BY DEF FromHistory
<1>5. c <= lastIndex(n) /\ h.full[u][c].term = e
      BY <1>1, <1>4, IncludesWithin
<1>6. h.full[u] \in Seq(Entry) /\ h.full[t] \in Seq(Entry)
      BY DEF Histories
<1>7. lastIndex(n) <= Len(h.full[u]) /\ lastIndex(n) \in Nat
      /\ \A k \in Nat : n.snap.index < k /\ k <= lastIndex(n) => entryAt(n, k) = h.full[u][k]
      BY <1>4, <1>6, WithinAt, SectionAt
<1>8. c <= Len(h.full[u]) /\ c <= Len(h.full[t])
      BY <1>3, <1>5, <1>6, <1>7
<1>9. \A k \in 1..c : h.full[u][k] = h.full[t][k]
      BY <1>3, <1>5, <1>8, Matching
<1>10. Settled(h, a, t, c)
      BY <1>3 DEF Settled
<1>11. ASSUME NEW k \in Nat, n.snap.index < k, k <= c PROVE entryAt(n, k) = h.full[t][k]
  <2>1. k \in 1..c /\ k <= lastIndex(n)
    <3>1. n.snap.index \in Nat
          BY DEF SectionOK
    <3> QED BY <1>5, <1>7, <1>11, <3>1
  <2> QED BY <1>7, <1>9, <1>11, <2>1
<1> QED BY <1>5, <1>8, <1>10, <1>11

-----------------------------------------------------------------------------
(* The entries a node hands over for execution.                            *)

\* An interval of entries, as an application receives it.
LEMMA EntriesAtInterval ==
    ASSUME NEW n, NEW b \in Nat, NEW c \in Nat, b <= c
    PROVE  LET e == entriesAt(n, (b + 1)..c)
           IN  /\ e = [k \in 1..(c - b) |-> [index |-> b + k, data |-> entryAt(n, b + k).data]]
               /\ Len(e) = c - b
<1> DEFINE I == (b + 1)..c
           low == CHOOSE i \in I : \A j \in I : i <= j
           given == [k \in 1..(c - b) |-> [index |-> b + k, data |-> entryAt(n, b + k).data]]
<1>1. Cardinality(I) = c - b
  <2>1. Cardinality(I) = IF b + 1 > c THEN 0 ELSE c - (b + 1) + 1
        BY FS_Interval
  <2> QED BY <2>1
<1>2. ASSUME NEW k \in 1..(c - b) PROVE low = b + 1
  <2>1. b + 1 \in I /\ \A j \in I : b + 1 <= j
        OBVIOUS
  <2>2. \A i \in I : (\A j \in I : i <= j) => i = b + 1
        BY <2>1
  <2> QED BY <2>1, <2>2
<1>3. entriesAt(n, I) = [k \in 1..Cardinality(I) |->
                            [index |-> low + k - 1, data |-> entryAt(n, low + k - 1).data]]
      BY DEF entriesAt
<1> HIDE DEF low
<1>4. ASSUME NEW k \in 1..(c - b)
      PROVE  [index |-> low + k - 1, data |-> entryAt(n, low + k - 1).data]
                = [index |-> b + k, data |-> entryAt(n, b + k).data]
  <2>1. low + k - 1 = b + k
        BY <1>2
  <2> QED BY <2>1
<1>5. entriesAt(n, I) = given
      BY <1>1, <1>3, <1>4
<1>6. Len(given) = c - b
  <2>1. c - b \in Nat
        OBVIOUS
  <2> QED BY <2>1
<1> QED BY <1>5, <1>6

\* A chosen entry, as an application receives it.
LEMMA ChosenEntry ==
    ASSUME NEW h \in Histories, NEW a, NEW t \in Terms, NEW c \in Nat, Settled(h, a, t, c),
           c <= Len(h.full[t]), NEW i \in Nat, i > 0, i <= c
    PROVE  [index |-> i, data |-> h.full[t][i].data] \in ChosenEntries(h, a)
<1>1. h.full[t] \in Seq(Entry) /\ Len(h.full[t]) \in Nat
      BY DEF Histories
<1>2. h.full[t][i] \in Entry
      BY <1>1
<1>3. h.full[t][i].data \in Command \cup {NoCommand}
      BY <1>2 DEF Entry
<1>4. Settled(h, a, t, i)
  <2>1. PICK d \in 1..Len(h.full[t]) : c <= d /\ Own(h, t, d) /\ Chosen(a, t, d)
        BY DEF Settled
  <2>2. i <= d
        BY <1>1, <2>1
  <2> QED BY <2>1, <2>2 DEF Settled
<1> QED BY <1>3, <1>4 DEF ChosenEntries

\* The committed entries above an index that was reached lead to the commit
\* index.
LEMMA HistoryExtends ==
    ASSUME NEW h \in Histories, HistoriesAgree(h), NEW a, Lasting(h, a),
           NEW n, SectionOK(n), FromHistory(h, n), Committed(h, a, n),
           NEW c \in Nat, n.commit = c, NEW b \in Nat, n.snap.index <= b, b <= c,
           NEW x, Reached(h, a, b, x)
    PROVE  LET e == entriesAt(n, (b + 1)..c)
           IN  /\ Reached(h, a, c, x \o commandsOf(e))
               /\ x \in Seq(Command) /\ commandsOf(e) \in Seq(Command)
               /\ e \in Seq(ChosenEntries(h, a))
<1>1. PICK e : e = entriesAt(n, (b + 1)..c)
      OBVIOUS
<1>2. PICK l \in Nat : l = c - b /\ c = b + l
  <2>1. c - b \in Nat /\ c = b + (c - b)
        OBVIOUS
  <2> QED BY <2>1
<1>3. e = [k \in 1..l |-> [index |-> b + k, data |-> entryAt(n, b + k).data]] /\ Len(e) = l
      BY <1>1, <1>2, EntriesAtInterval
<1>4. CASE c = 0
  <2>1. b = 0 /\ l = 0
        BY <1>2, <1>4
  <2>2. x = <<>>
        BY <2>1 DEF Reached
  <2>3. commandsOf(e) = <<>>
        BY <1>3, <2>1, NoCommands
  <2>4. <<>> \o <<>> = <<>> /\ <<>> \in Seq(Command)
        OBVIOUS
  <2>5. e \in Seq(ChosenEntries(h, a))
    <3>1. e = <<>>
          BY <1>3, <2>1
    <3> QED BY <3>1
  <2> QED BY <1>1, <1>4, <2>2, <2>3, <2>4, <2>5 DEF Reached
<1>5. CASE c # 0
  <2>1. PICK t \in Terms : /\ Settled(h, a, t, c) /\ c <= Len(h.full[t])
                           /\ \A k \in Nat : n.snap.index < k /\ k <= c =>
                                    entryAt(n, k) = h.full[t][k]
        BY <1>5, CommittedLog
  <2>2. x = historyOf(h, t, b)
    <3>1. Settled(h, a, t, c) /\ b <= c
          BY <2>1
    <3> QED BY <3>1, ReachedAt
  <2>3. PICK f : f = h.full[t] /\ f \in Seq(Entry)
        BY DEF Histories
  <2>4. ASSUME NEW k \in 1..l
        PROVE  /\ e[k] = [index |-> b + k, data |-> f[b + k].data]
               /\ b + k \in Nat /\ b + k > 0 /\ b + k <= c
    <3>1. b + k \in Nat /\ n.snap.index < b + k /\ b + k <= c /\ b + k > 0
      <4>1. n.snap.index \in Nat
            BY DEF SectionOK
      <4> QED BY <1>2, <4>1
    <3>2. entryAt(n, b + k) = f[b + k]
          BY <2>1, <2>3, <3>1
    <3>3. e[k] = [index |-> b + k, data |-> entryAt(n, b + k).data]
          BY <1>3
    <3> QED BY <3>1, <3>2, <3>3
  <2>5. CommandsJoin(f, b, l, e)
    <3>1. b + l <= Len(f)
          BY <1>2, <2>1, <2>3
    <3>2. ASSUME NEW k \in 1..l PROVE e[k].data = f[b + k].data
      <4>1. e[k] = [index |-> b + k, data |-> f[b + k].data]
            BY <2>4
      <4> QED BY <4>1
    <3> QED BY <1>3, <2>3, <3>1, <3>2, CommandsSection
  <2>6. /\ historyOf(h, t, c) = historyOf(h, t, b) \o commandsOf(e)
        /\ historyOf(h, t, b) \in Seq(Command) /\ commandsOf(e) \in Seq(Command)
        BY <1>2, <2>3, <2>5 DEF CommandsJoin, historyOf
  <2>7. Reached(h, a, c, x \o commandsOf(e))
        BY <1>5, <2>1, <2>2, <2>6 DEF Reached
  <2>8. e \in Seq(ChosenEntries(h, a))
    <3>1. ASSUME NEW k \in 1..l PROVE e[k] \in ChosenEntries(h, a)
          BY <2>1, <2>3, <2>4, ChosenEntry
    <3>2. e = [k \in 1..l |-> e[k]]
          BY <1>3
    <3> QED BY <3>1, <3>2
  <2> QED BY <1>1, <2>2, <2>6, <2>7, <2>8
<1> QED BY <1>4, <1>5

\* The effects e hand the application st of node n over what is committed: all
\* from the index b, which st or the snapshot of n has reached, to c.
HandsOver(h, a, n, st, e, b, c) ==
    /\ HistoriesAgree(h) /\ Lasting(h, a)
    /\ SectionOK(n) /\ FromHistory(h, n) /\ Committed(h, a, n)
    /\ SnapshotReached(h, a, n.snap) /\ StoreReached(h, a, st)
    /\ n.commit = c /\ b = IF e.install THEN n.snap.index ELSE st.applied
    /\ n.snap.index <= b /\ b <= c /\ e.apply = (b + 1)..c

\* Such effects keep an application sound.
LEMMA AppliesReached ==
    ASSUME NEW h \in Histories, NEW a, NEW n, NEW st, NEW e, NEW b \in Nat, NEW c \in Nat,
           HandsOver(h, a, n, st, e, b, c)
    PROVE  StoreReached(h, a, applyEffects(st, n, e)) /\ applyEffects(st, n, e).applied = c
<1> DEFINE entries == entriesAt(n, e.apply)
           old == IF e.install THEN entriesAbove(st.entries, n.snap.index) ELSE st.entries
           x == IF e.install THEN n.snap.data ELSE st.history
           S == ChosenEntries(h, a)
<1>0. /\ HistoriesAgree(h) /\ Lasting(h, a)
      /\ SectionOK(n) /\ FromHistory(h, n) /\ Committed(h, a, n)
      /\ SnapshotReached(h, a, n.snap) /\ StoreReached(h, a, st)
      /\ n.commit = c /\ b = IF e.install THEN n.snap.index ELSE st.applied
      /\ n.snap.index <= b /\ b <= c /\ e.apply = (b + 1)..c
      BY DEF HandsOver
<1>1. Reached(h, a, b, x)
      BY <1>0 DEF SnapshotReached, StoreReached
<1>2. old \in Seq(S)
      BY <1>0, AboveType DEF StoreReached
<1> HIDE DEF x, old, S
<1>3. /\ Reached(h, a, c, x \o commandsOf(entries))
      /\ entries \in Seq(S)
      BY <1>0, <1>1, HistoryExtends DEF S
<1>4. old \o entries \in Seq(S)
  <2> HIDE DEF entries
  <2> QED BY <1>2, <1>3
<1>5. applyEffects(st, n, e) =
        [applied |-> b + Cardinality(e.apply), entries |-> old \o entries,
         history |-> x \o commandsOf(entries)]
      BY <1>0 DEF applyEffects, old, x
<1>6. b + Cardinality(e.apply) = c
      BY <1>0, AppliedTo
<1> HIDE DEF entries
<1> QED BY <1>3, <1>4, <1>5, <1>6 DEF StoreReached, S

\* An application recovers to what it had reached: from the checkpoint on disk
\* and the stored entries above it, or from all stored entries.
LEMMA RecoveryReached ==
    ASSUME NEW h \in Histories, HistoriesAgree(h), NEW a, Lasting(h, a),
           NEW d, SectionOK(d), FromHistory(h, d), Committed(h, a, d), d.commit \in Nat,
           SnapshotReached(h, a, d.snap), NEW st, StoreReached(h, a, st),
           st.applied \in Nat, st.applied <= d.commit, recoverable(d, st)
    PROVE  StoreReached(h, a, recoverApplication(d, st))
<1> DEFINE entries == entriesAbove(st.entries, recoveryBoundary(d, st))
           y == IF recoveryBoundary(d, st) > 0 THEN d.snap.data ELSE <<>>
           S == ChosenEntries(h, a)
<1>1. PICK b \in Nat : b = recoveryBoundary(d, st) /\ (b = 0 \/ b = d.snap.index)
      BY DEF recoveryBoundary, SectionOK
<1>2. PICK A \in Nat : A = st.applied /\ A <= d.commit
      OBVIOUS
<1>3. entries \in Seq(S)
      BY AboveType DEF StoreReached
<1>4. PICK l \in Nat : l = Len(entries)
      BY <1>3
<1>5. (\A k \in 1..l : entries[k].index = b + k) /\ b + l = A
      BY <1>1, <1>2, <1>4 DEF recoverable
<1>6. Reached(h, a, b, y)
  <2>1. CASE b = 0
        BY <1>1, <2>1 DEF Reached
  <2>2. CASE b > 0
        BY <1>1, <2>2 DEF SnapshotReached
  <2> QED BY <2>1, <2>2
<1>7. recoverApplication(d, st) = [st EXCEPT !.history = y \o commandsOf(entries)]
      BY DEF recoverApplication
<1> HIDE DEF y, entries
<1>8. Reached(h, a, A, y \o commandsOf(entries))
  <2>1. CASE A = 0
    <3>1. b = 0 /\ l = 0
          BY <1>5, <2>1
    <3>2. y = <<>> /\ commandsOf(entries) = <<>>
          BY <1>4, <1>6, <3>1, NoCommands DEF Reached
    <3> QED BY <2>1, <3>2 DEF Reached
  <2>2. CASE A # 0
    <3>1. PICK c \in Nat : c = d.commit /\ c > 0 /\ A <= c
          BY <1>2, <2>2
    <3>2. PICK t \in Terms : Settled(h, a, t, c) /\ c <= Len(h.full[t])
          BY <3>1, CommittedLog
    <3>3. PICK f : f = h.full[t] /\ f \in Seq(Entry)
          BY DEF Histories
    <3>4. ASSUME NEW k \in 1..l PROVE entries[k].data = f[b + k].data
      <4>1. entries[k] \in S
            BY <1>3, <1>4
      <4>2. PICK u \in Terms : /\ Settled(h, a, u, entries[k].index)
                               /\ entries[k].data = h.full[u][entries[k].index].data
            BY <4>1 DEF S, ChosenEntries
      <4>3. PICK i \in Nat : i = b + k /\ i = entries[k].index /\ i > 0 /\ i <= c /\ i \in 1..i
            BY <1>5, <3>1
      <4>4. h.full[u][i] = h.full[t][i]
        <5>1. Settled(h, a, u, i)
              BY <4>2, <4>3
        <5> QED BY <3>2, <4>3, <5>1, SettledAgree
      <4> QED BY <3>3, <4>2, <4>3, <4>4
    <3>5. CommandsJoin(f, b, l, entries)
      <4>1. b + l <= Len(f)
            BY <1>5, <3>1, <3>2, <3>3
      <4> QED BY <1>4, <3>3, <3>4, <4>1, CommandsSection
    <3>6. y = historyOf(h, t, b)
      <4>1. b <= c
            BY <1>5, <3>1
      <4> QED BY <1>6, <3>1, <3>2, <4>1, ReachedAt
    <3>7. y \o commandsOf(entries) = historyOf(h, t, A)
          BY <1>5, <3>3, <3>5, <3>6 DEF CommandsJoin, historyOf
    <3>8. Settled(h, a, t, A)
      <4>1. PICK i \in 1..Len(h.full[t]) : c <= i /\ Own(h, t, i) /\ Chosen(a, t, i)
            BY <3>2 DEF Settled
      <4>2. A <= i
            BY <3>1, <4>1
      <4> QED BY <4>1, <4>2 DEF Settled
    <3> QED BY <2>2, <3>7, <3>8 DEF Reached
  <2> QED BY <2>1, <2>2
<1> QED BY <1>2, <1>7, <1>8 DEF StoreReached

-----------------------------------------------------------------------------
(* What was reached stays reached.                                         *)

\* A chosen entry stays chosen, in a history that keeps it.
LEMMA SettledGrows ==
    ASSUME NEW h \in Histories, NEW a, NEW g \in Histories, NEW b, Grows(h, a, g, b),
           NEW t \in Terms, NEW i \in Nat, Settled(h, a, t, i)
    PROVE  /\ Settled(g, b, t, i) /\ i <= Len(h.full[t]) /\ i <= Len(g.full[t])
           /\ \A k \in 1..i : g.full[t][k] = h.full[t][k]
<1>1. PICK c \in 1..Len(h.full[t]) : i <= c /\ Own(h, t, c) /\ Chosen(a, t, c)
      BY DEF Settled
<1>2. PICK l \in Nat : l = Len(h.full[t])
      BY DEF Histories
<1>3. PICK m \in Nat : m = Len(g.full[t])
      BY DEF Histories
<1>4. c \in Nat /\ c > 0 /\ c <= l /\ i <= l
      BY <1>1, <1>2
<1>5. Own(g, t, c) /\ c <= m
      BY <1>1, <1>2, <1>3, <1>4, OwnContinues DEF Grows
<1>6. c \in 1..m /\ i <= m
      BY <1>1, <1>4, <1>5
<1>7. Chosen(b, t, c)
      BY <1>1, <1>4 DEF Grows
<1>8. Settled(g, b, t, i)
      BY <1>1, <1>3, <1>5, <1>6, <1>7 DEF Settled
<1>9. \A k \in 1..i : g.full[t][k] = h.full[t][k]
  <2>1. \A k \in 1..i : k \in 1..l
        BY <1>4
  <2> QED BY <1>2, <2>1 DEF Grows, Continues
<1> QED BY <1>2, <1>3, <1>4, <1>6, <1>8, <1>9

\* What was reached at an index is reached there for ever.
LEMMA ReachedGrows ==
    ASSUME NEW h \in Histories, NEW a, NEW g \in Histories, NEW b, Grows(h, a, g, b),
           NEW i \in Nat, NEW x, Reached(h, a, i, x)
    PROVE  Reached(g, b, i, x)
<1>1. CASE i = 0
      BY <1>1 DEF Reached
<1>2. CASE i # 0
  <2>1. PICK t \in Terms : Settled(h, a, t, i) /\ x = historyOf(h, t, i)
        BY <1>2 DEF Reached
  <2>2. PICK f \in Seq(Entry) : f = h.full[t]
        BY DEF Histories
  <2>3. PICK f2 \in Seq(Entry) : f2 = g.full[t]
        BY DEF Histories
  <2>4. /\ Settled(g, b, t, i) /\ i <= Len(h.full[t]) /\ i <= Len(g.full[t])
        /\ \A k \in 1..i : g.full[t][k] = h.full[t][k]
        BY <2>1, SettledGrows, ZenonT(40)
  <2>5. SubSeq(f, 1, i) = SubSeq(f2, 1, i)
        BY <2>2, <2>3, <2>4, SamePrefix
  <2>6. historyOf(h, t, i) = historyOf(g, t, i)
        BY <2>2, <2>3, <2>5 DEF historyOf
  <2> QED BY <1>2, <2>1, <2>4, <2>6 DEF Reached
<1> QED BY <1>1, <1>2

\* Entries stay chosen.
LEMMA ChosenGrows ==
    ASSUME NEW h \in Histories, NEW a, NEW g \in Histories, NEW b, Grows(h, a, g, b)
    PROVE  ChosenEntries(h, a) \subseteq ChosenEntries(g, b)
<1> SUFFICES ASSUME NEW e \in ChosenEntries(h, a) PROVE e \in ChosenEntries(g, b)
    OBVIOUS
<1>1. PICK t \in Terms : Settled(h, a, t, e.index) /\ e.data = h.full[t][e.index].data
      BY DEF ChosenEntries
<1>2. PICK i \in Nat : i = e.index /\ i > 0 /\ i \in 1..i
      BY DEF ChosenEntries
<1>3. Settled(g, b, t, i) /\ g.full[t][i] = h.full[t][i]
  <2>1. Settled(h, a, t, i)
        BY <1>1, <1>2
  <2>2. Settled(g, b, t, i) /\ \A k \in 1..i : g.full[t][k] = h.full[t][k]
        BY <2>1, SettledGrows
  <2> QED BY <1>2, <2>2
<1>4. e \in [index : Nat \ {0}, data : Command \cup {NoCommand}]
      BY DEF ChosenEntries
<1> QED BY <1>1, <1>2, <1>3, <1>4 DEF ChosenEntries

\* A sequence over a set is one over a larger set.
LEMMA SeqGrows ==
    ASSUME NEW A, NEW B, A \subseteq B, NEW x \in Seq(A)
    PROVE  x \in Seq(B)
<1>1. x = [i \in 1..Len(x) |-> x[i]] /\ Len(x) \in Nat
      OBVIOUS
<1>2. \A i \in 1..Len(x) : x[i] \in B
      OBVIOUS
<1> QED BY <1>1, <1>2

\* What an application holds stays explained.
LEMMA StoreGrows ==
    ASSUME NEW h \in Histories, NEW a, NEW g \in Histories, NEW b, Grows(h, a, g, b),
           NEW st, st.applied \in Nat, StoreReached(h, a, st)
    PROVE  StoreReached(g, b, st)
<1>1. Reached(g, b, st.applied, st.history)
      BY ReachedGrows DEF StoreReached
<1>2. st.entries \in Seq(ChosenEntries(h, a)) /\ ChosenEntries(h, a) \subseteq ChosenEntries(g, b)
      BY ChosenGrows DEF StoreReached
<1>3. st.entries \in Seq(ChosenEntries(g, b))
      BY <1>2, SeqGrows
<1> QED BY <1>1, <1>3 DEF StoreReached

\* What a checkpoint holds stays explained.
LEMMA SnapshotGrows ==
    ASSUME NEW h \in Histories, NEW a, NEW g \in Histories, NEW b, Grows(h, a, g, b),
           NEW p, p.index \in Nat, SnapshotReached(h, a, p)
    PROVE  SnapshotReached(g, b, p)
BY ReachedGrows DEF SnapshotReached

-----------------------------------------------------------------------------
(* What a step does to applications and checkpoints.                       *)

\* Only s moves, to what was reached; what it sends was reached as well.
MovesReached(g, b, s) ==
    /\ \A u \in Server \ {s} :
        /\ node'[u] = node[u] /\ disk'[u] = disk[u] /\ store'[u] = store[u]
        /\ up'[u] = up[u] /\ pending'[u] = pending[u]
    /\ SnapshotReached(g, b, disk'[s].snap) /\ SnapshotReached(g, b, node'[s].snap)
    /\ StoreReached(g, b, store'[s]) /\ Attached(s)'
    /\ \A m \in net' \ net : m.type = "InstallSnapshot" => SnapshotReached(g, b, m.snapshot)

\* Such a step preserves the invariant, with grown histories.
LEMMA ApplicationsMove ==
    ASSUME TypeInv, NEW h \in Histories, NEW a, NEW g \in Histories, NEW b, Grows(h, a, g, b),
           ApplicationInv(h, a), NEW s \in Server, MovesReached(g, b, s)
    PROVE  ApplicationInv(g, b)'
<1>1. ASSUME NEW u \in Server
      PROVE  /\ SnapshotReached(g, b, disk'[u].snap) /\ SnapshotReached(g, b, node'[u].snap)
             /\ StoreReached(g, b, store'[u]) /\ Attached(u)'
  <2>1. CASE u = s
        BY <2>1 DEF MovesReached
  <2>2. CASE u # s
    <3>1. /\ node'[u] = node[u] /\ disk'[u] = disk[u] /\ store'[u] = store[u]
          /\ up'[u] = up[u] /\ pending'[u] = pending[u]
          BY <2>2 DEF MovesReached
    <3>2. /\ disk[u].snap.index \in Nat /\ node[u].snap.index \in Nat /\ store[u].applied \in Nat
          BY TypeInvAt, SectionTypes, SectionAt
    <3>3. /\ SnapshotReached(h, a, disk[u].snap) /\ SnapshotReached(h, a, node[u].snap)
          /\ StoreReached(h, a, store[u]) /\ Attached(u)
          BY DEF ApplicationInv
    <3>4. SnapshotReached(g, b, disk[u].snap)
          BY <3>2, <3>3, SnapshotGrows
    <3>5. SnapshotReached(g, b, node[u].snap)
          BY <3>2, <3>3, SnapshotGrows
    <3>6. StoreReached(g, b, store[u])
          BY <3>2, <3>3, StoreGrows
    <3>7. Attached(u)'
          BY <3>1, <3>3 DEF Attached
    <3> QED BY <3>1, <3>4, <3>5, <3>6, <3>7
  <2> QED BY <2>1, <2>2
<1>2. ASSUME NEW m \in net', m.type = "InstallSnapshot" PROVE SnapshotReached(g, b, m.snapshot)
  <2>1. CASE m \in net
    <3>1. SnapshotReached(h, a, m.snapshot)
          BY <1>2, <2>1 DEF ApplicationInv
    <3>2. m.snapshot.index \in Nat
      <4>1. MessageOK(m)
            BY <2>1 DEF TypeInv, TypeOK
      <4>2. SnapshotOK(m.snapshot)
            BY <1>2, <4>1 DEF MessageOK
      <4> QED BY <4>2, BoundAssumption DEF SnapshotOK
    <3> QED BY <3>1, <3>2, SnapshotGrows
  <2>2. CASE m \notin net
        BY <1>2, <2>2 DEF MovesReached
  <2> QED BY <2>1, <2>2
<1> QED BY <1>1, <1>2 DEF ApplicationInv

\* A step that moves nothing preserves it.
LEMMA ApplicationsUnmoved ==
    ASSUME NEW h, NEW a, ApplicationInv(h, a), Unmoved
    PROVE  ApplicationInv(h, a)'
BY DEF Unmoved, ApplicationInv, Attached

\* What a transition leaves in memory was reached, before its effects.
LEMMA TakesReached ==
    ASSUME TypeInv, NEW h \in Histories, NEW a, CommitInv(h, a),
           ApplicationInv(h, a), NEW s \in Server, NEW M, NEW X, NEW r, Takes(s, M, X, r)
    PROVE  /\ SnapshotReached(h, a, r.node.snap)
           /\ ~r.effects.install => \/ r.node.snap = node[s].snap
                                    \/ r.node.snap.index = store[s].applied
           /\ store[s].applied = node[s].commit
           /\ node[s].snap.index <= store[s].applied
<1>1. Idle(s) /\ M \subseteq net /\ SnapCause(s, M, r)
      BY DEF Takes
<1>2. store[s].applied = node[s].commit
      BY <1>1, IdleDelivery DEF CommitInv
<1>3. node[s].snap.index <= store[s].applied
  <2>1. Attached(s) /\ up[s] /\ ~pending[s].effects.install
        BY <1>1 DEF ApplicationInv, Idle, NoPending, NoEffects
  <2> QED BY <2>1 DEF Attached
<1>4. SnapshotReached(h, a, r.node.snap)
  <2>1. CASE r.node.snap = node[s].snap
        BY <2>1 DEF ApplicationInv
  <2>2. CASE \E m \in M : m.type = "InstallSnapshot" /\ r.node.snap = m.snapshot
        BY <1>1, <2>2 DEF ApplicationInv
  <2>3. CASE r.node.snap.index = store[s].applied /\ r.node.snap.data = store[s].history
        BY <2>3 DEF ApplicationInv, StoreReached, SnapshotReached
  <2> QED BY <1>1, <2>1, <2>2, <2>3 DEF SnapCause, SnapStep
<1>5. ~r.effects.install => \/ r.node.snap = node[s].snap
                            \/ r.node.snap.index = store[s].applied
      BY <1>1 DEF SnapCause, SnapStep
<1> QED BY <1>2, <1>3, <1>4, <1>5

\* A transition that needs no write hands over nothing new.
LEMMA TakesApplies ==
    ASSUME TypeInv, VoteInv, MembershipIsCurrent, NEW h \in Histories, LogInv(h),
           NEW a \in Acks, CommitInv(h, a),
           ApplicationInv(h, a), NEW s \in Server, NEW M, NEW X, NEW r, Takes(s, M, X, r),
           ~r.dirty
    PROVE  /\ StoreReached(h, a, applyEffects(store[s], r.node, r.effects))
           /\ applyEffects(store[s], r.node, r.effects).applied = node[s].commit
           /\ r.node.snap = node[s].snap
<1>1. PICK n : n = node[s]
      OBVIOUS
<1>2. PICK k : k = r.node
      OBVIOUS
<1>3. PICK e : e = r.effects
      OBVIOUS
<1>4. Delivers(n, k, e) /\ k.snap = n.snap /\ k.log = n.log /\ k.commit = n.commit
      BY <1>1, <1>2, <1>3 DEF Takes, CommitStep, CommitCause
<1>5. /\ SectionOK(k) /\ FromHistory(h, n) /\ n.commit \in Nat
      BY <1>1, <1>2, TakesFrom
<1>6. FromHistory(h, k)
      BY <1>4, <1>5, WithinSame
<1>7. Committed(h, a, k)
      BY <1>1, <1>2, <1>4, TakesCommitted
<1>8. PICK c \in Nat : c = n.commit
      BY <1>5
<1>9. ~e.install /\ e.apply = (c + 1)..c
      BY <1>4, <1>8 DEF Delivers
<1>10. store[s].applied = c /\ k.snap.index <= c /\ SnapshotReached(h, a, k.snap)
      BY <1>1, <1>2, <1>4, <1>8, TakesReached
<1>11. PICK st : st = store[s]
      OBVIOUS
<1>12. StoreReached(h, a, st)
      BY <1>11 DEF ApplicationInv
<1>13. c = IF e.install THEN k.snap.index ELSE st.applied
      BY <1>9, <1>10, <1>11
<1>14. HistoriesAgree(h) /\ Lasting(h, a)
      BY LaterLasts DEF LogInv, CommitInv
<1>15. k.commit = c /\ c <= c
      BY <1>4, <1>8
<1>16. StoreReached(h, a, applyEffects(st, k, e)) /\ applyEffects(st, k, e).applied = c
  <2>1. HandsOver(h, a, k, st, e, c, c)
        BY <1>5, <1>6, <1>7, <1>9, <1>10, <1>12, <1>13, <1>14, <1>15 DEF HandsOver
  <2> QED BY <2>1, AppliesReached
<1> QED BY <1>1, <1>2, <1>3, <1>4, <1>8, <1>11, <1>16

\* Handling effects preserves it: a dirty transition leaves the application
\* waiting for its write, a clean one applies its commands.
LEMMA SubmitReaches ==
    ASSUME TypeInv, VoteInv, MembershipIsCurrent, NEW h \in Histories, LogInv(h),
           NEW a \in Acks, CommitInv(h, a), ApplicationInv(h, a),
           NEW s \in Server, NEW M, NEW X, NEW r, Takes(s, M, X, r),
           NEW inFlight \in SUBSET net, NEW t, Submit(s, r, inFlight, t),
           NEW g \in Histories, NEW b, Grows(h, a, g, b)
    PROVE  ApplicationInv(g, b)'
<1>1. PICK k : k = r.node
      OBVIOUS
<1>2. PICK e : e = r.effects
      OBVIOUS
<1>3. /\ node'[s] = k /\ disk' = disk /\ up' = up
      /\ \A u \in Server \ {s} :
            node'[u] = node[u] /\ store'[u] = store[u] /\ pending'[u] = pending[u]
      BY <1>1 DEF Submit, TypeInv, TypeOK, PerServer
<1>4. SnapshotReached(h, a, k.snap) /\ k.snap.index \in Nat
      BY <1>1, TakesReached, TakesFrom, SectionAt
<1>5. SnapshotReached(g, b, k.snap)
      BY <1>4, SnapshotGrows
<1>6. SnapshotReached(g, b, disk[s].snap)
  <2>1. SnapshotReached(h, a, disk[s].snap) /\ disk[s].snap.index \in Nat
        BY TypeInvAt, SectionTypes, SectionAt DEF ApplicationInv
  <2> QED BY <2>1, SnapshotGrows
<1>7. StoreReached(g, b, store'[s]) /\ Attached(s)'
  <2>1. PICK p \in Nat : p = node[s].snap.index
        BY TakesFrom, SectionAt
  <2>2. PICK A \in Nat : A = store[s].applied /\ p <= A /\ A = node[s].commit
        BY <2>1, TypeInvAt, TakesReached
  <2>3. CASE r.dirty
    <3>1. store'[s] = store[s] /\ pending'[s].effects = e
          BY <1>2, <2>3 DEF Submit, TypeInv, TypeOK, PerServer
    <3>2. StoreReached(h, a, store[s]) /\ store[s].applied \in Nat
          BY TypeInvAt DEF ApplicationInv
    <3>3. StoreReached(g, b, store[s])
          BY <3>2, StoreGrows
    <3>4. ~e.install => k.snap = node[s].snap \/ k.snap.index = A
          BY <1>1, <1>2, <2>2, TakesReached
    <3>5. ~e.install => k.snap.index <= A
          BY <2>1, <2>2, <3>4
    <3> QED BY <1>3, <2>2, <3>1, <3>3, <3>5 DEF Attached
  <2>4. CASE ~r.dirty
    <3>1. store'[s] = applyEffects(store[s], k, e)
          BY <1>1, <1>2, <2>4 DEF Submit, TypeInv, TypeOK, PerServer
    <3>2. /\ StoreReached(h, a, applyEffects(store[s], k, e))
          /\ applyEffects(store[s], k, e).applied = A /\ k.snap = node[s].snap
          BY <1>1, <1>2, <2>2, <2>4, TakesApplies
    <3>3. PICK st : st = applyEffects(store[s], k, e)
          OBVIOUS
    <3>4. StoreReached(g, b, st) /\ st.applied = A
          BY <2>2, <3>2, <3>3, StoreGrows
    <3> QED BY <1>3, <2>1, <2>2, <3>1, <3>2, <3>3, <3>4 DEF Attached
  <2> QED BY <2>3, <2>4
<1>8. ASSUME NEW m \in net' \ net, m.type = "InstallSnapshot" PROVE SnapshotReached(g, b, m.snapshot)
  <2>1. m \in e.send
        BY <1>2 DEF Submit, Send
  <2>2. SendsLog(k, m)
    <3>1. CarriesLog(m)
          BY <1>8 DEF CarriesLog
    <3> QED BY <1>1, <1>2, <2>1, <3>1 DEF Takes, CommitStep, SendCause
  <2> QED BY <1>5, <1>8, <2>2 DEF SendsLog
<1>9. MovesReached(g, b, s)
      BY <1>3, <1>5, <1>6, <1>7, <1>8 DEF MovesReached
<1> QED BY <1>9, ApplicationsMove

-----------------------------------------------------------------------------
(* Each action accounts for what it applies and installs.                  *)

\* The completion of a write makes the checkpoint in memory durable.
LEMMA WriteReaches ==
    ASSUME TypeInv, NEW h \in Histories, NEW a, ApplicationInv(h, a),
           NEW s \in Server, Completes(s), NEW g \in Histories, NEW b, Grows(h, a, g, b)
    PROVE  ApplicationInv(g, b)'
<1>1. /\ UNCHANGED <<node, up, store, net>> /\ disk'[s].snap = node[s].snap
      /\ \A u \in Server \ {s} : disk'[u] = disk[u] /\ pending'[u] = pending[u]
      /\ pending'[s].effects = pending[s].effects
      BY DEF Completes
<1>2. /\ SnapshotReached(h, a, node[s].snap) /\ StoreReached(h, a, store[s]) /\ Attached(s)
      BY DEF ApplicationInv
<1>3. node[s].snap.index \in Nat /\ store[s].applied \in Nat
      BY TypeInvAt, SectionTypes, SectionAt
<1>4. SnapshotReached(g, b, node[s].snap)
      BY <1>2, <1>3, SnapshotGrows
<1>5. StoreReached(g, b, store[s])
      BY <1>2, <1>3, StoreGrows
<1>6. Attached(s)'
      BY <1>1, <1>2 DEF Attached
<1>7. MovesReached(g, b, s)
      BY <1>1, <1>4, <1>5, <1>6 DEF MovesReached
<1> QED BY <1>7, ApplicationsMove

\* The acknowledgement of a write hands over what the write has committed.
LEMMA AcknowledgeReaches ==
    ASSUME TypeInv, VoteInv, NEW h \in Histories, LogInv(h), NEW a \in Acks, CommitInv(h, a),
           ApplicationInv(h, a), NEW s \in Server, AcknowledgeWrite(s)
    PROVE  /\ ApplicationInv(h, a)'
           /\ store'[s].applied = node[s].commit
<1>1. PICK k : k = node[s]
      OBVIOUS
<1>2. PICK e : e = pending[s].effects
      OBVIOUS
<1>3. PICK st : st = store[s]
      OBVIOUS
<1>4. /\ up[s] /\ pending[s].phase = "written"
      /\ store'[s] = applyEffects(st, k, e) /\ pending'[s] = NoPending
      /\ net' \subseteq net \cup e.send /\ UNCHANGED <<node, up, disk>>
      /\ \A u \in Server \ {s} : store'[u] = store[u] /\ pending'[u] = pending[u]
      BY <1>1, <1>2, <1>3 DEF AcknowledgeWrite, Send, TypeInv, TypeOK, PerServer
<1>5. /\ disk[s].term = k.term /\ disk[s].commit = k.commit
      /\ disk[s].log = k.log /\ disk[s].snap = k.snap
      BY <1>1, <1>4 DEF VoteInv, WriteOK, CommitInv, CommitsChosen
<1>6. NodeInv(k) /\ SectionOK(k)
      BY <1>1, TypeInvAt, SectionTypes
<1>7. FromHistory(h, k)
  <2>1. FromHistory(h, disk[s])
        BY DEF LogInv, LogsFromHistory
  <2> QED BY <1>5, <2>1, WithinSame
<1>8. Committed(h, a, k)
  <2>1. ~CommitsOwn(a, s)
        BY <1>4 DEF CommitsOwn
  <2> QED BY <1>1, <2>1 DEF CommitInv, CommitsChosen
<1>9. PICK c \in Nat : c = k.commit
      BY <1>6, CommitType
<1>10. PICK p \in Nat : p = k.snap.index
      BY <1>6, SectionAt
<1>11. PICK A \in Nat : A = st.applied
      BY <1>3, TypeInvAt
<1>12. PICK d \in Nat : d = IF e.install THEN p ELSE A
      OBVIOUS
<1>13. DeliveryOK(s) /\ Attached(s) /\ HistoriesAgree(h) /\ Lasting(h, a)
      BY LaterLasts DEF CommitInv, ApplicationInv, LogInv
<1>14. e.apply = (d + 1)..c /\ d <= c
      BY <1>1, <1>2, <1>3, <1>4, <1>9, <1>10, <1>11, <1>12, <1>13 DEF DeliveryOK
<1>15. p <= d
      BY <1>1, <1>2, <1>3, <1>4, <1>10, <1>11, <1>12, <1>13 DEF Attached
<1>16. SnapshotReached(h, a, k.snap) /\ SnapshotReached(h, a, disk[s].snap) /\ StoreReached(h, a, st)
      BY <1>1, <1>3 DEF ApplicationInv
<1>17. StoreReached(h, a, applyEffects(st, k, e)) /\ applyEffects(st, k, e).applied = c
  <2>1. d = IF e.install THEN k.snap.index ELSE st.applied
        BY <1>10, <1>11, <1>12
  <2>2. k.snap.index <= d /\ k.commit = c
        BY <1>9, <1>10, <1>15
  <2>3. HandsOver(h, a, k, st, e, d, c)
        BY <1>6, <1>7, <1>8, <1>13, <1>14, <1>16, <2>1, <2>2 DEF HandsOver
  <2> QED BY <2>3, AppliesReached
<1>18. PICK st2 : st2 = applyEffects(st, k, e)
      OBVIOUS
<1>19. StoreReached(h, a, store'[s]) /\ store'[s].applied = c
      BY <1>4, <1>17, <1>18
<1>20. Attached(s)'
  <2>1. k.snap.index <= c
        BY <1>10, <1>14, <1>15
  <2> QED BY <1>1, <1>4, <1>19, <2>1 DEF Attached
<1>21. ASSUME NEW m \in net' \ net, m.type = "InstallSnapshot" PROVE SnapshotReached(h, a, m.snapshot)
  <2>1. m \in e.send /\ CarriesLog(m)
        BY <1>4, <1>21 DEF CarriesLog
  <2>2. SendsLog(k, m)
        BY <1>1, <1>2, <2>1 DEF CommitInv, CommitsChosen
  <2> QED BY <1>16, <1>21, <2>2 DEF SendsLog
<1>22. MovesReached(h, a, s)
      BY <1>1, <1>4, <1>16, <1>19, <1>20, <1>21 DEF MovesReached
<1>23. Grows(h, a, h, a)
      BY GrowsSame
<1> QED BY <1>1, <1>9, <1>19, <1>22, <1>23, ApplicationsMove

\* A crash falls back on the durable checkpoint.
LEMMA CrashReaches ==
    ASSUME TypeInv, NEW h \in Histories, LogInv(h), NEW a, ApplicationInv(h, a),
           NEW s \in Server, Crash(s)
    PROVE  ApplicationInv(h, a)'
<1>1. /\ node'[s] = New(s, disk[s], store[s].applied) /\ ~up'[s]
      /\ UNCHANGED <<disk, store, net>>
      /\ \A u \in Server \ {s} :
            node'[u] = node[u] /\ up'[u] = up[u] /\ pending'[u] = pending[u]
      BY DEF Crash, TypeInv, TypeOK, PerServer
<1>2. node'[s].snap = disk[s].snap
      BY <1>1, NewFields
<1>3. SnapshotReached(h, a, disk[s].snap) /\ StoreReached(h, a, store[s])
      BY DEF ApplicationInv
<1>4. Attached(s)'
      BY <1>1 DEF Attached
<1>5. MovesReached(h, a, s)
      BY <1>1, <1>2, <1>3, <1>4 DEF MovesReached
<1>6. Grows(h, a, h, a)
      BY GrowsSame
<1> QED BY <1>5, <1>6, ApplicationsMove

\* A restart recovers the application and catches up with the durable commit.
LEMMA RestartReaches ==
    ASSUME TypeInv, VoteInv, NEW h \in Histories, LogInv(h), NEW a \in Acks, CommitInv(h, a),
           ApplicationInv(h, a), NEW s \in Server, Restart(s)
    PROVE  /\ ApplicationInv(h, a)'
           /\ store'[s].applied = disk[s].commit
<1>1. PICK n : n = node[s]
      OBVIOUS
<1>2. PICK r : r = Start(n)
      OBVIOUS
<1>3. PICK k : k = r.node
      OBVIOUS
<1>4. PICK e : e = r.effects
      OBVIOUS
<1>5. PICK st : st = recoverApplication(disk[s], store[s])
      OBVIOUS
<1>6. /\ node'[s] = k /\ store'[s] = applyEffects(st, k, e) /\ up'[s] /\ ~up[s]
      /\ UNCHANGED <<disk, pending, net>> /\ recoverable(disk[s], store[s])
      /\ \A u \in Server \ {s} : node'[u] = node[u] /\ up'[u] = up[u] /\ store'[u] = store[u]
      BY <1>1, <1>2, <1>3, <1>4, <1>5 DEF Restart, TypeInv, TypeOK, PerServer
<1>7. DeliveryOK(s) /\ NodeInv(n) /\ Shape(n) /\ SectionOK(n)
      BY <1>1, TypeInvAt, NodeShape, SectionTypes DEF CommitInv
<1>8. pending[s] = NoPending /\ n.applied = store[s].applied
      BY <1>1, <1>6, <1>7 DEF DeliveryOK
<1>9. pending[s].phase # "writing"
      BY <1>8 DEF NoPending
<1>10. /\ disk[s].term = n.term /\ disk[s].commit = n.commit
       /\ disk[s].log = n.log /\ disk[s].snap = n.snap /\ CommitInLog(n)
      BY <1>1, <1>9 DEF VoteInv, WriteOK, CommitInv, CommitsChosen
<1>11. PICK c \in Nat : c = n.commit
      BY <1>7, CommitType
<1>12. PICK p \in Nat : p = n.snap.index
      BY <1>7, SectionAt
<1>13. PICK A \in Nat : A = n.applied
      BY <1>8, TypeInvAt
<1>14. A <= c /\ p <= c
      BY <1>7, <1>8, <1>10, <1>11, <1>12, <1>13 DEF DeliveryOK, CommitInLog, Attached
<1>15. PICK d \in Nat : d = IF A < p THEN p ELSE A
      OBVIOUS
<1>16. d <= c /\ p <= d
      BY <1>14, <1>15
<1>17. /\ k.commit = c /\ k.snap = n.snap /\ k.log = n.log
       /\ e.install = (A < p) /\ e.apply = (d + 1)..c
      BY <1>2, <1>3, <1>4, <1>7, <1>11, <1>12, <1>13, <1>15, <1>16, StartDelivers
<1>18. KeepsVote(n, k) /\ NodeInv(k) /\ SectionOK(k)
      BY <1>2, <1>3, <1>7, StartVotes, StartType, SectionTypes DEF StepInv
<1>19. /\ HistoriesAgree(h) /\ Lasting(h, a) /\ FromHistory(h, disk[s])
       /\ Committed(h, a, disk[s]) /\ SnapshotReached(h, a, disk[s].snap)
       /\ StoreReached(h, a, store[s])
      BY LaterLasts DEF LogInv, LogsFromHistory, CommitInv, CommitsChosen, ApplicationInv
<1>20. k.snap = disk[s].snap /\ k.log = disk[s].log /\ k.commit = disk[s].commit
       /\ k.term = disk[s].term
      BY <1>10, <1>11, <1>17, <1>18 DEF KeepsVote
<1>21. FromHistory(h, k)
      BY <1>19, <1>20, WithinSame
<1>22. Committed(h, a, k)
  <2>1. \A i, t : Includes(h, disk[s], i, t) <=> Includes(h, k, i, t)
        BY <1>20, IncludesSame
  <2> QED BY <1>19, <1>20, <2>1 DEF Committed
<1>23. SectionOK(disk[s]) /\ disk[s].commit \in Nat /\ store[s].applied \in Nat
       /\ store[s].applied <= disk[s].commit
      BY <1>8, <1>10, <1>11, <1>13, <1>14, TypeInvAt, SectionTypes
<1>24. StoreReached(h, a, st)
      BY <1>5, <1>6, <1>19, <1>23, RecoveryReached
<1>25. st.applied = A
      BY <1>5, <1>8, <1>13, <1>23, RecoveryKeeps
<1>26. StoreReached(h, a, applyEffects(st, k, e)) /\ applyEffects(st, k, e).applied = c
  <2>1. d = IF e.install THEN k.snap.index ELSE st.applied
        BY <1>12, <1>15, <1>17, <1>25
  <2>2. k.snap.index <= d /\ SnapshotReached(h, a, k.snap)
        BY <1>12, <1>16, <1>17, <1>19, <1>20
  <2>3. HandsOver(h, a, k, st, e, d, c)
        BY <1>16, <1>17, <1>18, <1>19, <1>21, <1>22, <1>24, <2>1, <2>2 DEF HandsOver
  <2> QED BY <2>3, AppliesReached
<1>27. PICK st2 : st2 = applyEffects(st, k, e)
      OBVIOUS
<1>28. StoreReached(h, a, store'[s]) /\ store'[s].applied = c
      BY <1>6, <1>26, <1>27
<1>29. Attached(s)'
  <2>1. k.snap.index <= c
        BY <1>12, <1>14, <1>17
  <2> QED BY <1>6, <1>28, <2>1 DEF Attached
<1>30. MovesReached(h, a, s)
      BY <1>6, <1>19, <1>20, <1>28, <1>29 DEF MovesReached
<1>31. Grows(h, a, h, a)
      BY GrowsSame
<1> QED BY <1>10, <1>11, <1>28, <1>30, <1>31, ApplicationsMove

-----------------------------------------------------------------------------
(* The inductive invariant.                                                *)

\* Some histories and acknowledgements explain every checkpoint and application.
ApplicationHistory ==
    \E h \in Histories, a \in Acks : LogInv(h) /\ CommitInv(h, a) /\ ApplicationInv(h, a)

\* A bootstrapped application has executed nothing.
LEMMA BootstrapReaches ==
    ASSUME Init, NEW h, NEW a
    PROVE  ApplicationInv(h, a)
<1>1. ASSUME NEW s \in Server
      PROVE  /\ node[s].snap = NoSnapshot /\ disk[s].snap = NoSnapshot
             /\ store[s] = [applied |-> 0, entries |-> <<>>, history |-> <<>>]
      BY Bootstrapped DEF Init
<1>2. NoSnapshot.index = 0 /\ NoSnapshot.data = <<>>
      BY DEF NoSnapshot
<1>3. SnapshotReached(h, a, NoSnapshot)
      BY <1>2 DEF SnapshotReached, Reached
<1>4. ASSUME NEW st, st = [applied |-> 0, entries |-> <<>>, history |-> <<>>]
      PROVE  StoreReached(h, a, st)
  <2>1. st.applied = 0 /\ st.entries = <<>> /\ st.history = <<>>
        BY <1>4
  <2>2. \A S : <<>> \in Seq(S)
        OBVIOUS
  <2> QED BY <2>1, <2>2 DEF StoreReached, Reached
<1>5. \A s \in Server : Attached(s)
      BY <1>1, <1>2 DEF Attached
<1>6. net = {}
      BY DEF Init
<1> QED BY <1>1, <1>3, <1>4, <1>5, <1>6 DEF ApplicationInv

\* Every step is explained by histories and acknowledgements that have grown,
\* for the applications too.
Accounted(h, a) ==
    \E g \in Histories, b \in Acks :
        /\ LogInv(g)' /\ CommitInv(g, b)' /\ ApplicationInv(g, b)'
        /\ Grows(h, a, g, b)

\* Every step of the cluster is accounted for, action by action.
LEMMA StepAccounted ==
    ASSUME Target = {}, TypeInv, VoteInv, MembershipIsCurrent, TypeInv', VoteInv',
           NEW h \in Histories, LogInv(h), NEW a \in Acks, CommitInv(h, a),
           ApplicationInv(h, a), [Next]_vars
    PROVE  Accounted(h, a)
<1>0. PICK g \in Histories, b \in Acks : LogInv(g)' /\ CommitInv(g, b)' /\ Grows(h, a, g, b)
      BY StepExplained DEF Explained
<1>1. CASE Unmoved
  <2>1. LogInv(h)' /\ CommitInv(h, a)'
        BY <1>1, IdleCommits DEF Unmoved
  <2>2. ApplicationInv(h, a)'
        BY <1>1, ApplicationsUnmoved
  <2> QED BY <2>1, <2>2, GrowsSame DEF Accounted
<1>2. ASSUME NEW s \in Server, Submitted(s) PROVE Accounted(h, a)
  <2>0. PICK M \in SUBSET net, inFlight \in SUBSET net :
            \E X, r, t : Takes(s, M, X, r) /\ Submit(s, r, inFlight, t)
        BY <1>2 DEF Submitted
  <2>1. PICK X, r, t : Takes(s, M, X, r) /\ Submit(s, r, inFlight, t)
        BY <2>0
  <2>2. ApplicationInv(g, b)'
        BY <1>0, <2>1, SubmitReaches
  <2> QED BY <1>0, <2>2 DEF Accounted
<1>3. ASSUME NEW s \in Server, CompleteWrite(s) PROVE Accounted(h, a)
  <2>1. Completes(s)
        BY <1>3, WriteCompletes
  <2>2. ApplicationInv(g, b)'
        BY <1>0, <2>1, WriteReaches
  <2> QED BY <1>0, <2>2 DEF Accounted
<1>4. ASSUME VotesAreRecorded, NEW s \in Server, AcknowledgeWrite(s) PROVE Accounted(h, a)
  <2>1. LogInv(h)'
        BY <1>4, AcknowledgeLogs
  <2>2. CommitInv(h, a)'
        BY <1>4, <2>1, AcknowledgeCommits
  <2>3. ApplicationInv(h, a)'
        BY <1>4, AcknowledgeReaches
  <2> QED BY <2>1, <2>2, <2>3, GrowsSame DEF Accounted
<1>5. ASSUME VotesAreRecorded, NEW s \in Server, Crash(s) \/ Restart(s) PROVE Accounted(h, a)
  <2>1. LogInv(h)'
        BY <1>5, CrashLogs
  <2>2. CommitInv(h, a)'
        BY <1>5, <2>1, CrashCommits, RestartCommits
  <2>3. ApplicationInv(h, a)'
        BY <1>5, CrashReaches, RestartReaches
  <2> QED BY <2>1, <2>2, <2>3, GrowsSame DEF Accounted
<1> QED BY <1>1, <1>2, <1>3, <1>4, <1>5, StepTaken

\* A bootstrapped cluster has executed nothing.
LEMMA InitAccounted == Init => ApplicationHistory
<1> SUFFICES ASSUME Init PROVE ApplicationHistory
    OBVIOUS
<1>1. PICK h \in Histories, a \in Acks : LogInv(h) /\ CommitInv(h, a)
      BY InitCommits DEF CommitHistory
<1> QED BY <1>1, BootstrapReaches DEF ApplicationHistory

\* Every checkpoint, in memory, on disk or on its way to a follower, and every
\* application is what chosen entries made of it, across compaction, installed
\* snapshots, crashes and recovery, as long as no membership change is asked
\* for: the invariant on which the properties of applications below rest.
THEOREM ApplicationsAreExplained ==
    ASSUME Target = {}
    PROVE  Spec => []ApplicationHistory
<1>1. /\ TypeInv /\ VoteInv /\ MembershipIsCurrent /\ TypeInv' /\ VoteInv'
      /\ ApplicationHistory /\ [Next]_vars
      => ApplicationHistory'
  <2> SUFFICES ASSUME TypeInv, VoteInv, MembershipIsCurrent, TypeInv', VoteInv',
                      NEW h \in Histories, NEW a \in Acks,
                      LogInv(h), CommitInv(h, a), ApplicationInv(h, a), [Next]_vars
               PROVE  ApplicationHistory'
      BY DEF ApplicationHistory
  <2> QED BY StepAccounted DEF Accounted, ApplicationHistory
<1> QED BY <1>1, InitAccounted, TypeCorrect, VotesCorrect, ConfigurationIsCurrent, PTL DEF Spec

\* Application states, and the checkpoints that snapshots carry, are prefixes
\* of one command history, longer for a larger applied index: whatever order
\* commands, snapshots and crashes reach the processes in, no two of them
\* execute different commands or the same ones in another order.
THEOREM ApplicationsAgree ==
    ASSUME Target = {}
    PROVE  Spec => []StateMachineSafety
<1>1. TypeInv /\ ApplicationHistory => StateMachineSafety
  <2> DEFINE states == {[applied |-> store[s].applied, history |-> store[s].history] : s \in Server} \cup
                       {[applied |-> disk[s].snap.index, history |-> disk[s].snap.data] : s \in Server}
  <2> SUFFICES ASSUME TypeInv, NEW h \in Histories, NEW a \in Acks, LogInv(h), CommitInv(h, a),
                      ApplicationInv(h, a),
                      NEW x \in states, NEW y \in states, x.applied <= y.applied
               PROVE  IsPrefix(x.history, y.history)
      BY DEF ApplicationHistory, StateMachineSafety
  <2>1. ASSUME NEW z \in states
        PROVE  z.applied \in Nat /\ Reached(h, a, z.applied, z.history)
    <3>1. CASE \E s \in Server : z = [applied |-> store[s].applied, history |-> store[s].history]
      <4>1. PICK s \in Server : z = [applied |-> store[s].applied, history |-> store[s].history]
            BY <3>1
      <4> QED BY <4>1, TypeInvAt DEF ApplicationInv, StoreReached
    <3>2. CASE \E s \in Server : z = [applied |-> disk[s].snap.index, history |-> disk[s].snap.data]
      <4>1. PICK s \in Server : z = [applied |-> disk[s].snap.index, history |-> disk[s].snap.data]
            BY <3>2
      <4>2. disk[s].snap.index \in Nat
            BY TypeInvAt, SectionTypes, SectionAt
      <4> QED BY <4>1, <4>2 DEF ApplicationInv, SnapshotReached
    <3> QED BY <3>1, <3>2
  <2> HIDE DEF states
  <2>2. PICK i \in Nat : i = x.applied
        BY <2>1
  <2>3. PICK j \in Nat : j = y.applied
        BY <2>1
  <2>4. Reached(h, a, i, x.history) /\ Reached(h, a, j, y.history) /\ i <= j
        BY <2>1, <2>2, <2>3
  <2> QED BY <2>4, LaterLasts, ReachedPrefix DEF LogInv, CommitInv
<1> QED BY <1>1, TypeCorrect, ApplicationsAreExplained, PTL

\* Where recoverApplication takes what is durable, it rebuilds the application
\* that executed it, at every point a crash may come: the checkpoint and the
\* stored entries above it are the chosen commands up to the applied index.
THEOREM RecoveriesAreExact ==
    ASSUME Target = {}
    PROVE  Spec => []RecoveryIsExact
<1>1. TypeInv /\ ApplicationHistory => RecoveryIsExact
  <2> SUFFICES ASSUME TypeInv, NEW h \in Histories, NEW a \in Acks, LogInv(h), CommitInv(h, a),
                      ApplicationInv(h, a), NEW s \in Server, recoverable(disk[s], store[s])
               PROVE  recoverApplication(disk[s], store[s]).history = store[s].history
      BY DEF ApplicationHistory, RecoveryIsExact
  <2>1. PICK d : d = disk[s]
        OBVIOUS
  <2>2. PICK st : st = store[s]
        OBVIOUS
  <2>3. PICK r : r = recoverApplication(d, st)
        OBVIOUS
  <2>4. /\ HistoriesAgree(h) /\ Lasting(h, a) /\ FromHistory(h, d) /\ Committed(h, a, d)
        /\ SnapshotReached(h, a, d.snap) /\ StoreReached(h, a, st)
        BY <2>1, <2>2, LaterLasts
        DEF LogInv, LogsFromHistory, CommitInv, CommitsChosen, ApplicationInv
  <2>5. DeliveryOK(s) /\ SectionOK(d) /\ st.applied \in Nat
        BY <2>1, <2>2, TypeInvAt, SectionTypes DEF CommitInv
  <2>6. d.commit \in Nat /\ st.applied <= d.commit
        BY <2>1, <2>2, <2>5, TypeInvAt, BoundAssumption DEF DeliveryOK, HardStateOK
  <2>7. StoreReached(h, a, r) /\ r.applied = st.applied
        BY <2>1, <2>2, <2>3, <2>4, <2>5, <2>6, RecoveryReached, RecoveryKeeps
  <2>8. PICK A \in Nat : A = st.applied
        BY <2>5
  <2>9. Reached(h, a, A, r.history) /\ Reached(h, a, A, st.history)
        BY <2>4, <2>7, <2>8 DEF StoreReached
  <2>10. r.history = st.history
    <3>1. CASE A = 0
          BY <2>9, <3>1 DEF Reached
    <3>2. CASE A # 0
      <4>1. PICK t \in Terms : Settled(h, a, t, A) /\ st.history = historyOf(h, t, A)
            BY <2>9, <3>2 DEF Reached
      <4>2. r.history = historyOf(h, t, A)
            BY <2>4, <2>8, <2>9, <4>1, ReachedAt
      <4> QED BY <4>1, <4>2
    <3> QED BY <3>1, <3>2
  <2> QED BY <2>1, <2>2, <2>3, <2>10
<1> QED BY <1>1, TypeCorrect, ApplicationsAreExplained, PTL

-----------------------------------------------------------------------------
(* The cluster implements a replicated log.                                *)

\* The commands that the disk D[s] with the highest commit index stands for.
furthest(D) == CHOOSE s \in Server : \A t \in Server : D[t].commit <= D[s].commit
chosenOn(D) ==
    LET d == D[furthest(D)]
    IN  d.snap.data \o commandsOf(entriesAt(d, (d.snap.index + 1)..d.commit))

\* There is such a disk: the commit indexes are bounded.
LEMMA FurthestExists ==
    ASSUME NEW D, \A s \in Server : D[s].commit \in 0..MaxIndex
    PROVE  furthest(D) \in Server /\ \A t \in Server : D[t].commit <= D[furthest(D)].commit
<1>1. MaxIndex \in Nat /\ Server # {}
  <2>1. InitialMembership.voters # {} /\ InitialMembership.voters \subseteq Server
        BY InitialMembershipAssumption DEF validateMembership, Membership
  <2> QED BY <2>1, BoundAssumption
<1> DEFINE C == {D[s].commit : s \in Server}
<1>2. PICK c \in C : \A d \in C : d <= c
  <2>1. C \subseteq 0..MaxIndex /\ C # {}
        BY <1>1
  <2> HIDE DEF C
  <2>2. C \subseteq Nat /\ \A x \in C : x <= MaxIndex
        BY <1>1, <2>1
  <2> QED BY <1>1, <2>1, <2>2, GreatestElement
<1>3. PICK s \in Server : D[s].commit = c
      BY <1>2
<1>4. \A t \in Server : D[t].commit <= D[s].commit
      BY <1>2, <1>3
<1> QED BY <1>4 DEF furthest

\* The chosen commands are what the highest durable commit index has reached.
LEMMA ChosenReached ==
    ASSUME NEW h \in Histories, HistoriesAgree(h), NEW a, Lasting(h, a),
           NEW D, \A s \in Server : /\ D[s].commit \in 0..MaxIndex /\ SectionOK(D[s])
                                    /\ FromHistory(h, D[s]) /\ Committed(h, a, D[s])
                                    /\ SnapshotReached(h, a, D[s].snap) /\ CommitInLog(D[s])
    PROVE  \E s \in Server :
                /\ \A t \in Server : D[t].commit <= D[s].commit
                /\ D[s].commit \in Nat /\ Reached(h, a, D[s].commit, chosenOn(D))
<1>1. PICK s : s = furthest(D)
      OBVIOUS
<1>2. s \in Server /\ \A t \in Server : D[t].commit <= D[s].commit
      BY <1>1, FurthestExists
<1>3. PICK d : d = D[s]
      OBVIOUS
<1>4. PICK c \in Nat : c = d.commit
      BY <1>2, <1>3, BoundAssumption
<1>5. SectionOK(d) /\ FromHistory(h, d) /\ Committed(h, a, d) /\ CommitInLog(d)
      /\ SnapshotReached(h, a, d.snap)
      BY <1>2, <1>3
<1>6. PICK b \in Nat : b = d.snap.index
      BY <1>5, SectionAt
<1>7. b <= c /\ d.snap.index <= b /\ Reached(h, a, b, d.snap.data)
      BY <1>4, <1>5, <1>6 DEF CommitInLog, SnapshotReached
<1>8. Reached(h, a, c, d.snap.data \o commandsOf(entriesAt(d, (b + 1)..c)))
      BY <1>4, <1>5, <1>7, HistoryExtends
<1>9. chosenOn(D) = d.snap.data \o commandsOf(entriesAt(d, (b + 1)..c))
      BY <1>1, <1>3, <1>4, <1>6 DEF chosenOn
<1> QED BY <1>2, <1>3, <1>4, <1>8, <1>9

\* What the disks D stand for in a state that the histories explain.
DisksReached(h, a, D) ==
    \A s \in Server : /\ D[s].commit \in 0..MaxIndex /\ SectionOK(D[s])
                      /\ FromHistory(h, D[s]) /\ Committed(h, a, D[s])
                      /\ SnapshotReached(h, a, D[s].snap) /\ CommitInLog(D[s])

\* The invariants say so of the disks before and after a step.
LEMMA DisksAreReached ==
    /\ \A h, a : TypeInv /\ LogInv(h) /\ CommitInv(h, a) /\ ApplicationInv(h, a) =>
            DisksReached(h, a, disk)
    /\ \A h, a : TypeInv' /\ LogInv(h)' /\ CommitInv(h, a)' /\ ApplicationInv(h, a)' =>
            DisksReached(h, a, disk')
<1>1. ASSUME NEW h, NEW a, TypeInv, LogInv(h), CommitInv(h, a), ApplicationInv(h, a)
      PROVE  DisksReached(h, a, disk)
  <2>1. \A s \in Server : HardStateOK(disk[s])
        BY <1>1 DEF TypeInv, TypeOK
  <2>2. \A s \in Server : disk[s].commit \in 0..MaxIndex /\ SectionOK(disk[s])
        BY <2>1, SectionTypes DEF HardStateOK
  <2> QED BY <1>1, <2>2 DEF DisksReached, LogInv, LogsFromHistory, CommitInv, CommitsChosen,
                            ApplicationInv
<1>2. ASSUME NEW h, NEW a, TypeInv', LogInv(h)', CommitInv(h, a)', ApplicationInv(h, a)'
      PROVE  DisksReached(h, a, disk')
  <2>1. \A s \in Server : HardStateOK(disk'[s])
        BY <1>2 DEF TypeInv, TypeOK
  <2>2. \A s \in Server : disk'[s].commit \in 0..MaxIndex /\ SectionOK(disk'[s])
        BY <2>1, SectionTypes DEF HardStateOK
  <2> QED BY <1>2, <2>2 DEF DisksReached, LogInv, LogsFromHistory, CommitInv, CommitsChosen,
                            ApplicationInv
<1> QED BY <1>1, <1>2

\* A step either changes disks, or what one application executed.
LEMMA StepParts ==
    ASSUME Target = {}, TypeInv, VoteInv, MembershipIsCurrent,
           NEW h \in Histories, LogInv(h), NEW a \in Acks, CommitInv(h, a), [Next]_vars
    PROVE  \/ store' = store
           \/ disk' = disk /\ \E s \in Server : \E st : store' = [store EXCEPT ![s] = st]
<1>1. CASE Unmoved
      BY <1>1 DEF Unmoved
<1>2. ASSUME NEW s \in Server, Submitted(s)
      PROVE  \/ store' = store
             \/ disk' = disk /\ \E st : store' = [store EXCEPT ![s] = st]
  <2>1. PICK r : \E inFlight, t : Submit(s, r, inFlight, t)
        BY <1>2 DEF Submitted
  <2> QED BY <2>1 DEF Submit
<1>3. ASSUME NEW s \in Server,
             CompleteWrite(s) \/ AcknowledgeWrite(s) \/ Crash(s) \/ Restart(s)
      PROVE  \/ store' = store
             \/ disk' = disk /\ \E st : store' = [store EXCEPT ![s] = st]
      BY <1>3 DEF CompleteWrite, AcknowledgeWrite, Crash, Restart
<1> QED BY <1>1, <1>2, <1>3, StepTaken

\* A prefix is one of the prefixes.
LEMMA PrefixAmong ==
    ASSUME NEW S, NEW x \in Seq(S), NEW y \in Seq(S), Abstract!IsPrefix(x, y)
    PROVE  x \in Abstract!Prefixes(y)
<1>1. Len(x) \in 0..Len(y)
      BY DEF Abstract!IsPrefix
<1>2. x = SubSeq(x, 1, Len(x))
      OBVIOUS
<1>3. x = SubSeq(y, 1, Len(x))
      BY <1>2 DEF Abstract!IsPrefix
<1> QED BY <1>1, <1>3 DEF Abstract!Prefixes

\* A write that completes may extend what is chosen.
LEMMA DisksChoose ==
    ASSUME NEW g \in Histories, HistoriesAgree(g), NEW b, Lasting(g, b),
           NEW h \in Histories, NEW a, Grows(h, a, g, b), HistoriesAgree(h), Lasting(h, a),
           NEW D, DisksReached(h, a, D), NEW E, DisksReached(g, b, E),
           \A s \in Server : D[s].commit <= E[s].commit
    PROVE  IsPrefix(chosenOn(D), chosenOn(E)) /\ chosenOn(E) \in Seq(Command)
<1>1. PICK s \in Server : D[s].commit \in Nat /\ Reached(h, a, D[s].commit, chosenOn(D))
      BY ChosenReached DEF DisksReached
<1>2. PICK t \in Server : /\ \A u \in Server : E[u].commit <= E[t].commit
                          /\ E[t].commit \in Nat /\ Reached(g, b, E[t].commit, chosenOn(E))
      BY ChosenReached DEF DisksReached
<1>3. PICK i \in Nat : i = D[s].commit
      BY <1>1
<1>4. PICK j \in Nat : j = E[t].commit
      BY <1>2
<1>5. PICK k \in Nat : k = E[s].commit
      BY BoundAssumption DEF DisksReached
<1>6. i <= k /\ k <= j
      BY <1>2, <1>3, <1>4, <1>5
<1>7. Reached(g, b, i, chosenOn(D)) /\ Reached(g, b, j, chosenOn(E)) /\ i <= j
      BY <1>1, <1>2, <1>3, <1>4, <1>6, ReachedGrows
<1> QED BY <1>7, ReachedPrefix

\* What an application has executed is a prefix of what is chosen.
LEMMA StoreIsPrefix ==
    ASSUME NEW g \in Histories, HistoriesAgree(g), NEW b, Lasting(g, b),
           NEW D, DisksReached(g, b, D), NEW s \in Server,
           NEW i \in Nat, i <= D[s].commit, NEW y, Reached(g, b, i, y)
    PROVE  IsPrefix(y, chosenOn(D)) /\ y \in Seq(Command) /\ chosenOn(D) \in Seq(Command)
<1>1. PICK t \in Server : /\ \A u \in Server : D[u].commit <= D[t].commit
                          /\ D[t].commit \in Nat /\ Reached(g, b, D[t].commit, chosenOn(D))
      BY ChosenReached DEF DisksReached
<1>2. PICK j \in Nat : j = D[t].commit
      BY <1>1
<1>3. PICK k \in Nat : k = D[s].commit
      BY BoundAssumption DEF DisksReached
<1>4. i <= k /\ k <= j
      BY <1>1, <1>2, <1>3
<1>5. Reached(g, b, j, chosenOn(D)) /\ i <= j
      BY <1>1, <1>2, <1>4
<1> QED BY <1>5, ReachedPrefix

\* Durable state does not go back.
Forward ==
    \A s \in Server :
        /\ disk'[s].term >= disk[s].term
        /\ disk'[s].term = disk[s].term /\ disk[s].votedFor # Nil =>
                disk'[s].votedFor = disk[s].votedFor
        /\ disk'[s].commit >= disk[s].commit
        /\ disk'[s].snap.index >= disk[s].snap.index
        /\ store'[s].applied >= store[s].applied

\* Nothing is chosen and nothing executed in a bootstrapped cluster.
LEMMA InitImplements == Init => Abstract!Init
<1> SUFFICES ASSUME Init PROVE Abstract!Init
    OBVIOUS
<1>1. \A s \in Server : /\ disk[s].snap = NoSnapshot /\ disk[s].commit = 0
                        /\ store[s].history = <<>>
  <2>1. \A s \in Server : disk[s] = EmptyState /\ EmptyState.snap = NoSnapshot
        BY Bootstrapped
  <2> QED BY <2>1 DEF Init, EmptyState
<1>2. furthest(disk) \in Server
  <2>1. \A s \in Server : disk[s].commit \in 0..MaxIndex
        BY <1>1, BoundAssumption
  <2> QED BY <2>1, FurthestExists
<1>3. PICK d : d = disk[furthest(disk)]
      OBVIOUS
<1>4. d.snap.index = 0 /\ d.snap.data = <<>> /\ d.commit = 0
      BY <1>1, <1>2, <1>3 DEF NoSnapshot
<1>5. PICK e : e = entriesAt(d, (0 + 1)..0)
      OBVIOUS
<1>6. Len(e) = 0
  <2>1. 0 <= 0 /\ 0 - 0 = 0
        OBVIOUS
  <2> QED BY <1>5, <2>1, EntriesAtInterval
<1>7. commandsOf(e) = <<>>
      BY <1>6, NoCommands
<1>8. chosenOn(disk) = <<>> \o <<>>
      BY <1>3, <1>4, <1>5, <1>7 DEF chosenOn
<1>9. chosenCommands = chosenOn(disk)
      BY DEF chosenCommands, chosenOn, furthest
<1>10. <<>> \o <<>> = <<>>
      OBVIOUS
<1> QED BY <1>1, <1>8, <1>9, <1>10 DEF Abstract!Init

\* Every step of the cluster is a step of the replicated log, or invisible.
LEMMA StepImplements ==
    ASSUME Target = {}, TypeInv, VoteInv, MembershipIsCurrent, TypeInv', VoteInv',
           ApplicationHistory, [Next]_vars, [Forward]_<<disk, store>>
    PROVE  [Abstract!Next]_(Abstract!vars)
<1>1. PICK h \in Histories, a \in Acks : LogInv(h) /\ CommitInv(h, a) /\ ApplicationInv(h, a)
      BY DEF ApplicationHistory
<1>2. PICK g \in Histories, b \in Acks : /\ LogInv(g)' /\ CommitInv(g, b)' /\ ApplicationInv(g, b)'
                                         /\ Grows(h, a, g, b)
      BY <1>1, StepAccounted DEF Accounted
<1>3. /\ HistoriesAgree(h) /\ Lasting(h, a) /\ DisksReached(h, a, disk)
      BY <1>1, LaterLasts, DisksAreReached DEF LogInv, CommitInv
<1>4. HistoriesAgree(g) /\ DisksReached(g, b, disk') /\ Lasting(g, b)
      BY <1>2, LaterLasts, DisksAreReached DEF LogInv, CommitInv, HistoriesAgree
<1>5. PICK z : z = chosenCommands /\ z = chosenOn(disk)
      BY DEF chosenCommands, chosenOn, furthest
<1>6. PICK w : w = chosenCommands' /\ w = chosenOn(disk')
      BY DEF chosenCommands, chosenOn, furthest
<1>7. \A s \in Server : /\ disk[s].commit <= disk'[s].commit
                        /\ store[s].applied <= store'[s].applied
                        /\ store[s].applied \in Nat /\ store'[s].applied \in Nat
                        /\ disk[s].commit \in Nat /\ disk'[s].commit \in Nat
  <2> SUFFICES ASSUME NEW s \in Server
               PROVE  /\ disk[s].commit <= disk'[s].commit
                      /\ store[s].applied <= store'[s].applied
                      /\ store[s].applied \in Nat /\ store'[s].applied \in Nat
                      /\ disk[s].commit \in Nat /\ disk'[s].commit \in Nat
      OBVIOUS
  <2>1. disk[s].commit \in Nat /\ disk'[s].commit \in Nat
        BY <1>3, <1>4, BoundAssumption DEF DisksReached
  <2>2. store[s].applied \in Nat /\ store'[s].applied \in Nat
        BY DEF TypeInv, TypeOK
  <2>3. CASE Forward
        BY <2>1, <2>2, <2>3 DEF Forward
  <2>4. CASE UNCHANGED <<disk, store>>
        BY <2>1, <2>2, <2>4
  <2> QED BY <2>1, <2>2, <2>3, <2>4
<1>8. CASE store' = store
  <2>1. IsPrefix(z, w) /\ w \in Seq(Command)
        BY <1>2, <1>3, <1>4, <1>5, <1>6, <1>7, DisksChoose
  <2>2. CASE z = w
        BY <1>5, <1>6, <1>8, <2>2 DEF Abstract!vars
  <2>3. CASE z # w
    <3>1. Abstract!IsStrictPrefix(z, w)
          BY <2>1, <2>3 DEF IsPrefix, Abstract!IsPrefix, Abstract!IsStrictPrefix
    <3> QED BY <1>5, <1>6, <1>8, <2>1, <3>1 DEF Abstract!Choose, Abstract!Next
  <2> QED BY <2>2, <2>3
<1>9. ASSUME disk' = disk, NEW s \in Server, NEW st, store' = [store EXCEPT ![s] = st]
      PROVE  [Abstract!Next]_(Abstract!vars)
  <2>1. store = [u \in Server |-> store[u]]
        BY DEF TypeInv, TypeOK, PerServer
  <2>2. store'[s] = st /\ \A u \in Server \ {s} : store'[u] = store[u]
        BY <1>9, <2>1
  <2>3. PICK x : x = store[s].history
        OBVIOUS
  <2>4. PICK y : y = st.history
        OBVIOUS
  <2>5. PICK i \in Nat : i = store[s].applied
        BY <1>7
  <2>6. PICK j \in Nat : j = st.applied /\ i <= j
        BY <1>7, <2>2, <2>5
  <2>7. Reached(g, b, i, x)
    <3>1. Reached(h, a, i, x)
          BY <1>1, <2>3, <2>5 DEF ApplicationInv, StoreReached
    <3> QED BY <1>2, <3>1, ReachedGrows
  <2>8. Reached(g, b, j, y)
        BY <1>2, <2>2, <2>4, <2>6 DEF ApplicationInv, StoreReached
  <2>9. IsPrefix(x, y) /\ x \in Seq(Command) /\ y \in Seq(Command)
        BY <1>4, <2>6, <2>7, <2>8, ReachedPrefix
  <2>10. j <= disk'[s].commit
    <3>1. DeliveryOK(s)'
          BY <1>2 DEF CommitInv
    <3> QED BY <2>2, <2>6, <3>1 DEF DeliveryOK
  <2>11. IsPrefix(y, w) /\ w \in Seq(Command) /\ z = w
        BY <1>4, <1>5, <1>6, <1>9, <2>8, <2>10, StoreIsPrefix
  <2>12. PICK f : f = [u \in Server |-> store[u].history]
        OBVIOUS
  <2>13. [u \in Server |-> store'[u].history] = [f EXCEPT ![s] = y] /\ f[s] = x
        BY <2>2, <2>3, <2>4, <2>12
  <2>14. CASE x = y
    <3>1. [u \in Server |-> store'[u].history] = f
          BY <2>12, <2>13, <2>14
    <3> QED BY <1>5, <1>6, <2>11, <2>12, <3>1 DEF Abstract!vars
  <2>15. CASE x # y
    <3>1. Abstract!IsStrictPrefix(x, y)
          BY <2>9, <2>15 DEF IsPrefix, Abstract!IsPrefix, Abstract!IsStrictPrefix
    <3>2. Abstract!IsPrefix(y, z)
          BY <2>11 DEF IsPrefix, Abstract!IsPrefix
    <3>3. y \in Abstract!Prefixes(z)
          BY <2>9, <2>11, <3>2, PrefixAmong
    <3>4. Abstract!Deliver(s)
          BY <1>5, <1>6, <2>11, <2>12, <2>13, <3>1, <3>3 DEF Abstract!Deliver
    <3> QED BY <3>4 DEF Abstract!Next
  <2> QED BY <2>14, <2>15
<1> QED BY <1>1, <1>8, <1>9, StepParts

\* The cluster implements a replicated log: whatever happens to processes and
\* packets, durable commits only ever append to one order of commands, and each
\* application executes a growing prefix of it, exactly once across crashes,
\* restarts and installed snapshots, as long as no membership change is asked for.
THEOREM ClusterIsReplicatedLog ==
    ASSUME Target = {}
    PROVE  Spec => ImplementsReplicatedLog
<1>1. Init => Abstract!Init
      BY InitImplements
<1>2. /\ TypeInv /\ VoteInv /\ MembershipIsCurrent /\ TypeInv' /\ VoteInv'
      /\ ApplicationHistory /\ [Next]_vars /\ [Forward]_<<disk, store>>
      => [Abstract!Next]_(Abstract!vars)
      BY StepImplements
<1>3. Spec => [][Forward]_<<disk, store>>
      BY ProgressIsDurable DEF DurableProgress, Forward
<1> QED BY <1>1, <1>2, <1>3, TypeCorrect, VotesCorrect, ConfigurationIsCurrent,
           ApplicationsAreExplained, PTL DEF Spec, ImplementsReplicatedLog, Abstract!Spec
=============================================================================
