-------------------------- MODULE IndexStoreProofs --------------------------
(***************************************************************************)
(* What the transactions of IndexStore keep, for all blocks and their data: *)
(* the foreign keys, and the rows of blocks they do not touch.              *)
(***************************************************************************)
EXTENDS IndexStore, WellFoundedInduction, TLAPS

\* The time allowed to a prover for a leaf: Zenon, unless the leaf asks for the
\* SMT solver.
USE ZenonT(30)

(***************************************************************************)
(* Loops over a list, which the model writes with ForEach.                *)
(***************************************************************************)
\* A set of numbers that has 0 and with each number the next one has all of 0..N.
LEMMA Stepwise ==
    ASSUME NEW N \in Nat, NEW P, 0 \in P, \A n \in 1..N : n - 1 \in P => n \in P
    PROVE  \A n \in 0..N : n \in P
<1> DEFINE R == {ss \in Nat \X Nat : ss[1] < ss[2]}
           T == {n \in 0..N : n \notin P}
<1> SUFFICES ASSUME T # {} PROVE FALSE
  OBVIOUS
<1>1. IsWellFoundedOn(R, Nat)
  BY NatLessThanWellFounded DEF OpToRel
<1>2. T \subseteq Nat
  BY SMTT(30)
<1>3. PICK x \in T : \A y \in T : ~(<<y, x>> \in R)
  <2> HIDE DEF R, T
  <2> QED BY <1>1, <1>2, WFMin
<1>4. x # 0 /\ x \in Nat /\ x <= N
  BY SMTT(30)
<1>5. x \in 1..N /\ x - 1 \in 0..N /\ <<x - 1, x>> \in R
  BY <1>4, SMTT(30)
<1>6. x - 1 \in P
  BY <1>3, <1>5
<1> QED BY <1>3, <1>5, <1>6

\* The greatest number of an interval.
LEMMA MaxInterval ==
    ASSUME NEW n \in Nat, n # 0
    PROVE  Max(1..n) = n /\ 1..n # {} /\ (1..n) \ {n} = 1..(n - 1)
<1>1. n \in 1..n /\ \A y \in 1..n : n >= y
  BY SMTT(30)
<1>2. \A x \in 1..n : (\A y \in 1..n : x >= y) => x = n
  BY <1>1, SMTT(30)
<1>3. (1..n) \ {n} = 1..(n - 1)
  BY SMTT(30)
<1> QED BY <1>1, <1>2, <1>3 DEF Max

\* What a fold computes with the steps F[1], ..., F[N] for every part of its list:
\* the parts are met in the order of their greatest numbers.
Folded(N, base, F, g) ==
    \A s \in SUBSET (1..N) : g[s] = IF s = {} THEN base ELSE F[Max(s)][g[s \ {Max(s)}]]

\* The values that the same steps lead to one after the other.
Stepped(N, S, base, F, v) ==
    /\ v \in [0..N -> S] /\ v[0] = base
    /\ \A n \in 1..N : v[n] = F[n][v[n - 1]]

\* The steps stay in S.
Loop(N, S, base, F) == N \in Nat /\ base \in S /\ F \in [1..N -> [S -> S]]

\* A loop whose steps stay in S has a value for every part of its list.
LEMMA LoopExists ==
    ASSUME NEW N \in Nat, NEW S, NEW base \in S, NEW F \in [1..N -> [S -> S]]
    PROVE  \E g \in [SUBSET (1..N) -> S] : Folded(N, base, F, g)
<1> DEFINE Good(n, g) == \A s \in SUBSET (1..n) :
             g[s] = IF s = {} THEN base ELSE F[Max(s)][g[s \ {Max(s)}]]
           P == {n \in 0..N : \E g \in [SUBSET (1..n) -> S] : Good(n, g)}
<1>1. 0 \in P
  <2> DEFINE g == [s \in SUBSET (1..0) |-> base]
  <2>1. g \in [SUBSET (1..0) -> S] /\ \A s \in SUBSET (1..0) : s = {} /\ g[s] = base
    BY SMTT(30)
  <2>2. 0 \in 0..N
    BY SMTT(30)
  <2> QED BY <2>1, <2>2
<1>2. ASSUME NEW n \in 1..N, n - 1 \in P PROVE n \in P
  <2>1. PICK g \in [SUBSET (1..(n - 1)) -> S] : Good(n - 1, g)
    BY <1>2
  <2>2. /\ n \in 0..N /\ n \in Nat /\ 1..(n - 1) \subseteq 1..n
        /\ \A s \in SUBSET (1..n) : /\ n \notin s => s \in SUBSET (1..(n - 1))
                                    /\ s \ {n} \in SUBSET (1..(n - 1))
    BY SMTT(30)
  <2>3. \A s \in SUBSET (1..n) : n \in s => Max(s) = n
    <3> SUFFICES ASSUME NEW s \in SUBSET (1..n), n \in s PROVE Max(s) = n
      OBVIOUS
    <3>1. \A y \in s : n >= y
      BY <2>2, SMTT(30)
    <3>2. \A x \in s : (\A y \in s : x >= y) => x = n
      BY <2>2, <3>1, SMTT(30)
    <3> QED BY <3>1, <3>2 DEF Max
  <2> DEFINE h == [s \in SUBSET (1..n) |-> IF n \in s THEN F[n][g[s \ {n}]] ELSE g[s]]
  <2>4. h \in [SUBSET (1..n) -> S]
    <3>1. F[n] \in [S -> S]
      OBVIOUS
    <3> QED BY <2>1, <2>2, <3>1
  <2>5. ASSUME NEW s \in SUBSET (1..n)
        PROVE  h[s] = IF s = {} THEN base ELSE F[Max(s)][h[s \ {Max(s)}]]
    <3>1. CASE n \in s
      <4>1. h[s] = F[n][g[s \ {n}]] /\ h[s \ {n}] = g[s \ {n}]
        BY <2>2, <3>1
      <4> QED BY <2>3, <3>1, <4>1
    <3>2. CASE n \notin s
      <4>1. s \in SUBSET (1..(n - 1))
        BY <2>2, <3>2
      <4>2. g[s] = IF s = {} THEN base ELSE F[Max(s)][g[s \ {Max(s)}]]
        BY <2>1, <4>1
      <4>3. s \ {Max(s)} \in SUBSET (1..n) /\ n \notin s \ {Max(s)}
        BY <3>2
      <4>4. h[s] = g[s] /\ h[s \ {Max(s)}] = g[s \ {Max(s)}]
        BY <3>2, <4>3
      <4> QED BY <4>2, <4>4
    <3> QED BY <3>1, <3>2
  <2> HIDE DEF h
  <2> QED BY <2>2, <2>4, <2>5
<1>3. N \in P
  <2>1. N \in 0..N
    BY SMTT(30)
  <2> HIDE DEF P
  <2> QED BY <1>1, <1>2, <2>1, Stepwise
<1> QED BY <1>3 DEF Folded

\* The values for the beginnings of the list follow one another.
LEMMA LoopSteps ==
    ASSUME NEW N \in Nat, NEW S, NEW base \in S, NEW F \in [1..N -> [S -> S]]
    PROVE  \E v : Stepped(N, S, base, F, v)
<1>1. PICK g \in [SUBSET (1..N) -> S] : Folded(N, base, F, g)
  BY LoopExists
<1> DEFINE v == [n \in 0..N |-> g[1..n]]
<1>2. \A n \in 0..N : 1..n \in SUBSET (1..N)
  BY SMTT(30)
<1>3. 0 \in 0..N /\ N \in 0..N /\ 1..0 = {}
  BY SMTT(30)
<1>4. v \in [0..N -> S] /\ v[0] = base
  BY <1>1, <1>2, <1>3 DEF Folded
<1>5. ASSUME NEW n \in 1..N PROVE v[n] = F[n][v[n - 1]]
  <2>1. n \in Nat /\ n # 0 /\ n \in 0..N /\ n - 1 \in 0..N
    BY SMTT(30)
  <2>2. Max(1..n) = n /\ 1..n # {} /\ (1..n) \ {n} = 1..(n - 1)
    BY <2>1, MaxInterval
  <2>3. g[1..n] = F[Max(1..n)][g[(1..n) \ {Max(1..n)}]]
    BY <1>1, <1>2, <2>1, <2>2 DEF Folded
  <2>4. v[n] = g[1..n] /\ v[n - 1] = g[1..(n - 1)]
    BY <2>1
  <2> QED BY <2>2, <2>3, <2>4
<1> QED BY <1>4, <1>5 DEF Stepped

\* A set of numbers up to N has a greatest one.
LEMMA MaxOfList ==
    ASSUME NEW N \in Nat, NEW s \in SUBSET (1..N), s # {}
    PROVE  Max(s) \in s /\ Max(s) \in 1..N /\ s \ {Max(s)} \in SUBSET (1..N)
<1> DEFINE Top(q) == \E x \in q : \A y \in q : x >= y
           P == {n \in 0..N : \A q \in SUBSET (1..n) : q # {} => Top(q)}
<1>1. 0 \in P
  <2>1. 0 \in 0..N /\ 1..0 = {}
    BY SMTT(30)
  <2> QED BY <2>1
<1>2. ASSUME NEW n \in 1..N, n - 1 \in P PROVE n \in P
  <2>1. n \in 0..N /\ n \in Nat
    BY SMTT(30)
  <2>2. ASSUME NEW q \in SUBSET (1..n), q # {} PROVE Top(q)
    <3>1. CASE n \in q
      <4>1. \A y \in q : n >= y
        BY SMTT(30)
      <4> QED BY <3>1, <4>1
    <3>2. CASE n \notin q
      <4>1. q \in SUBSET (1..(n - 1))
        BY <2>1, <3>2, SMTT(30)
      <4> QED BY <1>2, <2>2, <4>1
    <3> QED BY <3>1, <3>2
  <2> HIDE DEF Top
  <2> QED BY <2>1, <2>2
<1>3. Top(s)
  <2>1. N \in 0..N
    BY SMTT(30)
  <2>2. N \in P
    <3> HIDE DEF P
    <3> QED BY <1>1, <1>2, <2>1, Stepwise
  <2> HIDE DEF Top
  <2> QED BY <2>2
<1> QED BY <1>3 DEF Max

\* f goes on with these steps as long as it is in S.
Follows(N, S, base, F, f) ==
    /\ f[{}] = base
    /\ \A s \in SUBSET (1..N) : s # {} /\ f[s \ {Max(s)}] \in S =>
         f[s] = F[Max(s)][f[s \ {Max(s)}]]

\* The value of f for the whole list is where the steps end.
Computes(N, S, base, F, f) == \E v : Stepped(N, S, base, F, v) /\ v[N] = f[1..N]

\* A fold has the value that its steps lead to.
LEMMA LoopValue ==
    ASSUME NEW N, NEW S, NEW base, NEW F, NEW f,
           Loop(N, S, base, F), Follows(N, S, base, F, f)
    PROVE  Computes(N, S, base, F, f)
<1> N \in Nat /\ base \in S /\ F \in [1..N -> [S -> S]]
  BY DEF Loop
<1>0. PICK v : Stepped(N, S, base, F, v)
  BY LoopSteps
<1> DEFINE P == {n \in 0..N : f[1..n] = v[n]}
<1>1. v \in [0..N -> S] /\ v[0] = base /\ \A n \in 1..N : v[n] = F[n][v[n - 1]]
  BY <1>0 DEF Stepped
<1>2. 0 \in P
  <2>1. 0 \in 0..N /\ 1..0 = {}
    BY SMTT(30)
  <2> QED BY <1>1, <2>1 DEF Follows
<1>3. ASSUME NEW n \in 1..N, n - 1 \in P PROVE n \in P
  <2>1. n \in Nat /\ n # 0 /\ n \in 0..N /\ n - 1 \in 0..N /\ 1..n \in SUBSET (1..N)
    BY SMTT(30)
  <2>2. Max(1..n) = n /\ 1..n # {} /\ (1..n) \ {n} = 1..(n - 1)
    BY <2>1, MaxInterval
  <2> DEFINE q == 1..n
  <2>3. Max(q) = n /\ q # {} /\ q \ {Max(q)} = 1..(n - 1) /\ q \in SUBSET (1..N)
    BY <2>1, <2>2
  <2>4. f[1..(n - 1)] = v[n - 1] /\ v[n - 1] \in S
    BY <1>1, <1>3, <2>1
  <2>5. f[q \ {Max(q)}] = v[n - 1]
    BY <2>3, <2>4
  <2> HIDE DEF q
  <2>6. f[q] = F[Max(q)][f[q \ {Max(q)}]]
    BY <2>3, <2>4, <2>5 DEF Follows
  <2>7. f[q] = v[n]
    BY <1>1, <2>3, <2>5, <2>6
  <2> QED BY <2>1, <2>7 DEF q
<1>4. N \in P
  <2>1. N \in 0..N
    BY SMTT(30)
  <2> HIDE DEF P
  <2> QED BY <1>2, <1>3, <2>1, Stepwise
<1> QED BY <1>0, <1>4 DEF Computes

-----------------------------------------------------------------------------
(***************************************************************************)
(* Rows.                                                                    *)
(***************************************************************************)
AllRows == UNION {RowsOf(b) : b \in Blocks}
AllKeys == UNION {KeysOf(b, DOMAIN Data[b]) : b \in Blocks}

\* The stores, and those in which the foreign keys hold.
AllStores == [rows : SUBSET AllRows, ipld : SUBSET AllKeys, tv : [Blocks -> 0..MaxValidated]]
Sound == {st \in AllStores : ForeignKeysHold(st)}

RowKinds == {"header", "uncle", "tx", "rct", "state", "storage", "account", "input", "output"}

LEMMA RowFields ==
    \A b, k : /\ Row(b, k).kind = k /\ Row(b, k).block = b
              /\ Row(b, k).id = IF k \in TxKinds THEN TxId[b] ELSE b
BY DEF Row

\* The kinds of rows.
LEMMA KindsListed ==
    /\ Range(EthPublishes) = {"header", "uncle", "tx", "txTrie", "rct", "rctTrie",
                              "state", "storage"}
    /\ Range(BtcPublishes) = {"header", "tx", "txTrie"}
    /\ EthKinds \ Tries \subseteq RowKinds /\ BtcKinds \ Tries \subseteq RowKinds
<1>1. Range(EthPublishes) = {"header", "uncle", "tx", "txTrie", "rct", "rctTrie",
                              "state", "storage"}
  <2>1. DOMAIN EthPublishes = 1..8
    BY SMTT(30) DEF EthPublishes
  <2> QED BY <2>1, SMTT(30) DEF Range, EthPublishes
<1>2. Range(BtcPublishes) = {"header", "tx", "txTrie"}
  <2>1. DOMAIN BtcPublishes = 1..3
    BY SMTT(30) DEF BtcPublishes
  <2> QED BY <2>1, SMTT(30) DEF Range, BtcPublishes
<1> QED BY <1>1, <1>2 DEF EthKinds, BtcKinds, RowKinds, Tries

\* A row of a block is told by its kind; its foreign key stays within the block,
\* and two steps up is the header.
LEMMA RowOfBlock ==
    ASSUME NEW b \in Blocks, NEW r \in RowsOf(b)
    PROVE  /\ r.block = b /\ r.kind \in DOMAIN Data[b] \ Tries /\ r.kind \in RowKinds
           /\ r = Row(b, r.kind) /\ r \in AllRows
           /\ Parent(r) \in RowsOf(b) /\ Parent(Parent(Parent(r))) = Parent(Parent(r))
<1>1. PICK k \in DOMAIN Data[b] \ Tries : r = Row(b, k)
  BY DEF RowsOf
<1>2. r.block = b /\ r.kind = k
  BY <1>1, RowFields
<1>3. k \in RowKinds
  BY <1>1, KindsListed, IndexStoreAssumption
<1>4. Parent(r) \in RowsOf(b)
  BY ParentAssumption
<1>5. Parent(Parent(Parent(r))) = Parent(Parent(r))
  <2>1. \A c : /\ Parent(Row(c, "header")) = Row(c, "header")
               /\ Parent(Row(c, "uncle")) = Row(c, "header")
               /\ Parent(Row(c, "tx")) = Row(c, "header")
               /\ Parent(Row(c, "state")) = Row(c, "header")
               /\ Parent(Row(c, "rct")) = Row(c, "tx")
               /\ Parent(Row(c, "input")) = Row(c, "tx")
               /\ Parent(Row(c, "output")) = Row(c, "tx")
               /\ Parent(Row(c, "account")) = Row(c, "state")
               /\ Parent(Row(c, "storage")) = Row(c, "state")
    BY RowFields, SMTT(30) DEF Parent
  <2> QED BY <1>1, <1>3, <2>1, SMTT(30) DEF RowKinds
<1> QED BY <1>1, <1>2, <1>3, <1>4, <1>5 DEF AllRows

\* A block has a header row.
LEMMA HeaderOfBlock == ASSUME NEW b \in Blocks PROVE Header(b) \in RowsOf(b)
<1>1. "header" \in DOMAIN Data[b] /\ "header" \notin Tries
  BY IndexStoreAssumption DEF Tries
<1> QED BY <1>1 DEF Header, RowsOf

\* The row of a store is a row of its block.
LEMMA RowOfStore ==
    ASSUME NEW r \in AllRows
    PROVE  r.block \in Blocks /\ r \in RowsOf(r.block)
<1>1. PICK b \in Blocks : r \in RowsOf(b)
  BY DEF AllRows
<1> QED BY <1>1, RowOfBlock

\* The keys of a block.
LEMMA KeyOfRow ==
    ASSUME NEW b \in Blocks, NEW r \in RowsOf(b), MhKey(r) # NoKey
    PROVE  /\ MhKey(r) \in KeysOf(b, DOMAIN Data[b]) /\ MhKey(r) \in KeysOf(b, Range(Publishes(b)))
           /\ MhKey(r) \in AllKeys
<1>1. r.block = b /\ r.kind \in DOMAIN Data[b] /\ MhKey(r) = Data[b][r.kind]
  BY RowOfBlock DEF MhKey
<1>2. \A k \in DOMAIN Data[b] : Data[b][k] = NoKey <=> k \notin Range(Publishes(b))
  BY IndexStoreAssumption
<1>3. r.kind \in Range(Publishes(b))
  BY <1>1, <1>2
<1>4. /\ MhKey(r) \in KeysOf(b, DOMAIN Data[b]) /\ MhKey(r) \in KeysOf(b, Range(Publishes(b)))
  BY <1>1, <1>3 DEF KeysOf
<1> QED BY <1>4 DEF AllKeys

-----------------------------------------------------------------------------
(***************************************************************************)
(* Publishing and indexing.                                                 *)
(***************************************************************************)
LEMMA StoreFields ==
    ASSUME NEW st \in AllStores
    PROVE  /\ st.rows \subseteq AllRows /\ st.ipld \subseteq AllKeys
           /\ st.tv \in [Blocks -> 0..MaxValidated]
BY SMTT(30) DEF AllStores

\* A store with another field.
LEMMA OtherRows ==
    ASSUME NEW st \in AllStores, NEW x \in SUBSET AllRows
    PROVE  LET new == [st EXCEPT !.rows = x]
           IN  new \in AllStores /\ new.rows = x /\ new.ipld = st.ipld /\ new.tv = st.tv
BY SMTT(30) DEF AllStores

LEMMA OtherKeys ==
    ASSUME NEW st \in AllStores, NEW x \in SUBSET AllKeys
    PROVE  LET new == [st EXCEPT !.ipld = x]
           IN  new \in AllStores /\ new.rows = st.rows /\ new.ipld = x /\ new.tv = st.tv
BY SMTT(30) DEF AllStores

LEMMA OtherCounts ==
    ASSUME NEW st \in AllStores, NEW x \in [Blocks -> 0..MaxValidated]
    PROVE  LET new == [st EXCEPT !.tv = x]
           IN  new \in AllStores /\ new.rows = st.rows /\ new.ipld = st.ipld /\ new.tv = x
<1> DEFINE C == [Blocks -> 0..MaxValidated]
<1>1. st \in [rows : SUBSET AllRows, ipld : SUBSET AllKeys, tv : C] /\ x \in C
  BY DEF AllStores
<1> HIDE DEF C
<1>2. LET new == [st EXCEPT !.tv = x]
      IN  /\ new \in [rows : SUBSET AllRows, ipld : SUBSET AllKeys, tv : C]
          /\ new.rows = st.rows /\ new.ipld = st.ipld /\ new.tv = x
  BY <1>1, SMTT(30)
<1> QED BY <1>2 DEF C, AllStores

\* What Publish puts only adds IPLDs.
LEMMA PublishedStore ==
    ASSUME NEW st \in AllStores, NEW b \in Blocks, NEW kinds
    PROVE  LET new == Published(st, b, kinds)
           IN  /\ new \in AllStores /\ new.rows = st.rows /\ new.tv = st.tv
               /\ new.ipld = st.ipld \cup KeysOf(b, kinds)
               /\ ForeignKeysHold(st) => ForeignKeysHold(new)
<1> DEFINE new == Published(st, b, kinds)
<1>1. KeysOf(b, kinds) \subseteq AllKeys
  <2>1. KeysOf(b, kinds) \subseteq KeysOf(b, DOMAIN Data[b])
    BY DEF KeysOf
  <2> QED BY <2>1 DEF AllKeys
<1>2. st.ipld \cup KeysOf(b, kinds) \in SUBSET AllKeys
  BY <1>1, StoreFields
<1>3. /\ new \in AllStores /\ new.rows = st.rows /\ new.tv = st.tv
      /\ new.ipld = st.ipld \cup KeysOf(b, kinds)
  <2> DEFINE x == st.ipld \cup KeysOf(b, kinds)
  <2>1. new = [st EXCEPT !.ipld = x]
    BY DEF Published
  <2>2. x \in SUBSET AllKeys
    BY <1>2
  <2> HIDE DEF x, new
  <2>3. new \in AllStores /\ new.rows = st.rows /\ new.tv = st.tv /\ new.ipld = x
    BY <2>1, <2>2, OtherKeys
  <2> QED BY <2>3 DEF x
<1> HIDE DEF new
<1>4. ForeignKeysHold(st) => ForeignKeysHold(new)
  BY <1>3 DEF ForeignKeysHold
<1> QED BY <1>3, <1>4 DEF new

\* The rows that the upserts of a block leave alone.
Kept(rs, b) == {r \in rs : \A n \in RowsOf(b) : r.kind # n.kind \/ r.id # n.id}

LEMMA UpsertedStore ==
    ASSUME NEW st \in AllStores, NEW b \in Blocks
    PROVE  LET new == Upserted(st, b)
           IN  /\ new \in AllStores /\ new.rows = RowsOf(b) \cup Kept(st.rows, b)
               /\ new.ipld = st.ipld
               /\ new.tv[b] > 0 /\ \A c \in Blocks \ {b} : new.tv[c] = st.tv[c]
<1> DEFINE up == IF Header(b) \notin st.rows THEN 1
                 ELSE IF st.tv[b] < MaxValidated THEN st.tv[b] + 1 ELSE st.tv[b]
           mid == [st EXCEPT !.rows = RowsOf(b) \cup Kept(st.rows, b)]
           new == [mid EXCEPT !.tv = [st.tv EXCEPT ![b] = up]]
<1>1. st.tv[b] \in 0..MaxValidated /\ MaxValidated \in Nat \ {0}
  <2>1. st.tv \in [Blocks -> 0..MaxValidated]
    BY StoreFields
  <2> QED BY <2>1, IndexStoreAssumption
<1>2. up \in 0..MaxValidated /\ up > 0
  BY <1>1, SMTT(30)
<1>3. RowsOf(b) \cup Kept(st.rows, b) \in SUBSET AllRows
  <2>1. st.rows \subseteq AllRows
    BY StoreFields
  <2> QED BY <2>1 DEF AllRows, Kept
<1>4. mid \in AllStores /\ mid.rows = RowsOf(b) \cup Kept(st.rows, b) /\ mid.ipld = st.ipld
  BY <1>3, OtherRows
<1>5. Upserted(st, b) = new
  BY SMTT(30) DEF Upserted, Kept, AllStores
<1> HIDE DEF up, mid
<1>6. /\ [st.tv EXCEPT ![b] = up] \in [Blocks -> 0..MaxValidated]
      /\ [st.tv EXCEPT ![b] = up][b] = up
      /\ \A c \in Blocks \ {b} : [st.tv EXCEPT ![b] = up][c] = st.tv[c]
  BY <1>2, StoreFields, SMTT(30)
<1>7. /\ new \in AllStores /\ new.rows = mid.rows /\ new.ipld = mid.ipld
      /\ new.tv = [st.tv EXCEPT ![b] = up]
  BY <1>4, <1>6, OtherCounts
<1> HIDE DEF new
<1> QED BY <1>2, <1>4, <1>5, <1>6, <1>7

\* When a block is published in full the upserts of its rows keep the foreign
\* keys: the rows of the same transaction under another block go together.
LEMMA UpsertedSound ==
    ASSUME NEW st \in AllStores, NEW b \in Blocks, ForeignKeysHold(st),
           KeysOf(b, Range(Publishes(b))) \subseteq st.ipld
    PROVE  ForeignKeysHold(Upserted(st, b))
<1> DEFINE new == Upserted(st, b)
<1>1. /\ new.rows = RowsOf(b) \cup Kept(st.rows, b) /\ new.ipld = st.ipld
  BY UpsertedStore
<1> HIDE DEF new
<1>2. ASSUME NEW r \in RowsOf(b) PROVE Parent(r) \in new.rows /\ MhKey(r) \in new.ipld \cup {NoKey}
  BY <1>1, RowOfBlock, KeyOfRow
<1>3. ASSUME NEW r \in Kept(st.rows, b)
      PROVE  Parent(r) \in new.rows /\ MhKey(r) \in new.ipld \cup {NoKey}
  <2>1. r \in st.rows /\ \A n \in RowsOf(b) : r.kind # n.kind \/ r.id # n.id
    BY DEF Kept
  <2>2. Parent(r) \in st.rows /\ MhKey(r) \in st.ipld \cup {NoKey}
    BY <2>1 DEF ForeignKeysHold
  <2>3. r \in AllRows /\ Parent(r) \in AllRows
    BY <2>1, <2>2, StoreFields
  <2> DEFINE c == r.block
  <2>4. c \in Blocks /\ r \in RowsOf(c)
    BY <2>3, RowOfStore
  <2> HIDE DEF c
  <2>5. /\ r = Row(c, r.kind) /\ r.kind \in DOMAIN Data[c] \ Tries /\ r.kind \in RowKinds
        /\ Parent(r) \in RowsOf(c)
    BY <2>4, RowOfBlock
  <2>6. ASSUME NEW n \in RowsOf(b), Parent(r).kind = n.kind, Parent(r).id = n.id
        PROVE  Parent(r) \in RowsOf(b)
    <3> DEFINE k == Parent(r).kind
    <3>1. Parent(r) = Row(c, k)
      BY <2>4, <2>5, RowOfBlock
    <3>2. n = Row(b, k)
      <4>1. n = Row(b, n.kind)
        BY RowOfBlock
      <4> QED BY <2>6, <4>1
    <3> HIDE DEF k
    <3>3. IF k \in TxKinds THEN TxId[c] = TxId[b] ELSE c = b
      BY <2>6, <3>1, <3>2, RowFields, SMTT(30)
    <3>4. CASE k \notin TxKinds
      BY <3>1, <3>2, <3>3, <3>4
    <3>5. CASE k \in TxKinds
      <4>1. TxId[c] = TxId[b]
        BY <3>3, <3>5
      <4>2. r.kind \in TxKinds
        BY <2>5, <3>1, <3>5, RowFields, SMTT(30) DEF Parent, RowKinds, TxKinds
      <4>3. r.kind \in DOMAIN Data[b]
        BY <2>4, <2>5, <4>1, <4>2, IndexStoreAssumption
      <4>4. Row(b, r.kind) \in RowsOf(b)
        BY <2>5, <4>3 DEF RowsOf
      <4>5. Row(b, r.kind).kind = r.kind /\ Row(b, r.kind).id = r.id
        <5>1. Row(b, r.kind).id = TxId[b] /\ Row(c, r.kind).id = TxId[c]
          BY <4>2, RowFields
        <5> QED BY <2>5, <4>1, <5>1, RowFields
      <4> QED BY <2>1, <4>4, <4>5
    <3> QED BY <3>4, <3>5
  <2>7. Parent(r) \in new.rows
    BY <1>1, <2>2, <2>6 DEF Kept
  <2> QED BY <1>1, <2>2, <2>7
<1> QED BY <1>1, <1>2, <1>3 DEF ForeignKeysHold, new

\* A transaction keeps the foreign keys, since the commit checks them.
LEMMA IndexedStore ==
    ASSUME NEW st \in Sound, NEW b \in Blocks
    PROVE  /\ Indexed(st, b) \in Sound
           /\ Indexed(st, b) = IF ForeignKeysHold(Upserted(st, b)) THEN Upserted(st, b) ELSE st
BY UpsertedStore DEF Sound, Indexed, Commit

\* Publish of the IPLDPublisherAndIndexer puts what its rows refer to, and so
\* always succeeds in both.
LEMMA PublishedAndIndexedStore ==
    ASSUME NEW st \in Sound, NEW b \in Blocks
    PROVE  LET new == PublishedAndIndexed(st, b)
           IN  /\ new \in Sound /\ new.rows = RowsOf(b) \cup Kept(st.rows, b)
               /\ new.ipld = st.ipld \cup KeysOf(b, Range(Publishes(b)))
               /\ new.tv[b] > 0 /\ \A c \in Blocks \ {b} : new.tv[c] = st.tv[c]
<1> DEFINE mid == Published(st, b, Range(Publishes(b)))
           new == Upserted(mid, b)
<1>1. st \in AllStores /\ ForeignKeysHold(st)
  BY DEF Sound
<1>2. /\ mid \in AllStores /\ mid.rows = st.rows /\ mid.tv = st.tv
      /\ mid.ipld = st.ipld \cup KeysOf(b, Range(Publishes(b))) /\ ForeignKeysHold(mid)
  BY <1>1, PublishedStore
<1>3. PublishedAndIndexed(st, b) = Commit(st, new)
  BY DEF PublishedAndIndexed
<1> HIDE DEF mid
<1>4. KeysOf(b, Range(Publishes(b))) \subseteq mid.ipld
  BY <1>2
<1>5. ForeignKeysHold(new)
  BY <1>2, <1>4, UpsertedSound
<1>6. /\ new \in AllStores /\ new.rows = RowsOf(b) \cup Kept(mid.rows, b)
      /\ new.ipld = mid.ipld
      /\ new.tv[b] > 0 /\ \A c \in Blocks \ {b} : new.tv[c] = mid.tv[c]
  BY <1>2, UpsertedStore
<1> HIDE DEF new
<1>7. PublishedAndIndexed(st, b) = new
  BY <1>3, <1>5 DEF Commit
<1> QED BY <1>2, <1>5, <1>6, <1>7 DEF Sound

\* The reset of the validation counts changes nothing else.
LEMMA ValidationResetStore ==
    ASSUME NEW st \in Sound, NEW chain, NEW rngs
    PROVE  LET new == ValidationReset(st, chain, rngs)
           IN  new \in Sound /\ new.rows = st.rows /\ new.ipld = st.ipld
<1> DEFINE x == [b \in Blocks |->
                   IF b \in ChainBlocks(chain) /\ \E i \in DOMAIN rngs : Within(b, rngs[i])
                   THEN 0 ELSE st.tv[b]]
<1>1. st \in AllStores /\ ForeignKeysHold(st)
  BY DEF Sound
<1>2. x \in [Blocks -> 0..MaxValidated]
  <2>1. 0 \in 0..MaxValidated
    BY IndexStoreAssumption, SMTT(30)
  <2>2. st.tv \in [Blocks -> 0..MaxValidated]
    BY <1>1, StoreFields
  <2> QED BY <2>1, <2>2
<1>3. ValidationReset(st, chain, rngs) = [st EXCEPT !.tv = x]
  BY DEF ValidationReset
<1> HIDE DEF x
<1> DEFINE new == [st EXCEPT !.tv = x]
<1>4. new \in AllStores /\ new.rows = st.rows /\ new.ipld = st.ipld
  BY <1>1, <1>2, OtherCounts
<1> HIDE DEF new
<1>5. ForeignKeysHold(new)
  BY <1>1, <1>4 DEF ForeignKeysHold
<1> QED BY <1>3, <1>4, <1>5 DEF new, Sound

-----------------------------------------------------------------------------
(***************************************************************************)
(* Cleaning.                                                                *)
(***************************************************************************)
\* The ancestors of a row belong to its block.
LEMMA AncestorsOf ==
    ASSUME NEW b \in Blocks, NEW r \in RowsOf(b)
    PROVE  /\ Ancestors(r) \subseteq RowsOf(b) /\ r \in Ancestors(r)
           /\ Ancestors(Parent(r)) \subseteq Ancestors(r)
<1>1. Parent(r) \in RowsOf(b) /\ Parent(Parent(Parent(r))) = Parent(Parent(r))
  BY RowOfBlock
<1>2. Parent(Parent(r)) \in RowsOf(b)
  BY <1>1, RowOfBlock
<1> QED BY <1>1, <1>2 DEF Ancestors

\* A delete that cascades leaves no row without its parent.
LEMMA RemovedStore ==
    ASSUME NEW st \in AllStores, NEW gone,
           \A r \in st.rows : Parent(r) \in st.rows,
           \A r \in st.rows \ gone : MhKey(r) \in st.ipld \cup {NoKey}
    PROVE  LET new == Removed(st, gone)
           IN  /\ new \in Sound /\ new.rows = {r \in st.rows : Ancestors(r) \cap gone = {}}
               /\ new.ipld = st.ipld
<1> DEFINE left == {r \in st.rows : Ancestors(r) \cap gone = {}}
           counts == [b \in Blocks |-> IF Header(b) \in left THEN st.tv[b] ELSE 0]
           mid == [st EXCEPT !.rows = left]
           new == [mid EXCEPT !.tv = counts]
<1>1. st.rows \subseteq AllRows /\ st.tv \in [Blocks -> 0..MaxValidated]
  BY StoreFields
<1>2. 0 \in 0..MaxValidated
  BY IndexStoreAssumption, SMTT(30)
<1>3. left \in SUBSET AllRows /\ counts \in [Blocks -> 0..MaxValidated]
  BY <1>1, <1>2
<1>4. Removed(st, gone) = new
  BY SMTT(30) DEF Removed, AllStores
<1>5. ASSUME NEW r \in left PROVE Parent(r) \in left /\ MhKey(r) \in st.ipld \cup {NoKey}
  <2>1. r \in st.rows /\ Parent(r) \in st.rows /\ r.block \in Blocks /\ r \in RowsOf(r.block)
    BY <1>1, RowOfStore
  <2>2. r \in Ancestors(r) /\ Ancestors(Parent(r)) \subseteq Ancestors(r)
    BY <2>1, AncestorsOf
  <2> QED BY <2>1, <2>2
<1> HIDE DEF left, counts
<1>6. mid \in AllStores /\ mid.rows = left /\ mid.ipld = st.ipld
  BY <1>3, OtherRows
<1> HIDE DEF mid
<1>7. new \in AllStores /\ new.rows = left /\ new.ipld = st.ipld
  BY <1>3, <1>6, OtherCounts
<1> HIDE DEF new
<1>8. ForeignKeysHold(new)
  BY <1>5, <1>7 DEF ForeignKeysHold
<1> QED BY <1>4, <1>7, <1>8 DEF Sound, left

\* The kinds of rows that a clean names.
CleanedKinds == {"storage", "state", "rct", "tx", "uncle", "header"}

\* The blocks that a clean of a range may cut into.
Hit(b, chain, rng) == \E c \in ChainBlocks(chain) : Within(c, rng) /\ (b = c \/ Share(b, c))

\* What a clean makes of a store: rows go, with them IPLDs, and only rows of
\* blocks in the range or with data in common.
CutOf(st, chain, rng) ==
    {s \in Sound : /\ s.rows \subseteq st.rows /\ s.ipld \subseteq st.ipld
                   /\ \A r \in st.rows \ s.rows : Hit(r.block, chain, rng)}

\* The IPLD of a row that a clean selects has a key.
LEMMA SelectedKey ==
    ASSUME NEW st \in AllStores, NEW chain, NEW kind \in CleanedKinds, NEW rng,
           NEW r \in Selected(st, chain, kind, rng)
    PROVE  /\ r \in st.rows /\ r.block \in Blocks /\ r \in RowsOf(r.block)
           /\ r.block \in ChainBlocks(chain) /\ Within(r.block, rng) /\ MhKey(r) # NoKey
<1>1. /\ r \in st.rows /\ r.kind = kind /\ r.block \in ChainBlocks(chain) /\ Within(r.block, rng)
  BY DEF Selected
<1>2. r \in AllRows
  BY <1>1, StoreFields
<1> DEFINE b == r.block
<1>3. b \in Blocks /\ r \in RowsOf(b)
  BY <1>2, RowOfStore
<1>4. kind \in DOMAIN Data[b]
  BY <1>1, <1>3, RowOfBlock
<1> HIDE DEF b
<1>5. \A k \in DOMAIN Data[b] : Data[b][k] = NoKey <=> k \notin Range(Publishes(b))
  BY <1>3, IndexStoreAssumption
<1>6. DOMAIN Data[b] \subseteq IF b \in EthBlocks THEN EthKinds ELSE BtcKinds
  BY <1>3, IndexStoreAssumption
<1>7. kind \in Range(Publishes(b))
  <2>1. CASE b \in EthBlocks
    BY <2>1, KindsListed DEF Publishes, CleanedKinds
  <2>2. CASE b \notin EthBlocks
    <3>1. kind \in Range(BtcPublishes) \cup {"input", "output"}
      BY <1>4, <1>6, <2>2 DEF BtcKinds
    <3>2. kind \notin {"input", "output"}
      BY DEF CleanedKinds
    <3> QED BY <2>2, <3>1, <3>2 DEF Publishes
  <2> QED BY <2>1, <2>2
<1>8. MhKey(r) = Data[b][kind]
  BY <1>1 DEF MhKey, b
<1>9. MhKey(r) # NoKey
  BY <1>4, <1>5, <1>7, <1>8
<1> QED BY <1>1, <1>3, <1>9 DEF b

\* The IPLDs of a kind in the range are gone, and the rows that were removed have
\* an ancestor whose IPLD is one of them.
Deletes(st, chain, kind, rng, new) ==
    /\ \A q \in Selected(st, chain, kind, rng) : MhKey(q) \notin new.ipld
    /\ \A r \in st.rows \ new.rows : \E a \in Ancestors(r), q \in Selected(st, chain, kind, rng) :
         MhKey(a) = MhKey(q)

LEMMA IPLDsDeletedStore ==
    ASSUME NEW st \in Sound, NEW chain, NEW kind \in CleanedKinds, NEW rng
    PROVE  /\ IPLDsDeleted(st, chain, kind, rng) \in CutOf(st, chain, rng)
           /\ Deletes(st, chain, kind, rng, IPLDsDeleted(st, chain, kind, rng))
<1> DEFINE keys == {MhKey(r) : r \in Selected(st, chain, kind, rng)}
           gone == {r \in st.rows : MhKey(r) \in keys}
           mid == [st EXCEPT !.ipld = st.ipld \ keys]
           new == Removed(mid, gone)
<1>1. st \in AllStores /\ ForeignKeysHold(st)
  BY DEF Sound
<1>2. IPLDsDeleted(st, chain, kind, rng) = new
  BY DEF IPLDsDeleted
<1>3. st.rows \subseteq AllRows /\ st.ipld \ keys \in SUBSET AllKeys
  BY <1>1, StoreFields
<1> HIDE DEF keys
<1>4. mid \in AllStores /\ mid.rows = st.rows /\ mid.ipld = st.ipld \ keys
  BY <1>1, <1>3, OtherKeys
<1> HIDE DEF mid
<1>5. /\ \A r \in mid.rows : Parent(r) \in mid.rows
      /\ \A r \in mid.rows \ gone : MhKey(r) \in mid.ipld \cup {NoKey}
  BY <1>1, <1>4 DEF ForeignKeysHold
<1> HIDE DEF gone
<1>6. /\ new \in Sound /\ new.rows = {r \in mid.rows : Ancestors(r) \cap gone = {}}
      /\ new.ipld = mid.ipld
  BY <1>4, <1>5, RemovedStore
<1> HIDE DEF new
<1>7. ASSUME NEW r \in st.rows \ new.rows PROVE Hit(r.block, chain, rng)
  <2>1. PICK a \in Ancestors(r) : a \in gone
    BY <1>4, <1>6, <1>7
  <2>2. r.block \in Blocks /\ r \in RowsOf(r.block)
    BY <1>3, <1>7, RowOfStore
  <2>3. a \in RowsOf(r.block)
    BY <2>1, <2>2, AncestorsOf
  <2>4. PICK q \in Selected(st, chain, kind, rng) : MhKey(a) = MhKey(q)
    BY <2>1 DEF gone, keys
  <2>5. /\ q.block \in Blocks /\ q \in RowsOf(q.block) /\ q.block \in ChainBlocks(chain)
        /\ Within(q.block, rng) /\ MhKey(q) # NoKey
    BY <1>1, SelectedKey
  <2>6. /\ MhKey(a) \in KeysOf(r.block, DOMAIN Data[r.block])
        /\ MhKey(q) \in KeysOf(q.block, DOMAIN Data[q.block])
    BY <2>2, <2>3, <2>4, <2>5, KeyOfRow
  <2> QED BY <2>4, <2>5, <2>6 DEF Hit, Share
<1>8. new \in CutOf(st, chain, rng)
  BY <1>4, <1>6, <1>7 DEF CutOf
<1>9. ASSUME NEW q \in Selected(st, chain, kind, rng) PROVE MhKey(q) \notin new.ipld
  <2>1. MhKey(q) \in keys
    BY DEF keys
  <2> QED BY <1>4, <1>6, <2>1
<1>10. ASSUME NEW r \in st.rows \ new.rows
       PROVE  \E a \in Ancestors(r), q \in Selected(st, chain, kind, rng) : MhKey(a) = MhKey(q)
  <2>1. PICK a \in Ancestors(r) : a \in gone
    BY <1>4, <1>6, <1>10
  <2> QED BY <2>1 DEF gone, keys
<1> QED BY <1>2, <1>8, <1>9, <1>10 DEF Deletes

\* No row of the kind in the range is left, nor one below it.
Leaves(st, chain, kind, rng, new) ==
    \A r \in new.rows : r \in st.rows /\ Ancestors(r) \cap Selected(st, chain, kind, rng) = {}

LEMMA RowsDeletedStore ==
    ASSUME NEW st \in Sound, NEW chain, NEW kind \in CleanedKinds, NEW rng
    PROVE  /\ RowsDeleted(st, chain, kind, rng) \in CutOf(st, chain, rng)
           /\ Leaves(st, chain, kind, rng, RowsDeleted(st, chain, kind, rng))
<1> DEFINE gone == Selected(st, chain, kind, rng)
           new == Removed(st, gone)
<1>1. st \in AllStores /\ ForeignKeysHold(st) /\ st.rows \subseteq AllRows
  BY StoreFields DEF Sound
<1>2. RowsDeleted(st, chain, kind, rng) = new
  BY DEF RowsDeleted
<1>3. /\ \A r \in st.rows : Parent(r) \in st.rows
      /\ \A r \in st.rows \ gone : MhKey(r) \in st.ipld \cup {NoKey}
  BY <1>1 DEF ForeignKeysHold
<1> HIDE DEF gone
<1>4. /\ new \in Sound /\ new.rows = {r \in st.rows : Ancestors(r) \cap gone = {}}
      /\ new.ipld = st.ipld
  BY <1>1, <1>3, RemovedStore
<1> HIDE DEF new
<1>5. ASSUME NEW r \in st.rows \ new.rows PROVE Hit(r.block, chain, rng)
  <2>1. PICK a \in Ancestors(r) : a \in gone
    BY <1>4, <1>5
  <2>2. r.block \in Blocks /\ r \in RowsOf(r.block)
    BY <1>1, <1>5, RowOfStore
  <2>3. a \in RowsOf(r.block)
    BY <2>1, <2>2, AncestorsOf
  <2>4. a.block = r.block
    BY <2>2, <2>3, RowOfBlock
  <2>5. a.block \in ChainBlocks(chain) /\ Within(a.block, rng)
    BY <2>1 DEF gone, Selected
  <2> QED BY <2>4, <2>5 DEF Hit
<1>6. new \in CutOf(st, chain, rng)
  BY <1>4, <1>5 DEF CutOf
<1>7. Leaves(st, chain, kind, rng, new)
  BY <1>4 DEF Leaves, gone
<1> QED BY <1>2, <1>6, <1>7

\* What is cut from a cut is cut from the whole.
LEMMA CutTransitive ==
    ASSUME NEW st, NEW chain, NEW rng, NEW s \in CutOf(st, chain, rng)
    PROVE  CutOf(s, chain, rng) \subseteq CutOf(st, chain, rng)
BY DEF CutOf

LEMMA CutSelf ==
    ASSUME NEW st \in Sound, NEW chain, NEW rng PROVE st \in CutOf(st, chain, rng)
BY DEF CutOf

-----------------------------------------------------------------------------
(***************************************************************************)
(* The loops of a clean.                                                    *)
(***************************************************************************)
\* The kinds that a clean goes through.
CleanOrder(chain, t) == IF chain = "eth" THEN EthCleanOrder(t) ELSE BtcCleanOrder(t)

LEMMA CleanOrderKinds ==
    ASSUME NEW chain \in {"eth", "btc"}, NEW t \in IF chain = "eth" THEN EthTypes ELSE BtcTypes
    PROVE  LET order == CleanOrder(chain, t)
           IN  /\ Len(order) \in Nat \ {0} /\ DOMAIN order = 1..Len(order)
               /\ \A n \in 1..Len(order) : order[n] \in CleanedKinds
<1> DEFINE order == CleanOrder(chain, t)
<1>1. order \in {<<"storage", "state", "rct", "tx", "uncle", "header">>, <<"uncle">>,
                 <<"rct", "tx">>, <<"rct">>, <<"storage", "state">>, <<"storage">>,
                 <<"tx">>, <<"tx", "header">>}
  <2>1. CASE chain = "eth"
    <3>1. order = EthCleanOrder(t) /\ t \in EthTypes
      BY <2>1 DEF CleanOrder
    <3> HIDE DEF order
    <3>2. EthCleanOrder(t) \in {<<"storage", "state", "rct", "tx", "uncle", "header">>, <<"uncle">>,
                 <<"rct", "tx">>, <<"rct">>, <<"storage", "state">>, <<"storage">>}
      BY <3>1, SMTT(30) DEF EthCleanOrder, EthTypes
    <3> QED BY <3>1, <3>2
  <2>2. CASE chain # "eth"
    <3>1. order = BtcCleanOrder(t)
      BY <2>2 DEF CleanOrder
    <3> QED BY <3>1 DEF BtcCleanOrder
  <2> QED BY <2>1, <2>2
<1> HIDE DEF order
<1>2. order \in Seq(CleanedKinds) /\ order # <<>>
  <2> DEFINE Lists == Seq(CleanedKinds) \ {<<>>}
  <2>1. /\ <<"storage", "state", "rct", "tx", "uncle", "header">> \in Lists
        /\ <<"rct", "tx">> \in Lists /\ <<"storage", "state">> \in Lists
        /\ <<"tx", "header">> \in Lists
    BY SMTT(30) DEF CleanedKinds
  <2>2. /\ <<"uncle">> \in Lists /\ <<"rct">> \in Lists /\ <<"storage">> \in Lists
        /\ <<"tx">> \in Lists
    BY SMTT(30) DEF CleanedKinds
  <2> HIDE DEF Lists
  <2>3. order \in Lists
    BY <1>1, <2>1, <2>2
  <2> QED BY <2>3 DEF Lists
<1>3. /\ Len(order) \in Nat \ {0} /\ DOMAIN order = 1..Len(order)
      /\ \A n \in 1..Len(order) : order[n] \in CleanedKinds
  BY <1>2, SMTT(30)
<1> QED BY <1>3 DEF order

\* The steps of a clean of one range.
CleanRun(st, chain, rng, t, v) ==
    LET order == CleanOrder(chain, t)
        N == Len(order)
    IN  /\ v \in [0..N -> CutOf(st, chain, rng)] /\ v[0] = st
        /\ \A n \in 1..N : v[n] = IPLDsDeleted(v[n - 1], chain, order[n], rng)
        /\ clean(st, chain, rng, t) = RowsDeleted(v[N], chain, order[N], rng)

LEMMA CleanSteps ==
    ASSUME NEW chain \in {"eth", "btc"}, NEW t \in IF chain = "eth" THEN EthTypes ELSE BtcTypes,
           NEW st \in Sound, NEW rng
    PROVE  \E v : CleanRun(st, chain, rng, t, v)
<1> DEFINE order == CleanOrder(chain, t)
           N == Len(order)
           S == CutOf(st, chain, rng)
           F == [n \in 1..N |-> [s \in S |-> IPLDsDeleted(s, chain, order[n], rng)]]
<1>1. /\ N \in Nat \ {0} /\ DOMAIN order = 1..N
      /\ \A n \in 1..N : order[n] \in CleanedKinds
  BY CleanOrderKinds
<1>2. st \in S
  BY CutSelf
<1>3. ASSUME NEW n \in 1..N, NEW s \in S PROVE IPLDsDeleted(s, chain, order[n], rng) \in S
  <2>1. s \in Sound /\ CutOf(s, chain, rng) \subseteq S
    BY CutTransitive DEF CutOf
  <2> HIDE DEF S, order
  <2> QED BY <1>1, <2>1, IPLDsDeletedStore
<1> HIDE DEF order, S, N
<1>4. F \in [1..N -> [S -> S]] /\ N \in Nat
  BY <1>1, <1>3
<1>5. \A n \in 1..N : \A s \in S : F[n][s] = IPLDsDeleted(s, chain, order[n], rng)
  OBVIOUS
<1> HIDE DEF F
<1> DEFINE res == ForEach(LAMBDA s, kind : IPLDsDeleted(s, chain, kind, rng), st, order)
<1>6. \E f : /\ f = [s \in SUBSET DOMAIN order |->
                       IF s = {} THEN st
                       ELSE IPLDsDeleted(f[s \ {Max(s)}], chain, order[Max(s)], rng)]
             /\ res = f[DOMAIN order]
  <2>1. PICK g \in [SUBSET (1..N) -> S] : Folded(N, st, F, g)
    BY <1>2, <1>4, LoopExists
  <2>2. ASSUME NEW s \in SUBSET (1..N), s # {}
        PROVE  F[Max(s)][g[s \ {Max(s)}]]
                 = IPLDsDeleted(g[s \ {Max(s)}], chain, order[Max(s)], rng)
    <3>1. Max(s) \in 1..N /\ s \ {Max(s)} \in SUBSET (1..N)
      BY <1>1, <2>2, MaxOfList
    <3>2. g[s \ {Max(s)}] \in S
      BY <3>1
    <3> QED BY <1>5, <3>1, <3>2
  <2>3. \A s \in SUBSET (1..N) :
          g[s] = IF s = {} THEN st
                 ELSE IPLDsDeleted(g[s \ {Max(s)}], chain, order[Max(s)], rng)
    BY <2>1, <2>2 DEF Folded
  <2>4. g = [s \in SUBSET DOMAIN order |->
               IF s = {} THEN st
               ELSE IPLDsDeleted(g[s \ {Max(s)}], chain, order[Max(s)], rng)]
    BY <1>1, <2>3
  <2> QED BY <2>4 DEF ForEach, MapThenFoldSet
<1> HIDE DEF res
<1>7. PICK f : /\ f = [s \in SUBSET DOMAIN order |->
                         IF s = {} THEN st
                         ELSE IPLDsDeleted(f[s \ {Max(s)}], chain, order[Max(s)], rng)]
               /\ res = f[DOMAIN order]
  BY <1>6
<1>8. \A s \in SUBSET (1..N) : f[s] = IF s = {} THEN st
                   ELSE IPLDsDeleted(f[s \ {Max(s)}], chain, order[Max(s)], rng)
  BY <1>1, <1>7
<1>9. ASSUME NEW s \in SUBSET (1..N), s # {}, f[s \ {Max(s)}] \in S
      PROVE  f[s] = F[Max(s)][f[s \ {Max(s)}]]
  <2>1. Max(s) \in 1..N
    BY <1>1, <1>9, MaxOfList
  <2> QED BY <1>5, <1>8, <1>9, <2>1
<1>10. PICK v : Stepped(N, S, st, F, v) /\ v[N] = f[1..N]
  <2>1. Follows(N, S, st, F, f)
    BY <1>8, <1>9 DEF Follows
  <2>2. Loop(N, S, st, F)
    BY <1>2, <1>4 DEF Loop
  <2>3. Computes(N, S, st, F, f)
    BY <2>1, <2>2, LoopValue
  <2> QED BY <2>3 DEF Computes
<1>11. clean(st, chain, rng, t) = RowsDeleted(v[N], chain, order[N], rng)
  <2>1. clean(st, chain, rng, t) = RowsDeleted(res, chain, order[N], rng)
    BY DEF clean, res, order, CleanOrder, N
  <2> QED BY <1>1, <1>7, <1>10, <2>1
<1>12. v \in [0..N -> S] /\ v[0] = st /\ \A n \in 1..N : v[n] = F[n][v[n - 1]]
  BY <1>10 DEF Stepped
<1>13. ASSUME NEW n \in 1..N PROVE v[n] = IPLDsDeleted(v[n - 1], chain, order[n], rng)
  <2>1. n - 1 \in 0..N
    BY <1>1, SMTT(30)
  <2> QED BY <1>5, <1>12, <2>1
<1> QED BY <1>11, <1>12, <1>13 DEF S, N, order, CleanRun

\* A clean of one range cuts into its blocks and those with data in common.
LEMMA cleanStore ==
    ASSUME NEW chain \in {"eth", "btc"}, NEW t \in IF chain = "eth" THEN EthTypes ELSE BtcTypes,
           NEW st \in Sound, NEW rng
    PROVE  clean(st, chain, rng, t) \in CutOf(st, chain, rng)
<1> DEFINE order == CleanOrder(chain, t)
           N == Len(order)
<1>1. N \in Nat \ {0} /\ order[N] \in CleanedKinds
  <2>1. N \in Nat \ {0} /\ \A n \in 1..N : order[n] \in CleanedKinds
    BY CleanOrderKinds
  <2>2. N \in 1..N
    BY <2>1, SMTT(30)
  <2> QED BY <2>1, <2>2
<1>2. PICK v : /\ v \in [0..N -> CutOf(st, chain, rng)]
               /\ clean(st, chain, rng, t) = RowsDeleted(v[N], chain, order[N], rng)
  <2>1. PICK v : CleanRun(st, chain, rng, t, v)
    BY CleanSteps
  <2> QED BY <2>1 DEF CleanRun
<1> HIDE DEF order, N
<1>3. N \in 0..N
  BY <1>1, SMTT(30)
<1>4. v[N] \in CutOf(st, chain, rng)
  BY <1>2, <1>3
<1>5. v[N] \in Sound /\ CutOf(v[N], chain, rng) \subseteq CutOf(st, chain, rng)
  BY <1>4, CutTransitive DEF CutOf
<1>6. RowsDeleted(v[N], chain, order[N], rng) \in CutOf(v[N], chain, rng)
  BY <1>1, <1>5, RowsDeletedStore
<1> QED BY <1>2, <1>5, <1>6

\* What the clean of several ranges may make of a store.
CutAll(st, chain, rngs) ==
    {s \in Sound : /\ s.rows \subseteq st.rows /\ s.ipld \subseteq st.ipld
                   /\ \A r \in st.rows \ s.rows : \E n \in DOMAIN rngs :
                        Hit(r.block, chain, rngs[n])}

\* The steps of a clean of several ranges.
CleanedRun(st, chain, rngs, t, v) ==
    LET N == Len(rngs)
    IN  /\ v \in [0..N -> CutAll(st, chain, rngs)] /\ v[0] = st
        /\ \A n \in 1..N : v[n] = clean(v[n - 1], chain, rngs[n], t)
        /\ Cleaned(st, chain, rngs, t) = v[N]

LEMMA CleanedSteps ==
    ASSUME NEW chain \in {"eth", "btc"}, NEW t \in IF chain = "eth" THEN EthTypes ELSE BtcTypes,
           NEW st \in Sound, NEW R, NEW rngs \in Seq(R)
    PROVE  \E v : CleanedRun(st, chain, rngs, t, v)
<1> DEFINE N == Len(rngs)
           S == CutAll(st, chain, rngs)
           F == [n \in 1..N |-> [s \in S |-> clean(s, chain, rngs[n], t)]]
<1>1. N \in Nat /\ DOMAIN rngs = 1..N
  BY SMTT(30)
<1>2. st \in S
  BY DEF CutAll
<1>3. ASSUME NEW n \in 1..N, NEW s \in S PROVE clean(s, chain, rngs[n], t) \in S
  <2> DEFINE u == clean(s, chain, rngs[n], t)
  <2>1. s \in Sound /\ n \in DOMAIN rngs
    BY <1>1 DEF CutAll
  <2>2. u \in CutOf(s, chain, rngs[n])
    BY <2>1, cleanStore
  <2> HIDE DEF u
  <2>3. /\ u \in Sound /\ u.rows \subseteq s.rows /\ u.ipld \subseteq s.ipld
        /\ \A r \in s.rows \ u.rows : Hit(r.block, chain, rngs[n])
    BY <2>2 DEF CutOf
  <2>4. /\ s.rows \subseteq st.rows /\ s.ipld \subseteq st.ipld
        /\ \A r \in st.rows \ s.rows : \E i \in DOMAIN rngs : Hit(r.block, chain, rngs[i])
    BY DEF CutAll
  <2>5. u.rows \subseteq st.rows /\ u.ipld \subseteq st.ipld
    BY <2>3, <2>4
  <2>6. ASSUME NEW r \in st.rows \ u.rows
        PROVE  \E i \in DOMAIN rngs : Hit(r.block, chain, rngs[i])
    BY <2>1, <2>3, <2>4
  <2>7. u \in S
    BY <2>3, <2>5, <2>6 DEF CutAll
  <2> QED BY <2>7 DEF u
<1> HIDE DEF S, N
<1>4. F \in [1..N -> [S -> S]]
  BY <1>3
<1>5. \A n \in 1..N : \A s \in S : F[n][s] = clean(s, chain, rngs[n], t)
  OBVIOUS
<1> HIDE DEF F
<1> DEFINE res == Cleaned(st, chain, rngs, t)
<1>6. \E f : /\ f = [s \in SUBSET DOMAIN rngs |->
                       IF s = {} THEN st ELSE clean(f[s \ {Max(s)}], chain, rngs[Max(s)], t)]
             /\ res = f[DOMAIN rngs]
  <2>1. PICK g \in [SUBSET (1..N) -> S] : Folded(N, st, F, g)
    BY <1>1, <1>2, <1>4, LoopExists
  <2>2. ASSUME NEW s \in SUBSET (1..N), s # {}
        PROVE  F[Max(s)][g[s \ {Max(s)}]] = clean(g[s \ {Max(s)}], chain, rngs[Max(s)], t)
    <3>1. Max(s) \in 1..N /\ s \ {Max(s)} \in SUBSET (1..N)
      BY <1>1, <2>2, MaxOfList
    <3>2. g[s \ {Max(s)}] \in S
      BY <3>1
    <3> QED BY <1>5, <3>1, <3>2
  <2>3. \A s \in SUBSET (1..N) :
          g[s] = IF s = {} THEN st ELSE clean(g[s \ {Max(s)}], chain, rngs[Max(s)], t)
    BY <2>1, <2>2 DEF Folded
  <2>4. g = [s \in SUBSET DOMAIN rngs |->
               IF s = {} THEN st ELSE clean(g[s \ {Max(s)}], chain, rngs[Max(s)], t)]
    BY <1>1, <2>3
  <2> QED BY <2>4 DEF Cleaned, ForEach, MapThenFoldSet
<1> HIDE DEF res
<1>7. PICK f : /\ f = [s \in SUBSET DOMAIN rngs |->
                         IF s = {} THEN st ELSE clean(f[s \ {Max(s)}], chain, rngs[Max(s)], t)]
               /\ res = f[DOMAIN rngs]
  BY <1>6
<1>8. \A s \in SUBSET (1..N) :
        f[s] = IF s = {} THEN st ELSE clean(f[s \ {Max(s)}], chain, rngs[Max(s)], t)
  BY <1>1, <1>7
<1>9. ASSUME NEW s \in SUBSET (1..N), s # {}, f[s \ {Max(s)}] \in S
      PROVE  f[s] = F[Max(s)][f[s \ {Max(s)}]]
  <2>1. Max(s) \in 1..N
    BY <1>1, <1>9, MaxOfList
  <2> QED BY <1>5, <1>8, <1>9, <2>1
<1>10. PICK v : Stepped(N, S, st, F, v) /\ v[N] = f[1..N]
  <2>1. Follows(N, S, st, F, f)
    BY <1>8, <1>9 DEF Follows
  <2>2. Loop(N, S, st, F)
    BY <1>1, <1>2, <1>4 DEF Loop
  <2>3. Computes(N, S, st, F, f)
    BY <2>1, <2>2, LoopValue
  <2> QED BY <2>3 DEF Computes
<1>11. res = v[N]
  BY <1>1, <1>7, <1>10
<1>12. v \in [0..N -> S] /\ v[0] = st /\ \A n \in 1..N : v[n] = F[n][v[n - 1]]
  BY <1>10 DEF Stepped
<1>13. ASSUME NEW n \in 1..N PROVE v[n] = clean(v[n - 1], chain, rngs[n], t)
  <2>1. n - 1 \in 0..N
    BY <1>1, SMTT(30)
  <2> QED BY <1>5, <1>12, <2>1
<1> QED BY <1>11, <1>12, <1>13 DEF S, N, res, CleanedRun

LEMMA CleanedStore ==
    ASSUME NEW chain \in {"eth", "btc"}, NEW t \in IF chain = "eth" THEN EthTypes ELSE BtcTypes,
           NEW st \in Sound, NEW R, NEW rngs \in Seq(R)
    PROVE  Cleaned(st, chain, rngs, t) \in CutAll(st, chain, rngs)
<1> DEFINE N == Len(rngs)
<1>1. N \in 0..N
  BY SMTT(30)
<1>2. PICK v : v \in [0..N -> CutAll(st, chain, rngs)] /\ Cleaned(st, chain, rngs, t) = v[N]
  <2>1. PICK v : CleanedRun(st, chain, rngs, t, v)
    BY CleanedSteps
  <2> QED BY <2>1 DEF CleanedRun
<1> HIDE DEF N
<1> QED BY <1>1, <1>2

-----------------------------------------------------------------------------
(***************************************************************************)
(* What was indexed before.                                                 *)
(***************************************************************************)
LEMMA EmptyStoreSound == EmptyStore \in Sound
<1> DEFINE counts == [b \in Blocks |-> 0]
<1>1. 0 \in 0..MaxValidated
  BY IndexStoreAssumption, SMTT(30)
<1>2. counts \in [Blocks -> 0..MaxValidated]
  BY <1>1
<1> HIDE DEF counts
<1>3. [rows |-> {}, ipld |-> {}, tv |-> counts] \in AllStores
  BY <1>2, SMTT(30) DEF AllStores
<1>4. EmptyStore = [rows |-> {}, ipld |-> {}, tv |-> counts] /\ EmptyStore.rows = {}
  BY DEF EmptyStore, counts
<1> QED BY <1>3, <1>4 DEF Sound, ForeignKeysHold

\* The steps in which a store came about.
PastRun(past, v) ==
    LET N == Len(past)
    IN  /\ v \in [0..N -> Sound] /\ v[0] = EmptyStore
        /\ \A n \in 1..N : v[n] = PublishedAndIndexed(v[n - 1], past[n])
        /\ ForEach(PublishedAndIndexed, EmptyStore, past) = v[N]

LEMMA PastSteps ==
    ASSUME NEW past \in Seq(Blocks)
    PROVE  \E v : PastRun(past, v)
<1> DEFINE N == Len(past)
           F == [n \in 1..N |-> [s \in Sound |-> PublishedAndIndexed(s, past[n])]]
<1>1. N \in Nat /\ DOMAIN past = 1..N /\ \A n \in 1..N : past[n] \in Blocks
  BY SMTT(30)
<1>2. EmptyStore \in Sound
  BY EmptyStoreSound
<1>3. ASSUME NEW n \in 1..N, NEW s \in Sound PROVE PublishedAndIndexed(s, past[n]) \in Sound
  <2> QED BY <1>1, PublishedAndIndexedStore
<1> HIDE DEF N
<1>4. F \in [1..N -> [Sound -> Sound]]
  BY <1>3
<1>5. \A n \in 1..N : \A s \in Sound : F[n][s] = PublishedAndIndexed(s, past[n])
  OBVIOUS
<1> HIDE DEF F
<1> DEFINE res == ForEach(PublishedAndIndexed, EmptyStore, past)
<1>6. \E f : /\ f = [s \in SUBSET DOMAIN past |->
                       IF s = {} THEN EmptyStore
                       ELSE PublishedAndIndexed(f[s \ {Max(s)}], past[Max(s)])]
             /\ res = f[DOMAIN past]
  <2>1. PICK g \in [SUBSET (1..N) -> Sound] : Folded(N, EmptyStore, F, g)
    BY <1>1, <1>2, <1>4, LoopExists
  <2>2. ASSUME NEW s \in SUBSET (1..N), s # {}
        PROVE  F[Max(s)][g[s \ {Max(s)}]] = PublishedAndIndexed(g[s \ {Max(s)}], past[Max(s)])
    <3>1. Max(s) \in 1..N /\ s \ {Max(s)} \in SUBSET (1..N)
      BY <1>1, <2>2, MaxOfList
    <3>2. g[s \ {Max(s)}] \in Sound
      BY <3>1
    <3> QED BY <1>5, <3>1, <3>2
  <2>3. \A s \in SUBSET (1..N) :
          g[s] = IF s = {} THEN EmptyStore
                 ELSE PublishedAndIndexed(g[s \ {Max(s)}], past[Max(s)])
    BY <2>1, <2>2 DEF Folded
  <2>4. g = [s \in SUBSET DOMAIN past |->
               IF s = {} THEN EmptyStore
               ELSE PublishedAndIndexed(g[s \ {Max(s)}], past[Max(s)])]
    BY <1>1, <2>3
  <2> QED BY <2>4 DEF ForEach, MapThenFoldSet
<1> HIDE DEF res
<1>7. PICK f : /\ f = [s \in SUBSET DOMAIN past |->
                         IF s = {} THEN EmptyStore
                         ELSE PublishedAndIndexed(f[s \ {Max(s)}], past[Max(s)])]
               /\ res = f[DOMAIN past]
  BY <1>6
<1>8. \A s \in SUBSET (1..N) :
        f[s] = IF s = {} THEN EmptyStore
               ELSE PublishedAndIndexed(f[s \ {Max(s)}], past[Max(s)])
  BY <1>1, <1>7
<1>9. ASSUME NEW s \in SUBSET (1..N), s # {}, f[s \ {Max(s)}] \in Sound
      PROVE  f[s] = F[Max(s)][f[s \ {Max(s)}]]
  <2>1. Max(s) \in 1..N
    BY <1>1, <1>9, MaxOfList
  <2> QED BY <1>5, <1>8, <1>9, <2>1
<1>10. PICK v : Stepped(N, Sound, EmptyStore, F, v) /\ v[N] = f[1..N]
  <2>1. Follows(N, Sound, EmptyStore, F, f)
    BY <1>8, <1>9 DEF Follows
  <2>2. Loop(N, Sound, EmptyStore, F)
    BY <1>1, <1>2, <1>4 DEF Loop
  <2>3. Computes(N, Sound, EmptyStore, F, f)
    BY <2>1, <2>2, LoopValue
  <2> QED BY <2>3 DEF Computes
<1>11. res = v[N]
  BY <1>1, <1>7, <1>10
<1>12. v \in [0..N -> Sound] /\ v[0] = EmptyStore /\ \A n \in 1..N : v[n] = F[n][v[n - 1]]
  BY <1>10 DEF Stepped
<1>13. ASSUME NEW n \in 1..N PROVE v[n] = PublishedAndIndexed(v[n - 1], past[n])
  <2>1. n - 1 \in 0..N
    BY <1>1, SMTT(30)
  <2> QED BY <1>5, <1>12, <2>1
<1> QED BY <1>11, <1>12, <1>13 DEF N, res, PastRun

-----------------------------------------------------------------------------
(***************************************************************************)
(* The transactions in short.                                               *)
(***************************************************************************)
\* IPLDs are put and nothing else changes.
Adds(st, new) == /\ new \in Sound /\ new.rows = st.rows /\ new.tv = st.tv
                 /\ st.ipld \subseteq new.ipld

\* The rows of b are upserted.
Upserts(st, b, new) == /\ new \in Sound /\ new.rows = RowsOf(b) \cup Kept(st.rows, b)
                       /\ st.ipld \subseteq new.ipld
                       /\ new.tv[b] > 0 /\ \A c \in Blocks \ {b} : new.tv[c] = st.tv[c]

LEMMA PublishedAdds ==
    ASSUME NEW st \in Sound, NEW b \in Blocks, NEW kinds
    PROVE  /\ Adds(st, Published(st, b, kinds))
           /\ KeysOf(b, kinds) \subseteq Published(st, b, kinds).ipld
<1> DEFINE new == Published(st, b, kinds)
<1>1. st \in AllStores /\ ForeignKeysHold(st)
  BY DEF Sound
<1>2. /\ new \in AllStores /\ new.rows = st.rows /\ new.tv = st.tv
      /\ new.ipld = st.ipld \cup KeysOf(b, kinds) /\ ForeignKeysHold(new)
  BY <1>1, PublishedStore
<1> HIDE DEF new
<1>3. Adds(st, new) /\ KeysOf(b, kinds) \subseteq new.ipld
  BY <1>2 DEF Adds, Sound
<1> QED BY <1>3 DEF new

LEMMA DirectUpserts ==
    ASSUME NEW st \in Sound, NEW b \in Blocks
    PROVE  Upserts(st, b, PublishedAndIndexed(st, b))
<1> DEFINE new == PublishedAndIndexed(st, b)
<1>1. /\ new \in Sound /\ new.rows = RowsOf(b) \cup Kept(st.rows, b)
      /\ new.ipld = st.ipld \cup KeysOf(b, Range(Publishes(b)))
      /\ new.tv[b] > 0 /\ \A c \in Blocks \ {b} : new.tv[c] = st.tv[c]
  BY PublishedAndIndexedStore
<1> HIDE DEF new
<1>2. Upserts(st, b, new)
  BY <1>1 DEF Upserts
<1> QED BY <1>2 DEF new

\* Index writes all rows of the block or none, and all if the block is published.
LEMMA IndexedUpserts ==
    ASSUME NEW st \in Sound, NEW b \in Blocks
    PROVE  /\ ForeignKeysHold(Upserted(st, b)) => Upserts(st, b, Indexed(st, b))
           /\ ~ForeignKeysHold(Upserted(st, b)) => Indexed(st, b) = st
           /\ KeysOf(b, Range(Publishes(b))) \subseteq st.ipld => ForeignKeysHold(Upserted(st, b))
<1> DEFINE new == Upserted(st, b)
<1>1. st \in AllStores /\ ForeignKeysHold(st)
  BY DEF Sound
<1>2. /\ new \in AllStores /\ new.rows = RowsOf(b) \cup Kept(st.rows, b) /\ new.ipld = st.ipld
      /\ new.tv[b] > 0 /\ \A c \in Blocks \ {b} : new.tv[c] = st.tv[c]
  BY <1>1, UpsertedStore
<1>3. KeysOf(b, Range(Publishes(b))) \subseteq st.ipld => ForeignKeysHold(new)
  BY <1>1, UpsertedSound
<1>4. Indexed(st, b) = IF ForeignKeysHold(new) THEN new ELSE st
  BY DEF Indexed, Commit
<1> HIDE DEF new
<1>5. ForeignKeysHold(new) => Upserts(st, b, new)
  BY <1>2 DEF Upserts, Sound
<1>6. ForeignKeysHold(new) => Upserts(st, b, Indexed(st, b))
  BY <1>4, <1>5
<1> QED BY <1>3, <1>4, <1>6 DEF new

\* Rows with the same kind and id are one row to the database.
Same(r, s) == r.kind = s.kind /\ r.id = s.id

\* Rows of blocks with another transaction are not taken for rows of b.
LEMMA OtherBlock ==
    ASSUME NEW b \in Blocks, NEW c \in Blocks, b # c, TxId[b] # TxId[c],
           NEW n \in RowsOf(b), NEW r \in RowsOf(c)
    PROVE  ~Same(r, n)
<1>1. n = Row(b, n.kind) /\ r = Row(c, r.kind)
  BY RowOfBlock
<1>2. /\ n.id = IF n.kind \in TxKinds THEN TxId[b] ELSE b
      /\ r.id = IF r.kind \in TxKinds THEN TxId[c] ELSE c
  <2> DEFINE k == n.kind
             j == r.kind
  <2>1. n = Row(b, k) /\ r = Row(c, j)
    BY <1>1
  <2> HIDE DEF k, j
  <2>2. /\ n.id = IF k \in TxKinds THEN TxId[b] ELSE b
        /\ r.id = IF j \in TxKinds THEN TxId[c] ELSE c
    BY <2>1, RowFields
  <2> QED BY <2>2 DEF k, j
<1> QED BY <1>2 DEF Same

\* A block whose header is indexed has all its rows, except those of ex.
Whole(st, ex) == \A b \in Blocks \ ex : Header(b) \in st.rows => RowsOf(b) \subseteq st.rows

\* The header of a block other than b was there before.
LEMMA OtherHeader ==
    ASSUME NEW st, NEW b \in Blocks, NEW new, Upserts(st, b, new), NEW c \in Blocks \ {b},
           Header(c) \in new.rows
    PROVE  Header(c) \in st.rows
<1>1. Header(c) \in RowsOf(b) \/ Header(c) \in st.rows
  BY DEF Upserts, Kept
<1>2. Header(c) \notin RowsOf(b)
  <2>1. Header(c).block = c
    BY RowFields DEF Header
  <2> QED BY <2>1, RowOfBlock
<1> QED BY <1>1, <1>2

LEMMA UpsertsWhole ==
    ASSUME NEW st, NEW b \in Blocks, NEW new, Upserts(st, b, new), NEW ex, Whole(st, ex)
    PROVE  Whole(new, (ex \ {b}) \cup {c \in Blocks \ {b} : TxId[c] = TxId[b]})
<1> SUFFICES ASSUME NEW c \in Blocks, c \notin ex \ {b}, c = b \/ TxId[c] # TxId[b],
                    Header(c) \in new.rows
             PROVE  RowsOf(c) \subseteq new.rows
  BY DEF Whole
<1>1. new.rows = RowsOf(b) \cup Kept(st.rows, b)
  BY DEF Upserts
<1>2. CASE c = b
  BY <1>1, <1>2
<1>3. CASE c # b
  <2>1. Header(c) \in st.rows
    BY <1>3, OtherHeader
  <2>2. RowsOf(c) \subseteq st.rows
    BY <1>3, <2>1 DEF Whole
  <2>3. ASSUME NEW r \in RowsOf(c), NEW n \in RowsOf(b) PROVE r.kind # n.kind \/ r.id # n.id
    BY <1>3, OtherBlock DEF Same
  <2> QED BY <1>1, <2>2, <2>3 DEF Kept
<1> QED BY <1>2, <1>3

\* What a row stands for stays in the index, possibly under another header.
LEMMA UpsertsSame ==
    ASSUME NEW st, NEW b \in Blocks, NEW new, Upserts(st, b, new), NEW r \in st.rows
    PROVE  \E s \in new.rows : Same(s, r)
<1>1. new.rows = RowsOf(b) \cup Kept(st.rows, b)
  BY DEF Upserts
<1>2. CASE \E n \in RowsOf(b) : Same(n, r)
  BY <1>1, <1>2
<1>3. CASE ~\E n \in RowsOf(b) : Same(n, r)
  <2>1. r \in Kept(st.rows, b)
    BY <1>3 DEF Kept, Same
  <2> QED BY <1>1, <2>1 DEF Same
<1> QED BY <1>2, <1>3

\* No two rows have the same kind and id.
Unique(st) == \A r, s \in st.rows : Same(r, s) => r = s

LEMMA UpsertsUnique ==
    ASSUME NEW st, NEW b \in Blocks, NEW new, Upserts(st, b, new), Unique(st)
    PROVE  Unique(new)
<1> SUFFICES ASSUME NEW r \in new.rows, NEW s \in new.rows, Same(r, s) PROVE r = s
  BY DEF Unique
<1>1. new.rows = RowsOf(b) \cup Kept(st.rows, b)
  BY DEF Upserts
<1>2. CASE r \in RowsOf(b) /\ s \in RowsOf(b)
  <2>1. r = Row(b, r.kind) /\ s = Row(b, s.kind)
    BY <1>2, RowOfBlock
  <2>2. r.kind = s.kind
    BY DEF Same
  <2> QED BY <2>1, <2>2
<1>3. CASE r \in Kept(st.rows, b) /\ s \in Kept(st.rows, b)
  BY <1>3 DEF Unique, Kept
<1>4. CASE r \in RowsOf(b) /\ s \in Kept(st.rows, b)
  BY <1>4 DEF Same, Kept
<1>5. CASE s \in RowsOf(b) /\ r \in Kept(st.rows, b)
  BY <1>5 DEF Same, Kept
<1> QED BY <1>1, <1>2, <1>3, <1>4, <1>5

-----------------------------------------------------------------------------
(***************************************************************************)
(* What a full clean leaves.                                                *)
(***************************************************************************)
\* The rows above a row: its header, and its transaction or state node.
LEMMA AncestorKinds ==
    ASSUME NEW b \in Blocks, NEW r \in RowsOf(b)
    PROVE  /\ Header(b) \in Ancestors(r)
           /\ \A a \in Ancestors(r) : \/ a = r
                                      \/ a.kind = "header" /\ r.kind # "header"
                                      \/ a.kind = "tx" /\ r.kind \in {"rct", "input", "output"}
                                      \/ a.kind = "state" /\ r.kind \in {"storage", "account"}
<1> DEFINE k == r.kind
<1>1. r = Row(b, k) /\ k \in RowKinds
  BY RowOfBlock
<1> HIDE DEF k
<1>2. /\ Parent(Row(b, "header")) = Row(b, "header")
      /\ Parent(Row(b, "tx")) = Row(b, "header")
      /\ Parent(Row(b, "state")) = Row(b, "header")
      /\ k \in {"uncle", "tx", "state"} => Parent(r) = Row(b, "header")
      /\ k \in {"rct", "input", "output"} => Parent(r) = Row(b, "tx")
      /\ k \in {"account", "storage"} => Parent(r) = Row(b, "state")
      /\ k = "header" => Parent(r) = r
  BY <1>1, RowFields, SMTT(30) DEF Parent
<1>3. Row(b, "header").kind = "header" /\ Row(b, "tx").kind = "tx" /\ Row(b, "state").kind = "state"
  BY RowFields
<1>4. CASE k = "header"
  <2>1. Ancestors(r) = {r}
    BY <1>2, <1>4 DEF Ancestors
  <2> QED BY <1>1, <1>4, <2>1 DEF Header
<1>5. CASE k \in {"uncle", "tx", "state"}
  <2>1. Ancestors(r) = {r, Row(b, "header")} /\ k # "header"
    BY <1>2, <1>5 DEF Ancestors
  <2> QED BY <1>3, <2>1 DEF Header, k
<1>6. CASE k \in {"rct", "input", "output"}
  <2>1. Ancestors(r) = {r, Row(b, "tx"), Row(b, "header")} /\ k # "header"
    BY <1>2, <1>6 DEF Ancestors
  <2> QED BY <1>3, <1>6, <2>1 DEF Header, k
<1>7. CASE k \in {"account", "storage"}
  <2>1. Ancestors(r) = {r, Row(b, "state"), Row(b, "header")} /\ k # "header"
    BY <1>2, <1>7 DEF Ancestors
  <2> QED BY <1>3, <1>7, <2>1 DEF Header, k
<1> QED BY <1>1, <1>4, <1>5, <1>6, <1>7 DEF RowKinds

\* The header of a row is in the store.
LEMMA HeaderOfStore ==
    ASSUME NEW st \in Sound, NEW r \in st.rows
    PROVE  /\ r.block \in Blocks /\ r \in RowsOf(r.block)
           /\ Header(r.block) \in st.rows /\ Header(r.block) \in Ancestors(r)
           /\ Ancestors(r) \subseteq st.rows
<1>1. st.rows \subseteq AllRows /\ \A s \in st.rows : Parent(s) \in st.rows
  BY StoreFields DEF Sound, ForeignKeysHold
<1>2. r.block \in Blocks /\ r \in RowsOf(r.block)
  BY <1>1, RowOfStore
<1>3. Ancestors(r) \subseteq st.rows
  BY <1>1 DEF Ancestors
<1> DEFINE b == r.block
<1>4. b \in Blocks /\ r \in RowsOf(b)
  BY <1>2
<1> HIDE DEF b
<1>5. Header(b) \in Ancestors(r)
  BY <1>4, AncestorKinds
<1> QED BY <1>2, <1>3, <1>5 DEF b

\* The order of a full clean: what refers to a row comes before it.
FullOrder(chain) == IF chain = "eth" THEN <<"storage", "state", "rct", "tx", "uncle", "header">>
                    ELSE <<"tx", "header">>

LEMMA FullOrderOf ==
    ASSUME NEW chain, NEW t \in {"full", "headers"}
    PROVE  CleanOrder(chain, t) = FullOrder(chain)
<1>1. EthCleanOrder(t) = <<"storage", "state", "rct", "tx", "uncle", "header">>
  BY SMTT(30) DEF EthCleanOrder
<1>2. BtcCleanOrder(t) = <<"tx", "header">>
  BY DEF BtcCleanOrder
<1> QED BY <1>1, <1>2 DEF CleanOrder, FullOrder

\* Whatever kind comes before that of a row, no row above is encoded like it.
LEMMA NoneAbove ==
    ASSUME NEW chain, NEW n \in 1..Len(FullOrder(chain)), NEW i \in 1..Len(FullOrder(chain)), n < i
    PROVE  LET early == FullOrder(chain)[n]
               late == FullOrder(chain)[i]
           IN  /\ late # "header" => early \notin {"header", "uncle"}
               /\ late \in {"rct", "input", "output"} => early # "tx"
               /\ late \notin {"storage", "account"}
<1>1. CASE chain = "eth"
  <2>1. FullOrder(chain) = <<"storage", "state", "rct", "tx", "uncle", "header">>
    BY <1>1 DEF FullOrder
  <2> QED BY <2>1, SMTT(30)
<1>2. CASE chain # "eth"
  <2>1. FullOrder(chain) = <<"tx", "header">>
    BY <1>2 DEF FullOrder
  <2> QED BY <2>1, SMTT(30)
<1> QED BY <1>1, <1>2

\* Every row that refers to an IPLD has its turn.
LEMMA HasItsTurn ==
    ASSUME NEW chain \in {"eth", "btc"}, NEW b \in ChainBlocks(chain), NEW r \in RowsOf(b),
           MhKey(r) # NoKey
    PROVE  \E i \in 1..Len(FullOrder(chain)) : FullOrder(chain)[i] = r.kind
<1>0. b \in Blocks
  BY DEF ChainBlocks, Blocks
<1> DEFINE k == r.kind
<1>1. r.block = b /\ k \in DOMAIN Data[b] \ Tries
  BY <1>0, RowOfBlock
<1>2. Data[b][k] # NoKey
  BY <1>1 DEF MhKey
<1> HIDE DEF k
<1>3. k \in Range(Publishes(b)) \ Tries
  BY <1>0, <1>1, <1>2, IndexStoreAssumption
<1>4. CASE chain = "eth"
  <2>1. Publishes(b) = EthPublishes
    BY <1>4 DEF ChainBlocks, Publishes
  <2>2. k \in {"storage", "state", "rct", "tx", "uncle", "header"}
    BY <1>3, <2>1, KindsListed DEF Tries
  <2>3. FullOrder(chain) = <<"storage", "state", "rct", "tx", "uncle", "header">>
    BY <1>4 DEF FullOrder
  <2>4. \E i \in 1..Len(FullOrder(chain)) : FullOrder(chain)[i] = k
    BY <2>2, <2>3, SMTT(30)
  <2> QED BY <2>4 DEF k
<1>5. CASE chain = "btc"
  <2>1. Publishes(b) = BtcPublishes
    <3>1. b \notin EthBlocks
      BY <1>5, IndexStoreAssumption DEF ChainBlocks
    <3> QED BY <3>1 DEF Publishes
  <2>2. k \in {"tx", "header"}
    BY <1>3, <2>1, KindsListed DEF Tries
  <2>3. FullOrder(chain) = <<"tx", "header">>
    BY <1>5 DEF FullOrder
  <2>4. \E i \in 1..Len(FullOrder(chain)) : FullOrder(chain)[i] = k
    BY <2>2, <2>3, SMTT(30)
  <2> QED BY <2>4 DEF k
<1> QED BY <1>4, <1>5

\* What one step of a full clean does to a row whose turn has not come: it stays,
\* or it goes and its IPLD with it.
LEMMA BeforeItsTurn ==
    ASSUME NEW chain \in {"eth", "btc"}, NEW rng,
           NEW n \in 1..Len(FullOrder(chain)), NEW i \in 1..Len(FullOrder(chain)), n < i,
           NEW st \in Sound, NEW new, Deletes(st, chain, FullOrder(chain)[n], rng, new),
           NEW r \in st.rows, r.kind = FullOrder(chain)[i], MhKey(r) # NoKey
    PROVE  r \in new.rows \/ MhKey(r) \notin new.ipld
<1> SUFFICES ASSUME r \notin new.rows PROVE MhKey(r) \notin new.ipld
  OBVIOUS
<1> DEFINE early == FullOrder(chain)[n]
<1>1. PICK a \in Ancestors(r), q \in Selected(st, chain, early, rng) : MhKey(a) = MhKey(q)
  BY DEF Deletes
<1>2. MhKey(q) \notin new.ipld /\ q \in st.rows /\ q.kind = early
  BY DEF Deletes, Selected
<1>3. CASE a = r
  BY <1>1, <1>2, <1>3
<1>4. CASE a # r
  <2>1. /\ a \in st.rows /\ r.block \in Blocks /\ r \in RowsOf(r.block)
    BY HeaderOfStore
  <2>2. /\ a.block \in Blocks /\ a \in RowsOf(a.block)
        /\ q.block \in Blocks /\ q \in RowsOf(q.block)
    BY <1>2, <2>1, HeaderOfStore
  <2>3. \/ a.kind = "header" /\ r.kind # "header"
        \/ a.kind = "tx" /\ r.kind \in {"rct", "input", "output"}
        \/ a.kind = "state" /\ r.kind \in {"storage", "account"}
    <3> DEFINE b == r.block
    <3>1. b \in Blocks /\ r \in RowsOf(b)
      BY <2>1
    <3> HIDE DEF b
    <3> QED BY <1>4, <3>1, AncestorKinds
  <2>4. /\ r.kind # "header" => early \notin {"header", "uncle"}
        /\ r.kind \in {"rct", "input", "output"} => early # "tx"
        /\ r.kind \notin {"storage", "account"}
    BY NoneAbove
  <2>5. MhKey(a) # NoKey
    <3>1. early \in CleanedKinds
      <4>1. CASE chain = "eth"
        <5>1. FullOrder(chain) = <<"storage", "state", "rct", "tx", "uncle", "header">>
          BY <4>1 DEF FullOrder
        <5> QED BY <5>1, SMTT(30) DEF CleanedKinds
      <4>2. CASE chain # "eth"
        <5>1. FullOrder(chain) = <<"tx", "header">>
          BY <4>2 DEF FullOrder
        <5> QED BY <5>1, SMTT(30) DEF CleanedKinds
      <4> QED BY <4>1, <4>2
    <3> HIDE DEF early
    <3>2. MhKey(q) # NoKey
      BY <3>1, SelectedKey DEF Sound
    <3> QED BY <1>1, <3>2
  <2> HIDE DEF early
  <2>6. a.kind # early
    BY <2>3, <2>4
  <2>7. <<a.kind, early>> \in Alike
    <3> DEFINE b == a.block
               c == q.block
    <3>1. b \in Blocks /\ c \in Blocks /\ a \in RowsOf(b) /\ q \in RowsOf(c)
      BY <2>2
    <3> HIDE DEF b, c
    <3> QED BY <1>1, <1>2, <2>5, <2>6, <3>1, EncodingAssumption
  <2>8. \/ a.kind = "header" /\ early = "uncle"
        \/ a.kind = "uncle" /\ early = "header"
        \/ a.kind = "state" /\ early = "storage"
        \/ a.kind = "storage" /\ early = "state"
    BY <2>7 DEF Alike
  <2> QED BY <2>3, <2>4, <2>8
<1> QED BY <1>3, <1>4

\* A full clean of a range leaves none of its rows and none of their IPLDs.
LEMMA FullCleanOfRange ==
    ASSUME NEW chain \in {"eth", "btc"}, NEW t \in {"full", "headers"}, NEW rng, NEW st \in Sound,
           NEW r \in st.rows, r.block \in ChainBlocks(chain), Within(r.block, rng)
    PROVE  LET new == clean(st, chain, rng, t)
           IN  r \notin new.rows /\ MhKey(r) \notin new.ipld
<1> DEFINE order == FullOrder(chain)
           N == Len(order)
           new == clean(st, chain, rng, t)
<1>1. t \in (IF chain = "eth" THEN EthTypes ELSE BtcTypes) /\ CleanOrder(chain, t) = order
  BY FullOrderOf DEF EthTypes, BtcTypes
<1>2. N \in Nat \ {0} /\ \A n \in 1..N : order[n] \in CleanedKinds
  BY <1>1, CleanOrderKinds
<1>3. order[N] = "header"
  <2>1. CASE chain = "eth"
    BY <2>1, SMTT(30) DEF FullOrder
  <2>2. CASE chain # "eth"
    BY <2>2, SMTT(30) DEF FullOrder
  <2> QED BY <2>1, <2>2
<1>4. PICK v : /\ v \in [0..N -> CutOf(st, chain, rng)] /\ v[0] = st
               /\ \A n \in 1..N : v[n] = IPLDsDeleted(v[n - 1], chain, order[n], rng)
               /\ new = RowsDeleted(v[N], chain, "header", rng)
  <2>1. PICK v : CleanRun(st, chain, rng, t, v)
    BY <1>1, CleanSteps
  <2> QED BY <1>1, <1>3, <2>1 DEF CleanRun
<1> HIDE DEF order, N, new
<1>5. 0 \in 0..N /\ N \in 0..N
  BY <1>2, SMTT(30)
<1>6. \A n \in 0..N : v[n] \in Sound
  BY <1>4 DEF CutOf
<1>7. new \in CutOf(v[N], chain, rng) /\ Leaves(v[N], chain, "header", rng, new)
  <2>1. v[N] \in Sound /\ "header" \in CleanedKinds
    BY <1>5, <1>6 DEF CleanedKinds
  <2> QED BY <1>4, <2>1, RowsDeletedStore
<1>8. r \notin new.rows
  <2> SUFFICES ASSUME r \in new.rows PROVE FALSE
    OBVIOUS
  <2>1. r \in v[N].rows /\ v[N] \in Sound
    BY <1>5, <1>6, <1>7 DEF Leaves
  <2>2. Header(r.block) \in v[N].rows /\ Header(r.block) \in Ancestors(r)
    BY <2>1, HeaderOfStore
  <2>3. Header(r.block).kind = "header" /\ Header(r.block).block = r.block
    BY RowFields DEF Header
  <2>4. Header(r.block) \in Selected(v[N], chain, "header", rng)
    BY <2>2, <2>3 DEF Selected
  <2> QED BY <1>7, <2>2, <2>4 DEF Leaves
<1>9. ASSUME MhKey(r) # NoKey PROVE MhKey(r) \notin new.ipld
  <2>1. r.block \in Blocks /\ r \in RowsOf(r.block)
    BY HeaderOfStore
  <2>2. PICK i \in 1..N : order[i] = r.kind
    <3> DEFINE b == r.block
    <3>1. b \in ChainBlocks(chain) /\ r \in RowsOf(b)
      BY <2>1
    <3> HIDE DEF b
    <3> QED BY <1>9, <3>1, HasItsTurn DEF order, N
  <2> DEFINE P == {n \in 0..N : MhKey(r) \notin v[n].ipld \/ (r \in v[n].rows /\ n < i)}
  <2>3. 0 \in P
    <3>1. 0 < i
      BY <1>2, SMTT(30)
    <3> QED BY <1>4, <1>5, <3>1
  <2>4. ASSUME NEW n \in 1..N, n - 1 \in P PROVE n \in P
    <3> DEFINE old == v[n - 1]
               now == v[n]
    <3>0. n \in 0..N /\ n - 1 \in 0..N /\ n \in Int /\ i \in Int
      BY <1>2, SMTT(30)
    <3>1. old \in Sound /\ now = IPLDsDeleted(old, chain, order[n], rng)
      BY <1>4, <1>6, <3>0
    <3>2. now \in CutOf(old, chain, rng) /\ Deletes(old, chain, order[n], rng, now)
      BY <1>2, <3>1, IPLDsDeletedStore
    <3>3. MhKey(r) \notin old.ipld \/ (r \in old.rows /\ n - 1 < i)
      BY <2>4
    <3> HIDE DEF old, now
    <3>4. CASE MhKey(r) \notin old.ipld
      <4>1. MhKey(r) \notin now.ipld
        BY <3>2, <3>4 DEF CutOf
      <4> QED BY <3>0, <4>1 DEF now
    <3>5. CASE r \in old.rows /\ n - 1 < i
      <4>1. CASE n = i
        <5>1. r \in Selected(old, chain, order[n], rng)
          BY <2>2, <3>5, <4>1 DEF Selected
        <5>2. MhKey(r) \notin now.ipld
          BY <3>2, <5>1 DEF Deletes
        <5> QED BY <3>0, <5>2 DEF now
      <4>2. CASE n < i
        <5>1. r \in now.rows \/ MhKey(r) \notin now.ipld
          BY <1>9, <2>2, <3>1, <3>2, <3>5, <4>2, BeforeItsTurn DEF order, N
        <5> QED BY <3>0, <4>2, <5>1 DEF now
      <4>3. n = i \/ n < i
        BY <3>0, <3>5, SMTT(30)
      <4> QED BY <4>1, <4>2, <4>3
    <3> QED BY <3>3, <3>4, <3>5
  <2>5. N \in P
    <3> HIDE DEF P
    <3> QED BY <1>2, <1>5, <2>3, <2>4, Stepwise
  <2>6. ~(N < i)
    BY <1>2, SMTT(30)
  <2>7. MhKey(r) \notin v[N].ipld
    BY <2>5, <2>6
  <2> QED BY <1>7, <2>7 DEF CutOf
<1>10. ASSUME MhKey(r) = NoKey PROVE MhKey(r) \notin new.ipld
  <2>1. new \in AllStores
    BY <1>7 DEF CutOf, Sound
  <2>2. new.ipld \subseteq AllKeys
    BY <2>1, StoreFields
  <2> QED BY <1>10, <2>2 DEF AllKeys, KeysOf
<1> QED BY <1>8, <1>9, <1>10 DEF new

\* A clean of one range.
LEMMA CleanedOnce ==
    ASSUME NEW chain \in {"eth", "btc"}, NEW t \in IF chain = "eth" THEN EthTypes ELSE BtcTypes,
           NEW st \in Sound, NEW R, NEW rngs \in Seq(R), Len(rngs) = 1
    PROVE  Cleaned(st, chain, rngs, t) = clean(st, chain, rngs[1], t)
<1>1. PICK v : CleanedRun(st, chain, rngs, t, v)
  BY CleanedSteps
<1>2. /\ v[0] = st /\ \A n \in 1..1 : v[n] = clean(v[n - 1], chain, rngs[n], t)
      /\ Cleaned(st, chain, rngs, t) = v[1]
  BY <1>1 DEF CleanedRun
<1>3. 1 \in 1..1 /\ 1 - 1 = 0
  BY SMTT(30)
<1>4. v[1] = clean(v[1 - 1], chain, rngs[1], t)
  BY <1>2, <1>3
<1> QED BY <1>2, <1>3, <1>4
=============================================================================
