------------------------- MODULE WatcherSyncProofs --------------------------
(***************************************************************************)
(* The head sync for any number of workers, capacities of the channels,    *)
(* blocks and errors: its types, that no block is streamed twice, that the *)
(* process ends between payloads, that every payload is in exactly one     *)
(* place, and that the queue keeps the newest ones in the node's order.    *)
(***************************************************************************)
EXTENDS WatcherSync, WellFoundedInduction, TLAPS

\* The time allowed to a prover for a leaf: Zenon, unless the leaf asks for the
\* SMT solver.
USE ZenonT(30)

(***************************************************************************)
(* Channels.                                                               *)
(***************************************************************************)
\* What a receive leaves in a channel.
LEMMA Received ==
    ASSUME NEW S, NEW s \in Seq(S), s # <<>>
    PROVE  /\ Tail(s) \in Seq(S) /\ Len(Tail(s)) = Len(s) - 1
           /\ Head(s) \in S /\ Head(s) \in Range(s)
           /\ IsInjective(s) => IsInjective(Tail(s)) /\ Range(Tail(s)) = Range(s) \ {Head(s)}
<1>1. /\ Len(s) \in Nat \ {0} /\ DOMAIN s = 1..Len(s)
      /\ Head(s) = s[1] /\ Head(s) \in S
      /\ Tail(s) \in Seq(S) /\ Len(Tail(s)) = Len(s) - 1
      /\ \A i \in 1..(Len(s) - 1) : Tail(s)[i] = s[i + 1]
  BY SMTT(30)
<1>2. DOMAIN Tail(s) = 1..(Len(s) - 1)
  BY <1>1, SMTT(30)
<1>3. ASSUME IsInjective(s)
      PROVE  IsInjective(Tail(s)) /\ Range(Tail(s)) = Range(s) \ {Head(s)}
  <2>1. IsInjective(Tail(s))
    BY <1>1, <1>2, <1>3, SMTT(30) DEF IsInjective
  <2>2. Range(Tail(s)) \subseteq Range(s) \ {Head(s)}
    BY <1>1, <1>2, <1>3, SMTT(30) DEF IsInjective, Range
  <2>3. ASSUME NEW i \in 1..Len(s), s[i] # s[1] PROVE s[i] \in Range(Tail(s))
    <3>1. i - 1 \in 1..(Len(s) - 1) /\ Tail(s)[i - 1] = s[i]
      BY <1>1, <2>3, SMTT(30)
    <3> QED BY <3>1, <1>2 DEF Range
  <2> QED BY <2>1, <2>2, <2>3, <1>1, SMTT(30) DEF Range
<1> QED BY <1>1, <1>3, SMTT(30) DEF Range

\* What a send leaves in a channel.
LEMMA Sent ==
    ASSUME NEW S, NEW s \in Seq(S), NEW t \in Seq(S)
    PROVE  /\ s \o t \in Seq(S) /\ Len(s \o t) = Len(s) + Len(t)
           /\ Range(s \o t) = Range(s) \cup Range(t)
           /\ IsInjective(s) /\ IsInjective(t) /\ Range(s) \cap Range(t) = {}
                => IsInjective(s \o t)
<1>1. /\ s \o t \in Seq(S) /\ Len(s \o t) = Len(s) + Len(t)
      /\ Len(s) \in Nat /\ Len(t) \in Nat
      /\ DOMAIN s = 1..Len(s) /\ DOMAIN t = 1..Len(t)
      /\ \A i \in 1..(Len(s) + Len(t)) :
           (s \o t)[i] = IF i <= Len(s) THEN s[i] ELSE t[i - Len(s)]
  BY SMTT(30)
<1>2. DOMAIN (s \o t) = 1..(Len(s) + Len(t))
  BY <1>1, SMTT(30)
<1> DEFINE u == s \o t
<1>3. \A i \in 1..(Len(s) + Len(t)) :
        \/ i \in 1..Len(s) /\ u[i] = s[i]
        \/ i - Len(s) \in 1..Len(t) /\ u[i] = t[i - Len(s)]
  BY <1>1, SMTT(30)
<1>4. \A i \in 1..Len(s) : i \in 1..(Len(s) + Len(t)) /\ u[i] = s[i]
  BY <1>1, SMTT(30)
<1>5. \A i \in 1..Len(t) : Len(s) + i \in 1..(Len(s) + Len(t)) /\ u[Len(s) + i] = t[i]
  BY <1>1, SMTT(30)
<1> HIDE DEF u
<1>6. Range(u) = Range(s) \cup Range(t)
  <2>1. Range(u) \subseteq Range(s) \cup Range(t)
    <3> SUFFICES ASSUME NEW i \in 1..(Len(s) + Len(t))
                 PROVE  u[i] \in Range(s) \cup Range(t)
      BY <1>2 DEF Range, u
    <3>1. CASE i \in 1..Len(s) /\ u[i] = s[i]
      BY <3>1, <1>1 DEF Range
    <3>2. CASE i - Len(s) \in 1..Len(t) /\ u[i] = t[i - Len(s)]
      BY <3>2, <1>1 DEF Range
    <3> QED BY <3>1, <3>2, <1>3
  <2>2. Range(s) \subseteq Range(u)
    BY <1>1, <1>2, <1>4 DEF Range, u
  <2>3. Range(t) \subseteq Range(u)
    <3> SUFFICES ASSUME NEW i \in 1..Len(t) PROVE t[i] \in Range(u)
      BY <1>1 DEF Range
    <3>1. Len(s) + i \in DOMAIN u /\ u[Len(s) + i] = t[i]
      BY <1>2, <1>5 DEF u
    <3> QED BY <3>1 DEF Range
  <2> QED BY <2>1, <2>2, <2>3
<1>7. ASSUME IsInjective(s), IsInjective(t), Range(s) \cap Range(t) = {}
      PROVE  IsInjective(u)
  <2> SUFFICES ASSUME NEW i \in 1..(Len(s) + Len(t)), NEW j \in 1..(Len(s) + Len(t)),
                      u[i] = u[j]
               PROVE  i = j
    BY <1>2 DEF IsInjective, u
  <2>1. \A x \in 1..Len(s), y \in 1..Len(t) : s[x] # t[y]
    BY <1>7, <1>1 DEF Range
  <2>2. \A x, y \in 1..Len(s) : s[x] = s[y] => x = y
    BY <1>7, <1>1 DEF IsInjective
  <2>3. \A x, y \in 1..Len(t) : t[x] = t[y] => x = y
    BY <1>7, <1>1 DEF IsInjective
  <2>4. i - Len(s) = j - Len(s) => i = j
    BY <1>1, SMTT(30)
  <2> QED BY <1>3, <2>1, <2>2, <2>3, <2>4
<1> QED BY <1>1, <1>6, <1>7 DEF u

\* A channel with one payload in it, and an empty one.
LEMMA Single ==
    /\ \A S : \A x \in S : <<x>> \in Seq(S)
    /\ \A x : Len(<<x>>) = 1 /\ Head(<<x>>) = x /\ Range(<<x>>) = {x}
              /\ IsInjective(<<x>>) /\ <<x>> # <<>>
    /\ \A S : <<>> \in Seq(S)
    /\ Len(<<>>) = 0 /\ Range(<<>>) = {} /\ IsInjective(<<>>)
BY SMTT(30) DEF Range, IsInjective

\* A goroutine holds at most one payload.
LEMMA AtMostOne ==
    ASSUME NEW S, NEW s \in Seq(S), Len(s) <= 1
    PROVE  s = <<>> \/ (s # <<>> /\ s = <<Head(s)>> /\ Head(s) \in S /\ Range(s) = {Head(s)})
<1>1. CASE s = <<>>
  BY <1>1
<1>2. CASE s # <<>>
  <2>1. Len(s) = 1 /\ Head(s) = s[1] /\ Head(s) \in S
    <3>1. Len(s) \in Nat \ {0} /\ DOMAIN s = 1..Len(s)
      BY <1>2, SMTT(30)
    <3>2. Head(s) = s[1] /\ Head(s) \in S
      BY <1>2, SMTT(30)
    <3> QED BY <3>1, <3>2, SMTT(30)
  <2>2. s = <<Head(s)>>
    <3>1. <<Head(s)>> \in Seq(S) /\ Len(<<Head(s)>>) = 1 /\ <<Head(s)>>[1] = Head(s)
      BY <2>1, SMTT(30)
    <3>2. \A i \in 1..Len(s) : s[i] = <<Head(s)>>[i]
      BY <2>1, <3>1, SMTT(30)
    <3> QED BY <2>1, <3>1, <3>2, SMTT(30)
  <2> QED BY <2>1, <2>2, <1>2, Single
<1> QED BY <1>1, <1>2

-----------------------------------------------------------------------------
(***************************************************************************)
(* The polling goroutine never streams a block twice.                      *)
(***************************************************************************)
\* The block fetched last is the n-th head of the node (0: none), what has been
\* streamed came before it, and what is about to be fetched comes after it.
FetchedUpTo(n) ==
    /\ lastHash = IF n = 0 THEN <<>> ELSE <<mined[n]>>
    /\ \A k \in Range(streamed) : \E i \in 1..n : k = mined[i]
    /\ poll.at \in {"hash", "block"} /\ n > 0 => mined[n][1] <= poll.height
    /\ poll.at = "block" => \E m \in (n + 1)..Len(mined) : poll.block = <<mined[m]>>

\* The heads of the node differ and their heights never fall.
ChainInv ==
    /\ source \in Sources
    /\ mined \in Seq(Keys) /\ lastHash \in Seq(Keys) /\ streamed \in Seq(Keys)
    /\ poll \in [at : {"tick", "hash", "block", "error"}, height : Heights,
                 block : Seq(Keys)]
    /\ source = "btc" =>
         /\ mined # <<>> /\ IsInjective(mined)
         /\ \A i, j \in DOMAIN mined : i <= j => mined[i][1] <= mined[j][1]
         /\ poll.at = "hash" => \E i \in DOMAIN mined : mined[i][1] = poll.height
         /\ \E n \in 0..Len(mined) : FetchedUpTo(n)

\* Positions in a sequence have a last one: the distances from the end are natural
\* numbers, of which one is the least.
LEMMA LastOf ==
    ASSUME NEW n \in Nat, NEW T, T \subseteq 1..n, T # {}
    PROVE  \E x \in T : \A y \in T : y <= x
<1> DEFINE R == {ss \in Nat \X Nat : ss[1] < ss[2]}
           U == {n - x : x \in T}
<1>1. IsWellFoundedOn(R, Nat)
  BY NatLessThanWellFounded DEF OpToRel
<1>2. U \subseteq Nat /\ U # {}
  <2>1. ASSUME NEW x \in T PROVE n - x \in Nat
    <3>1. x \in 1..n
      OBVIOUS
    <3> QED BY <3>1, SMTT(30)
  <2> QED BY <2>1
<1>3. ASSUME NEW u \in U, NEW v \in U, v < u PROVE <<v, u>> \in R
  <2> HIDE DEF U
  <2> QED BY <1>2, <1>3
<1>4. \E u \in U : \A v \in U : ~(<<v, u>> \in R)
  <2> HIDE DEF R, U
  <2> QED BY <1>1, <1>2, WFMin
<1>5. PICK u \in U : \A v \in U : ~(v < u)
  <2> HIDE DEF R, U
  <2> QED BY <1>3, <1>4
<1>6. PICK x \in T : u = n - x
  OBVIOUS
<1>7. ASSUME NEW y \in T PROVE y <= x
  <2>1. x \in 1..n /\ y \in 1..n
    OBVIOUS
  <2>2. ~(n - y < n - x)
    BY <1>5, <1>6
  <2> QED BY <2>1, <2>2, SMTT(30)
<1> QED BY <1>7

\* The node's block at a height it has reached.
LEMMA BlockAtHeight ==
    ASSUME mined \in Seq(Keys), NEW h, \E i \in DOMAIN mined : mined[i][1] = h
    PROVE  \E i \in DOMAIN mined :
             /\ BlockAt(h) = mined[i] /\ mined[i][1] = h
             /\ \A j \in DOMAIN mined : mined[j][1] = h => j <= i
<1> DEFINE T == {i \in DOMAIN mined : mined[i][1] = h}
<1>1. DOMAIN mined = 1..Len(mined) /\ Len(mined) \in Nat
  BY SMTT(30)
<1>2. T \subseteq 1..Len(mined) /\ T # {}
  BY <1>1
<1>3. \E x \in T : \A y \in T : y <= x
  <2> HIDE DEF T
  <2> QED BY <1>1, <1>2, LastOf
<1>4. \E i \in DOMAIN mined :
        mined[i][1] = h /\ \A j \in DOMAIN mined : mined[j][1] = h => j <= i
  BY <1>3
<1> QED BY <1>4 DEF BlockAt

\* Nothing has been polled.
LEMMA InitChain == Init => ChainInv
<1> SUFFICES ASSUME Init PROVE ChainInv
  OBVIOUS
<1>1. poll = NoPoll("tick") /\ lastHash = <<>> /\ streamed = <<>> /\ source \in Sources
  BY DEF Init
<1>2. 0 \in Heights
  BY HeaderIndexAssumption, SMTT(30) DEF Heights
<1>3. CASE source # "btc"
  BY <1>1, <1>2, <1>3, SMTT(30) DEF Init, ChainInv, NoPoll
<1>4. CASE source = "btc"
  <2>1. PICK h \in Hashes : mined = <<<<0, h>>>>
    BY <1>4 DEF Init
  <2>2. /\ mined \in Seq(Keys) /\ mined # <<>> /\ Len(mined) = 1 /\ DOMAIN mined = {1}
        /\ mined[1][1] = 0
    BY <2>1, <1>2, SMTT(30) DEF Keys
  <2>3. FetchedUpTo(0)
    BY <1>1, SMTT(30) DEF FetchedUpTo, NoPoll, Range
  <2>4. IsInjective(mined) /\ \A i, j \in DOMAIN mined : i <= j => mined[i][1] <= mined[j][1]
    BY <2>2, SMTT(30) DEF IsInjective
  <2>5. 0 \in 0..Len(mined)
    BY <2>2, SMTT(30)
  <2> QED BY <1>1, <1>2, <2>2, <2>3, <2>4, <2>5, SMTT(30) DEF ChainInv, NoPoll
<1> QED BY <1>3, <1>4

\* Only the node and the polling goroutine change what ChainInv is about.
LEMMA ChainUnchanged ==
    ASSUME ChainInv, UNCHANGED <<bitcoin, streamed>>
    PROVE  ChainInv'
<1>1. \A n : FetchedUpTo(n)' = FetchedUpTo(n)
  BY DEF FetchedUpTo, bitcoin
<1> QED BY <1>1 DEF ChainInv, bitcoin

\* The node has a new head.
LEMMA NodeMinesChain ==
    ASSUME ChainInv, NEW k \in Keys, NodeMines(k)
    PROVE  ChainInv'
<1>1. /\ source = "btc" /\ k \notin Range(mined) /\ k[1] - mined[Len(mined)][1] \in {0, 1}
      /\ mined' = Append(mined, k) /\ UNCHANGED <<source, poll, lastHash, streamed>>
  BY DEF NodeMines
<1> DEFINE L == Len(mined)
<1>2. L \in Nat \ {0} /\ DOMAIN mined = 1..L /\ mined \in Seq(Keys)
  BY <1>1, SMTT(30) DEF ChainInv
<1>3. /\ mined' \in Seq(Keys) /\ mined' # <<>> /\ Len(mined') = L + 1
      /\ DOMAIN mined' = 1..(L + 1)
      /\ mined'[L + 1] = k /\ \A i \in 1..L : mined'[i] = mined[i]
  BY <1>1, <1>2, SMTT(30)
<1>4. \A i \in 1..L : mined[i] # k
  BY <1>1, <1>2 DEF Range
<1>5. IsInjective(mined)'
  <2>1. \A i, j \in 1..L : mined[i] = mined[j] => i = j
    BY <1>1, <1>2 DEF ChainInv, IsInjective
  <2>2. \A i, j \in 1..(L + 1) : mined'[i] = mined'[j] => i = j
    <3> HIDE DEF L
    <3> QED BY <1>2, <1>3, <1>4, <2>1, SMTT(30)
  <2> QED BY <1>3, <2>2 DEF IsInjective
<1>6. \A i, j \in 1..(L + 1) : i <= j => mined'[i][1] <= mined'[j][1]
  <2>1. \A i \in 1..L : mined[i][1] \in Int
    BY <1>2, SMTT(30) DEF Keys, Heights
  <2>2. k[1] \in Int /\ mined[L][1] <= k[1]
    BY <1>1, <1>2, <2>1, SMTT(30) DEF Keys, Heights
  <2>3. \A i, j \in 1..L : i <= j => mined[i][1] <= mined[j][1]
    BY <1>1, <1>2 DEF ChainInv
  <2>4. \A i \in 1..L : mined[i][1] <= k[1]
    BY <1>2, <2>1, <2>2, <2>3, SMTT(30)
  <2> HIDE DEF L
  <2> QED BY <1>2, <1>3, <2>2, <2>3, <2>4, SMTT(30)
<1>7. PICK n \in 0..L : FetchedUpTo(n)
  BY <1>1 DEF ChainInv
<1>8. FetchedUpTo(n)' /\ n \in 0..(L + 1)
  <2>1. \A i \in 1..n : i \in 1..L
    BY <1>2, SMTT(30)
  <2>2. n # 0 => mined'[n] = mined[n]
    BY <1>2, <1>3, SMTT(30)
  <2>3. n \in 0..(L + 1) /\ \A m \in (n + 1)..L : m \in 1..L /\ m \in (n + 1)..(L + 1)
    BY <1>2, SMTT(30)
  <2> HIDE DEF L
  <2>4. lastHash' = IF n = 0 THEN <<>> ELSE <<mined'[n]>>
    BY <1>1, <1>7, <2>2 DEF FetchedUpTo
  <2>5. \A x \in Range(streamed') : \E i \in 1..n : x = mined'[i]
    BY <1>1, <1>3, <1>7, <2>1 DEF FetchedUpTo
  <2>6. poll'.at \in {"hash", "block"} /\ n > 0 => mined'[n][1] <= poll'.height
    BY <1>1, <1>2, <1>7, <2>2, SMTT(30) DEF FetchedUpTo
  <2>7. poll'.at = "block" =>
          \E m \in (n + 1)..Len(mined') : poll'.block = <<mined'[m]>>
    BY <1>1, <1>3, <1>7, <2>3 DEF FetchedUpTo, L
  <2> QED BY <2>3, <2>4, <2>5, <2>6, <2>7 DEF FetchedUpTo
<1>9. poll.at = "hash" => \E i \in DOMAIN mined' : mined'[i][1] = poll.height
  <2>1. \A i \in 1..L : i \in 1..(L + 1)
    BY <1>2, SMTT(30)
  <2> QED BY <1>1, <1>2, <1>3, <2>1 DEF ChainInv
<1> QED BY <1>1, <1>3, <1>5, <1>6, <1>8, <1>9 DEF ChainInv

\* The polling goroutine starts over, after an error or with nothing new.
LEMMA PollAgainChain ==
    ASSUME ChainInv, NEW at \in {"tick", "error"}, poll' = NoPoll(at),
           UNCHANGED <<source, mined, lastHash, streamed>>
    PROVE  ChainInv'
<1>1. poll'.at \notin {"hash", "block"}
  BY DEF NoPoll
<1>2. poll' \in [at : {"tick", "hash", "block", "error"}, height : Heights, block : Seq(Keys)]
  BY HeaderIndexAssumption, SMTT(30) DEF NoPoll, Heights
<1>3. \A n : FetchedUpTo(n) => FetchedUpTo(n)'
  BY <1>1 DEF FetchedUpTo
<1> QED BY <1>1, <1>2, <1>3 DEF ChainInv

\* The height of the head is asked for.
LEMMA PollCountChain == ASSUME ChainInv, PollCount PROVE ChainInv'
<1>1. /\ source = "btc" /\ UNCHANGED <<source, mined, lastHash, streamed>>
      /\ poll' = [at |-> "hash", height |-> mined[Len(mined)][1], block |-> <<>>]
  BY DEF PollCount, Polls
<1> DEFINE L == Len(mined)
<1>2. L \in Nat \ {0} /\ DOMAIN mined = 1..L /\ mined \in Seq(Keys)
  BY <1>1, SMTT(30) DEF ChainInv
<1>3. mined[L] \in Keys /\ L \in 1..L
  BY <1>2, SMTT(30)
<1>4. mined[L][1] \in Heights
  BY <1>3 DEF Keys
<1>5. PICK n \in 0..L : FetchedUpTo(n)
  BY <1>1 DEF ChainInv
<1>6. n > 0 => mined[n][1] <= mined[L][1]
  <2>1. n > 0 => n \in 1..L /\ n <= L
    BY <1>2, SMTT(30)
  <2>2. \A i, j \in 1..L : i <= j => mined[i][1] <= mined[j][1]
    BY <1>1, <1>2 DEF ChainInv
  <2> QED BY <1>3, <2>1, <2>2
<1>7. FetchedUpTo(n)'
  <2> HIDE DEF L
  <2> QED BY <1>1, <1>5, <1>6 DEF FetchedUpTo, L
<1> QED BY <1>1, <1>2, <1>3, <1>4, <1>5, <1>7, SMTT(30) DEF ChainInv

\* The hash at that height is that of a block that has not been fetched yet.
LEMMA PollHashChain == ASSUME ChainInv, PollHash PROVE ChainInv'
<1>1. /\ source = "btc" /\ poll.at = "hash" /\ UNCHANGED <<source, mined, lastHash, streamed>>
      /\ poll' = IF <<BlockAt(poll.height)>> = lastHash THEN NoPoll("tick")
                 ELSE [poll EXCEPT !.at = "block", !.block = <<BlockAt(poll.height)>>]
  BY DEF PollHash, Polls
<1>2. CASE <<BlockAt(poll.height)>> = lastHash
  BY <1>1, <1>2, PollAgainChain
<1>3. CASE <<BlockAt(poll.height)>> # lastHash
  <2>0. Len(mined) \in Nat /\ DOMAIN mined = 1..Len(mined) /\ mined \in Seq(Keys)
    BY SMTT(30) DEF ChainInv
  <2>1. PICK i \in DOMAIN mined :
          /\ BlockAt(poll.height) = mined[i] /\ mined[i][1] = poll.height
          /\ \A j \in DOMAIN mined : mined[j][1] = poll.height => j <= i
    BY <1>1, BlockAtHeight DEF ChainInv
  <2>2. PICK n \in 0..Len(mined) : FetchedUpTo(n)
    BY <1>1 DEF ChainInv
  <2>3. mined[i] \in Keys /\ poll.height \in Int /\ i \in 1..Len(mined)
    BY <2>0, SMTT(30) DEF ChainInv, Heights
  <2>4. i \in (n + 1)..Len(mined)
    <3>1. CASE n = 0
      BY <2>0, <2>3, <3>1, SMTT(30)
    <3>2. CASE n # 0
      <4>1. mined[n] # mined[i] /\ mined[n][1] <= poll.height /\ n \in DOMAIN mined
        BY <1>1, <1>3, <2>0, <2>1, <2>2, <3>2, SMTT(30) DEF FetchedUpTo
      <4>2. mined[n][1] \in Int
        BY <4>1, <2>0, SMTT(30) DEF Keys, Heights
      <4>3. i <= n => poll.height <= mined[n][1]
        BY <1>1, <2>1, <4>1 DEF ChainInv
      <4>4. i <= n => mined[n][1] = poll.height
        BY <4>1, <4>2, <4>3, <2>3, SMTT(30)
      <4>5. i <= n => n <= i
        BY <4>1, <4>4, <2>1
      <4>6. ~(i <= n)
        BY <4>1, <4>5, <2>0, SMTT(30)
      <4> QED BY <4>6, <2>0, SMTT(30)
    <3> QED BY <3>1, <3>2
  <2>5. /\ poll' \in [at : {"tick", "hash", "block", "error"}, height : Heights, block : Seq(Keys)]
        /\ poll'.at = "block" /\ poll'.height = poll.height /\ poll'.block = <<mined[i]>>
    <3>1. poll \in [at : {"tick", "hash", "block", "error"}, height : Heights,
                     block : Seq(Keys)]
      BY DEF ChainInv
    <3>2. poll' = [poll EXCEPT !.at = "block", !.block = <<mined[i]>>]
      BY <1>1, <1>3, <2>1
    <3>3. <<mined[i]>> \in Seq(Keys)
      BY <2>3, SMTT(30)
    <3> QED BY <3>1, <3>2, <3>3
  <2>6. FetchedUpTo(n)'
    BY <1>1, <2>2, <2>4, <2>5 DEF FetchedUpTo
  <2> QED BY <1>1, <2>2, <2>5, <2>6 DEF ChainInv
<1> QED BY <1>2, <1>3

\* The block is fetched; it is a new one.
LEMMA PollBlockChain ==
    ASSUME ChainInv, PollBlock
    PROVE  /\ ChainInv'
           /\ \E k \in Keys : poll.block = <<k>> /\ k \notin Range(streamed)
<1>1. /\ source = "btc" /\ poll.at = "block" /\ UNCHANGED <<source, mined>>
      /\ lastHash' = poll.block /\ streamed' = streamed \o poll.block /\ poll' = NoPoll("tick")
  BY DEF PollBlock, Polls
<1>2. Len(mined) \in Nat /\ DOMAIN mined = 1..Len(mined) /\ mined \in Seq(Keys)
  BY SMTT(30) DEF ChainInv
<1>3. PICK n \in 0..Len(mined) : FetchedUpTo(n)
  BY <1>1 DEF ChainInv
<1>4. PICK m \in (n + 1)..Len(mined) : poll.block = <<mined[m]>>
  BY <1>1, <1>3 DEF FetchedUpTo
<1>5. m \in 1..Len(mined) /\ mined[m] \in Keys /\ m # 0
  BY <1>2, SMTT(30)
<1>6. mined[m] \notin Range(streamed)
  <2>1. \A i \in 1..n : i \in 1..Len(mined) /\ i # m
    BY <1>2, SMTT(30)
  <2>2. \A i, j \in 1..Len(mined) : mined[i] = mined[j] => i = j
    BY <1>1, <1>2 DEF ChainInv, IsInjective
  <2> QED BY <1>3, <1>5, <2>1, <2>2 DEF FetchedUpTo
<1>7. streamed' \in Seq(Keys) /\ Range(streamed') = Range(streamed) \cup {mined[m]}
  <2>1. /\ streamed \in Seq(Keys) /\ streamed' = streamed \o poll.block
        /\ poll.block \in Seq(Keys) /\ Range(poll.block) = {mined[m]}
    BY <1>1, <1>4, <1>5, Single DEF ChainInv
  <2> QED BY <2>1, Sent, SMTT(30)
<1>8. FetchedUpTo(m)'
  <2>1. \A i \in 1..n : i \in 1..m
    BY <1>2, SMTT(30)
  <2>2. m \in 1..m
    BY <1>5, SMTT(30)
  <2>3. \A k \in Range(streamed') : \E i \in 1..m : k = mined[i]
    BY <1>3, <1>7, <2>1, <2>2 DEF FetchedUpTo
  <2>4. poll'.at = "tick"
    BY <1>1 DEF NoPoll
  <2> QED BY <1>1, <1>4, <1>5, <2>3, <2>4 DEF FetchedUpTo
<1>9. /\ poll' \in [at : {"tick", "hash", "block", "error"}, height : Heights, block : Seq(Keys)]
      /\ poll'.at = "tick"
  BY <1>1, HeaderIndexAssumption, SMTT(30) DEF NoPoll, Heights
<1>10. lastHash' \in Seq(Keys) /\ m \in 0..Len(mined)
  BY <1>1, <1>2, <1>4, <1>5, SMTT(30)
<1> QED BY <1>1, <1>4, <1>5, <1>6, <1>7, <1>8, <1>9, <1>10 DEF ChainInv

-----------------------------------------------------------------------------
(***************************************************************************)
(* Types, and what each goroutine holds where.                             *)
(***************************************************************************)
\* The node's side of the channels.
InputOK ==
    /\ Len(lastHash) <= 1 /\ sub \in {"live", "failing", "failed"}
    /\ stateDiff \in Seq(Keys) /\ Len(stateDiff) <= StreamCap
    /\ relay \in Seq(Keys) /\ Len(relay) <= 1
    /\ payloads \in Seq(Keys) /\ Len(payloads) <= StreamCap

\* The Sync goroutine holds a payload exactly between receiving and queueing it.
SyncOK ==
    /\ pc \in {"spawned", "select", "forward", "queue", "evict", "requeue", "returned"}
    /\ cur \in Seq(Keys) /\ Len(cur) <= 1
    /\ cur = <<>> <=> pc \in {"spawned", "select", "returned"}
    /\ queue \in Seq(Keys) /\ Len(queue) <= QueueCap
    /\ serve \in Seq(Keys) /\ Len(serve) <= ServeCap

\* A worker holds a payload exactly while it publishes or indexes, and counts in
\* the WaitGroup from its start to its return; the process ends when none does.
PoolOK ==
    /\ worker \in [Workers -> {"spawned", "select", "publish", "index", "gone"}]
    /\ job \in [Workers -> Seq(Keys)]
    /\ wg \subseteq Workers \cup {Main}
    /\ proc \in {"up", "stopping", "exited"}
    /\ \A w \in Workers :
         /\ Len(job[w]) <= 1
         /\ job[w] = <<>> <=> worker[w] \notin {"publish", "index"}
         /\ worker[w] \in {"select", "publish", "index"} => w \in wg /\ proc # "exited"

FatesOK == /\ evicted \subseteq Keys /\ failed \subseteq Keys /\ done \subseteq Keys
           /\ faults \in 0..MaxFaults

SyncInv == ChainInv /\ TableTypeOK /\ InputOK /\ SyncOK /\ PoolOK /\ FatesOK

\* Indexing a header keeps the type of the table.
LEMMA IndexHeaderType ==
    ASSUME TableTypeOK, NEW r \in Keys, IndexHeader(r) PROVE TableTypeOK'
<1>1. tv[r] \in 0..MaxValidated
  BY DEF TableTypeOK
<1>2. (IF tv[r] < MaxValidated THEN tv[r] + 1 ELSE tv[r]) \in 0..MaxValidated
  BY <1>1, HeaderIndexAssumption, SMTT(30)
<1> QED BY <1>2 DEF TableTypeOK, IndexHeader

\* A type is kept by what leaves its variables alone.
LEMMA Untouched ==
    /\ TableTypeOK /\ UNCHANGED table => TableTypeOK'
    /\ InputOK /\ UNCHANGED <<lastHash, sub, stateDiff, relay, payloads>> => InputOK'
    /\ SyncOK /\ UNCHANGED <<pc, cur, queue, serve>> => SyncOK'
    /\ PoolOK /\ UNCHANGED <<pool, wg, proc>> => PoolOK'
    /\ FatesOK /\ UNCHANGED <<fates, faults>> => FatesOK'
<1>1. TableTypeOK /\ UNCHANGED table => TableTypeOK'
  BY DEF TableTypeOK, table
<1>2. InputOK /\ UNCHANGED <<lastHash, sub, stateDiff, relay, payloads>> => InputOK'
  BY DEF InputOK
<1>3. SyncOK /\ UNCHANGED <<pc, cur, queue, serve>> => SyncOK'
  BY DEF SyncOK
<1>4. PoolOK /\ UNCHANGED <<pool, wg, proc>> => PoolOK'
  BY DEF PoolOK, pool
<1>5. FatesOK /\ UNCHANGED <<fates, faults>> => FatesOK'
  BY DEF FatesOK, fates
<1> QED BY <1>1, <1>2, <1>3, <1>4, <1>5

LEMMA InitSyncInv == Init => SyncInv
<1> SUFFICES ASSUME Init PROVE SyncInv
  OBVIOUS
<1> USE WatcherSyncAssumption, HeaderIndexAssumption
<1>1. ChainInv
  BY InitChain
<1>2. TableTypeOK
  <2>1. 0 \in 0..MaxValidated
    BY SMTT(30)
  <2> QED BY <2>1 DEF Init, EmptyTable, TableTypeOK
<1>3. InputOK
  BY SMTT(30) DEF Init, InputOK
<1>4. SyncOK
  BY SMTT(30) DEF Init, SyncOK
<1>5. PoolOK
  BY SMTT(30) DEF Init, PoolOK
<1>6. FatesOK
  BY SMTT(30) DEF Init, FatesOK
<1> QED BY <1>1, <1>2, <1>3, <1>4, <1>5, <1>6 DEF SyncInv

\* The steps of the nodes and of the goroutines of the streamers.
LEMMA InputSyncInv ==
    ASSUME SyncInv,
           \/ \E k \in Keys : NodeStreams(k) \/ NodeMines(k)
           \/ NodeFails \/ Relay \/ Poll \/ PollFails
    PROVE  SyncInv'
<1> USE WatcherSyncAssumption
<1>1. ASSUME NEW k \in Keys, NodeStreams(k) PROVE SyncInv'
  <2>1. /\ source = "eth" /\ Len(stateDiff) < StreamCap
        /\ streamed' = Append(streamed, k) /\ stateDiff' = Append(stateDiff, k)
        /\ UNCHANGED <<table, bitcoin, sub, relay, payloads, pc, cur, queue, serve,
                       pool, wg, proc, fates, faults>>
    BY <1>1 DEF NodeStreams
  <2>2. streamed' \in Seq(Keys) /\ stateDiff' \in Seq(Keys) /\ Len(stateDiff') <= StreamCap
    <3>1. streamed \in Seq(Keys) /\ stateDiff \in Seq(Keys)
      BY DEF SyncInv, ChainInv, InputOK
    <3>2. /\ Append(streamed, k) \in Seq(Keys) /\ Append(stateDiff, k) \in Seq(Keys)
          /\ Len(Append(stateDiff, k)) = Len(stateDiff) + 1
      BY <3>1, SMTT(30)
    <3>3. Len(stateDiff) \in Nat /\ StreamCap \in Nat
      BY <3>1, SMTT(30)
    <3>4. Len(Append(stateDiff, k)) <= StreamCap
      BY <2>1, <3>2, <3>3, SMTT(30)
    <3> QED BY <2>1, <3>2, <3>4
  <2>3. ChainInv'
    BY <2>1, <2>2 DEF SyncInv, ChainInv, bitcoin
  <2>4. InputOK'
    BY <2>1, <2>2 DEF SyncInv, InputOK, bitcoin
  <2> QED BY <2>1, <2>3, <2>4, Untouched DEF SyncInv
<1>2. ASSUME NEW k \in Keys, NodeMines(k) PROVE SyncInv'
  <2>1. UNCHANGED <<table, lastHash, sub, stateDiff, relay, payloads, pc, cur, queue, serve,
                    pool, wg, proc, fates, faults>>
    BY <1>2 DEF NodeMines
  <2>2. ChainInv'
    BY <1>2, NodeMinesChain DEF SyncInv
  <2> QED BY <2>1, <2>2, Untouched DEF SyncInv
<1>3. CASE NodeFails
  <2>1. /\ sub' = "failing" /\ faults < MaxFaults /\ faults' = faults + 1
        /\ UNCHANGED <<table, bitcoin, streamed, stateDiff, relay, payloads, pc, cur, queue,
                       serve, pool, wg, proc, fates>>
    BY <1>3 DEF NodeFails
  <2>2. ChainInv'
    BY <2>1, ChainUnchanged DEF SyncInv
  <2>3. InputOK'
    BY <2>1 DEF SyncInv, InputOK, bitcoin
  <2>4. FatesOK'
    BY <2>1, SMTT(30) DEF SyncInv, FatesOK, fates
  <2> QED BY <2>1, <2>2, <2>3, <2>4, Untouched DEF SyncInv
<1>4. CASE Relay
  <2>1. UNCHANGED <<table, bitcoin, streamed, sub, pc, cur, queue, serve, pool, wg, proc,
                    fates, faults>>
    BY <1>4 DEF Relay, RelayTakes, RelaySends
  <2>2. ChainInv'
    BY <2>1, ChainUnchanged DEF SyncInv
  <2>3. InputOK'
    <3>1. CASE RelayTakes
      BY <2>1, <3>1, Received, Single, SMTT(30) DEF RelayTakes, SyncInv, InputOK, bitcoin
    <3>2. CASE RelaySends
      BY <2>1, <3>2, SMTT(30) DEF RelaySends, SyncInv, InputOK, bitcoin
    <3> QED BY <1>4, <3>1, <3>2 DEF Relay
  <2> QED BY <2>1, <2>2, <2>3, Untouched DEF SyncInv
<1>5. CASE Poll
  <2>1. UNCHANGED <<table, sub, stateDiff, payloads, pc, cur, queue, serve, pool, wg, proc,
                    fates, faults>>
    BY <1>5 DEF Poll, PollCount, PollHash, PollBlock
  <2>2. ChainInv'
    BY <1>5, PollCountChain, PollHashChain, PollBlockChain DEF Poll, SyncInv
  <2>3. InputOK'
    <3>1. CASE UNCHANGED <<lastHash, relay>>
      BY <2>1, <3>1, Untouched DEF SyncInv
    <3>2. CASE PollBlock
      <4>1. PICK k \in Keys : poll.block = <<k>>
        BY <3>2, PollBlockChain DEF SyncInv
      <4>2. lastHash' = <<k>> /\ relay' = <<k>>
        BY <3>2, <4>1 DEF PollBlock
      <4> QED BY <2>1, <4>2, SMTT(30) DEF SyncInv, InputOK
    <3> QED BY <1>5, <3>1, <3>2 DEF Poll, PollCount, PollHash
  <2> QED BY <2>1, <2>2, <2>3, Untouched DEF SyncInv
<1>6. CASE PollFails
  <2>1. /\ poll' = NoPoll("error") /\ faults < MaxFaults /\ faults' = faults + 1
        /\ UNCHANGED <<table, source, mined, lastHash, streamed, sub, stateDiff, relay,
                       payloads, pc, cur, queue, serve, pool, wg, proc, fates>>
    BY <1>6 DEF PollFails
  <2>2. ChainInv'
    BY <2>1, PollAgainChain DEF SyncInv
  <2>3. FatesOK'
    BY <2>1, SMTT(30) DEF SyncInv, FatesOK, fates
  <2> QED BY <2>1, <2>2, <2>3, Untouched DEF SyncInv
<1> QED BY <1>1, <1>2, <1>3, <1>4, <1>5, <1>6

\* The steps of the Sync goroutine.
LEMMA SyncStepSyncInv ==
    ASSUME SyncInv, SyncStep \/ ReceiveFails
    PROVE  SyncInv'
<1> USE WatcherSyncAssumption
<1>1. CASE SyncStart \/ SyncQuit
  <2>1. UNCHANGED <<table, input, cur, queue, serve, pool, proc, fates, faults>>
    BY <1>1 DEF SyncStart, SyncQuit
  <2>2. SyncOK'
    BY <1>1, <2>1 DEF SyncStart, SyncQuit, SyncInv, SyncOK
  <2>3. Main \notin Workers
    BY SMTT(30) DEF Main, Workers
  <2>4. PoolOK'
    <3>1. wg' \subseteq Workers \cup {Main} /\ \A w \in Workers : w \in wg => w \in wg'
      BY <1>1, <2>3 DEF SyncStart, SyncQuit, SyncInv, PoolOK
    <3> QED BY <2>1, <3>1 DEF SyncInv, PoolOK, pool
  <2>5. ChainInv'
    BY <2>1, ChainUnchanged DEF SyncInv, input
  <2> QED BY <2>1, <2>2, <2>4, <2>5, Untouched DEF SyncInv, input, bitcoin
<1>2. CASE Receive \/ ReceiveFails
  <2>1. /\ payloads # <<>> /\ payloads' = Tail(payloads) /\ pc = "select"
        /\ UNCHANGED <<table, bitcoin, streamed, sub, stateDiff, relay, queue, serve, pool,
                       wg, proc>>
    BY <1>2 DEF Receive, ReceiveFails
  <2>2. Head(payloads) \in Keys
    BY <2>1, Received DEF SyncInv, InputOK
  <2>3. InputOK'
    BY <2>1, Received, SMTT(30) DEF SyncInv, InputOK, bitcoin
  <2>4. ChainInv'
    BY <2>1, ChainUnchanged DEF SyncInv
  <2>5. SyncOK' /\ FatesOK'
    <3>1. CASE Receive
      <4>1. /\ cur' = <<Head(payloads)>> /\ pc' = "forward"
            /\ UNCHANGED <<queue, serve, fates, faults>>
        BY <3>1 DEF Receive
      <4> QED BY <2>2, <4>1, Untouched, SMTT(30) DEF SyncInv, SyncOK
    <3>2. CASE ReceiveFails
      <4>1. UNCHANGED <<pc, cur, queue, serve>>
        BY <3>2 DEF ReceiveFails
      <4>2. FatesOK'
        BY <2>2, <3>2, SMTT(30) DEF ReceiveFails, SyncInv, FatesOK
      <4> QED BY <4>1, <4>2, Untouched DEF SyncInv
    <3> QED BY <1>2, <3>1, <3>2
  <2> QED BY <2>1, <2>3, <2>4, <2>5, Untouched DEF SyncInv
<1>3. CASE SubError
  <2>1. UNCHANGED <<table, source, mined, lastHash, streamed, stateDiff, relay, payloads,
                    pc, cur, queue, serve, pool, wg, proc, fates, faults>>
    BY <1>3 DEF SubError
  <2>2. ChainInv'
    BY <1>3, <2>1, ChainUnchanged, PollAgainChain DEF SubError, SyncInv, bitcoin
  <2>3. InputOK'
    BY <1>3, <2>1 DEF SubError, SyncInv, InputOK
  <2> QED BY <2>1, <2>2, <2>3, Untouched DEF SyncInv
<1>4. CASE Forward \/ Enqueue \/ Evict \/ Requeue
  <2>1. UNCHANGED <<table, input, pool, wg, proc, failed, done, faults>>
    BY <1>4 DEF Forward, Enqueue, Evict, Requeue, fates
  <2>2. ChainInv'
    BY <2>1, ChainUnchanged DEF SyncInv, input
  <2>3. SyncOK' /\ FatesOK'
    <3>1. CASE Forward
      <4>1. serve' \in Seq(Keys) /\ Len(serve') <= ServeCap
        BY <3>1, SMTT(30) DEF Forward, SyncInv, SyncOK
      <4> QED BY <3>1, <4>1, Untouched DEF Forward, SyncInv, SyncOK
    <3>2. CASE Enqueue
      <4>1. queue' \in Seq(Keys) /\ Len(queue') <= QueueCap
        BY <3>2, SMTT(30) DEF Enqueue, SyncInv, SyncOK
      <4>2. SyncOK'
        <5>1. /\ pc = "queue" /\ serve' = serve
              /\ \/ cur' = <<>> /\ pc' = "select"
                 \/ cur' = cur /\ pc' = "evict"
          BY <3>2 DEF Enqueue
        <5>2. <<>> \in Seq(Keys) /\ Len(<<>>) <= 1
          BY SMTT(30)
        <5> QED BY <4>1, <5>1, <5>2 DEF SyncInv, SyncOK
      <4> QED BY <3>2, <4>2, Untouched DEF Enqueue, SyncInv
    <3>3. CASE Evict
      <4>1. queue' \in Seq(Keys) /\ Len(queue') <= QueueCap /\ Head(queue) \in Keys
        BY <3>3, Received, SMTT(30) DEF Evict, SyncInv, SyncOK
      <4>2. SyncOK'
        BY <3>3, <4>1 DEF Evict, SyncInv, SyncOK
      <4> QED BY <2>1, <3>3, <4>1, <4>2 DEF Evict, SyncInv, FatesOK
    <3>4. CASE Requeue
      <4>1. queue' \in Seq(Keys) /\ Len(queue') <= QueueCap
        BY <3>4, SMTT(30) DEF Requeue, SyncInv, SyncOK
      <4> QED BY <3>4, <4>1, Untouched, SMTT(30) DEF Requeue, SyncInv, SyncOK
    <3> QED BY <1>4, <3>1, <3>2, <3>3, <3>4
  <2> QED BY <2>1, <2>2, <2>3, Untouched DEF SyncInv, input, bitcoin
<1> QED BY <1>1, <1>2, <1>3, <1>4 DEF SyncStep

\* The steps of a worker.
LEMMA WorkerSyncInv ==
    ASSUME SyncInv, NEW w \in Workers, WorkerStep(w) \/ WorkFails(w) \/ CommitFails(w)
    PROVE  SyncInv'
<1> USE WatcherSyncAssumption
<1>1. UNCHANGED <<input, pc, cur, serve, proc, evicted>>
  <2>1. CASE WorkerStart(w)
    BY <2>1 DEF WorkerStart, fates
  <2>2. CASE Take(w)
    BY <2>2 DEF Take, fates
  <2>3. CASE Publish(w)
    BY <2>3 DEF Publish, fates
  <2>4. CASE Index(w)
    BY <2>4 DEF Index
  <2>5. CASE WorkerQuit(w)
    BY <2>5 DEF WorkerQuit, fates
  <2>6. CASE WorkFails(w)
    BY <2>6 DEF WorkFails
  <2>7. CASE CommitFails(w)
    BY <2>7 DEF CommitFails
  <2> QED BY <2>1, <2>2, <2>3, <2>4, <2>5, <2>6, <2>7 DEF WorkerStep
<1>2. ChainInv' /\ InputOK'
  BY <1>1, ChainUnchanged, Untouched DEF SyncInv, input, bitcoin
<1>3. job[w] # <<>> => Head(job[w]) \in Keys
  BY Received DEF SyncInv, PoolOK
<1>4. worker[w] \in {"publish", "index"} => Head(job[w]) \in Keys
  BY <1>3 DEF SyncInv, PoolOK
<1>5. \A v \in Workers : proc = "exited" => worker[v] \notin {"select", "publish", "index"}
  BY DEF SyncInv, PoolOK
<1>6. CASE WorkerStart(w) \/ WorkerQuit(w)
  <2>1. UNCHANGED <<table, queue, job, fates, faults>> /\ proc # "exited"
    BY <1>6 DEF WorkerStart, WorkerQuit, Running, QuitClosed
  <2>2. PoolOK'
    BY <1>1, <1>6, <2>1 DEF WorkerStart, WorkerQuit, SyncInv, PoolOK
  <2> QED BY <1>1, <1>2, <2>1, <2>2, Untouched DEF SyncInv
<1>7. CASE Take(w)
  <2>1. /\ queue # <<>> /\ queue' = Tail(queue) /\ worker[w] = "select"
        /\ job' = [job EXCEPT ![w] = <<Head(queue)>>]
        /\ worker' = [worker EXCEPT ![w] = "publish"]
        /\ UNCHANGED <<table, wg, fates, faults>>
    BY <1>7 DEF Take
  <2>2. queue' \in Seq(Keys) /\ Len(queue') <= QueueCap /\ Head(queue) \in Keys
    BY <2>1, Received, SMTT(30) DEF SyncInv, SyncOK
  <2>3. SyncOK'
    BY <1>1, <2>2 DEF SyncInv, SyncOK
  <2>4. PoolOK'
    BY <1>1, <1>5, <2>1, <2>2, SMTT(30) DEF SyncInv, PoolOK
  <2> QED BY <1>2, <2>1, <2>3, <2>4, Untouched DEF SyncInv
<1>8. CASE Publish(w) \/ Index(w) \/ WorkFails(w) \/ CommitFails(w)
  <2>1. worker[w] \in {"publish", "index"} /\ UNCHANGED <<queue, wg>>
    <3>1. CASE Publish(w)
      BY <3>1 DEF Publish
    <3>2. CASE Index(w)
      BY <3>2 DEF Index
    <3>3. CASE WorkFails(w)
      BY <3>3 DEF WorkFails
    <3>4. CASE CommitFails(w)
      BY <3>4 DEF CommitFails
    <3> QED BY <1>8, <3>1, <3>2, <3>3, <3>4
  <2>2. TableTypeOK'
    BY <1>4, <1>8, <2>1, Untouched, IndexHeaderType
       DEF Publish, Index, WorkFails, CommitFails, SyncInv
  <2>3. FatesOK'
    <3> DEFINE x == Head(job[w])
    <3>1. /\ evicted' = evicted
          /\ failed' = failed \/ failed' = failed \cup {x}
          /\ done' = done \/ done' = done \cup {x}
          /\ faults' = faults \/ (faults < MaxFaults /\ faults' = faults + 1)
      <4>1. CASE Publish(w)
        BY <4>1 DEF Publish, fates
      <4>2. CASE Index(w)
        BY <4>2 DEF Index
      <4>3. CASE WorkFails(w)
        BY <4>3 DEF WorkFails
      <4>4. CASE CommitFails(w)
        BY <4>4 DEF CommitFails
      <4> QED BY <1>8, <4>1, <4>2, <4>3, <4>4
    <3>2. x \in Keys
      BY <1>4, <2>1
    <3> HIDE DEF x
    <3>3. faults' \in 0..MaxFaults
      BY <3>1, WatcherSyncAssumption, SMTT(30) DEF SyncInv, FatesOK
    <3> QED BY <3>1, <3>2, <3>3 DEF SyncInv, FatesOK
  <2>4. PoolOK'
    <3>1. \/ job' = job /\ worker' = [worker EXCEPT ![w] = "index"]
          \/ job' = [job EXCEPT ![w] = <<>>] /\ worker' = [worker EXCEPT ![w] = "select"]
      <4>1. CASE Publish(w)
        BY <4>1 DEF Publish
      <4>2. CASE Index(w)
        BY <4>2 DEF Index
      <4>3. CASE WorkFails(w)
        BY <4>3 DEF WorkFails
      <4>4. CASE CommitFails(w)
        BY <4>4 DEF CommitFails
      <4> QED BY <1>8, <4>1, <4>2, <4>3, <4>4
    <3>2. <<>> \in Seq(Keys) /\ Len(<<>>) <= 1
      BY SMTT(30)
    <3>3. proc' = proc /\ wg' = wg
      BY <1>1, <2>1
    <3>4. CASE job' = job /\ worker' = [worker EXCEPT ![w] = "index"]
      BY <1>5, <2>1, <3>3, <3>4 DEF SyncInv, PoolOK
    <3>5. CASE job' = [job EXCEPT ![w] = <<>>] /\ worker' = [worker EXCEPT ![w] = "select"]
      BY <1>5, <2>1, <3>2, <3>3, <3>5 DEF SyncInv, PoolOK
    <3> QED BY <3>1, <3>4, <3>5
  <2> QED BY <1>1, <1>2, <2>1, <2>2, <2>3, <2>4, Untouched DEF SyncInv
<1> QED BY <1>6, <1>7, <1>8 DEF WorkerStep

\* The steps of the Serve goroutine and of the process, and stuttering.
LEMMA ProcessSyncInv ==
    ASSUME SyncInv, ServeReceives \/ Stop \/ Exit \/ UNCHANGED vars
    PROVE  SyncInv'
<1>1. UNCHANGED <<table, input, pc, cur, queue, pool, wg, fates, faults>>
  BY DEF ServeReceives, Stop, Exit, vars, table, input, bitcoin, pool, fates
<1>2. ChainInv'
  BY <1>1, ChainUnchanged DEF SyncInv, input
<1>3. SyncOK'
  <2>1. serve' = serve \/ (serve # <<>> /\ serve' = Tail(serve))
    BY DEF ServeReceives, Stop, Exit, vars
  <2>2. serve' \in Seq(Keys) /\ Len(serve') <= ServeCap
    <3>1. serve \in Seq(Keys) /\ Len(serve) <= ServeCap /\ Len(serve) \in Nat /\ ServeCap \in Nat
      BY WatcherSyncAssumption, SMTT(30) DEF SyncInv, SyncOK
    <3>2. serve # <<>> => Tail(serve) \in Seq(Keys) /\ Len(Tail(serve)) = Len(serve) - 1
      BY <3>1, Received
    <3> QED BY <2>1, <3>1, <3>2, SMTT(30)
  <2> QED BY <1>1, <2>2 DEF SyncInv, SyncOK
<1>4. PoolOK'
  BY <1>1 DEF ServeReceives, Stop, Exit, vars, SyncInv, PoolOK, pool
<1> QED BY <1>1, <1>2, <1>3, <1>4, Untouched DEF SyncInv, input, bitcoin

\* Every step keeps the invariant.
LEMMA NextSyncInv == SyncInv /\ [Next]_vars => SyncInv'
BY InputSyncInv, SyncStepSyncInv, WorkerSyncInv, ProcessSyncInv DEF Next

LEMMA SyncInvHolds == Spec => []SyncInv
BY InitSyncInv, NextSyncInv, PTL DEF Spec

\* Type correctness of the head sync, the bounds of its channels included.
THEOREM SyncTypeInvariant == Spec => []TypeOK
<1>1. SyncInv => TypeOK
  BY DEF SyncInv, ChainInv, InputOK, SyncOK, PoolOK, FatesOK, TypeOK, Heights
<1> QED BY <1>1, SyncInvHolds, PTL

\* QuietExit for any number of workers: the process ends with no payload between
\* Publish and Index.
THEOREM SyncQuietExitHolds == Spec => []QuietExit
<1>1. SyncInv => QuietExit
  BY DEF SyncInv, PoolOK, QuietExit
<1> QED BY <1>1, SyncInvHolds, PTL

-----------------------------------------------------------------------------
(***************************************************************************)
(* Where the payloads are.                                                 *)
(***************************************************************************)
Places == {"stateDiff", "relay", "payloads", "cur", "queue", "job", "done", "evicted",
           "failed"}

\* The payloads in a place.
Holding(p) == IF p = "stateDiff" THEN Range(stateDiff) ELSE
              IF p = "relay"     THEN Range(relay)     ELSE
              IF p = "payloads"  THEN Range(payloads)  ELSE
              IF p = "cur"       THEN Range(cur)       ELSE
              IF p = "queue"     THEN Range(queue)     ELSE
              IF p = "job"       THEN Held             ELSE
              IF p = "done"      THEN done             ELSE
              IF p = "evicted"   THEN evicted          ELSE failed

\* No place has a payload of another, and together they have what was streamed.
Parted == /\ \A p, q \in Places : p # q => Holding(p) \cap Holding(q) = {}
          /\ \A x : x \in Range(streamed) <=> \E p \in Places : x \in Holding(p)

\* No channel has a payload twice, and no two workers have the same one.
PartInv ==
    /\ IsInjective(stateDiff) /\ IsInjective(payloads) /\ IsInjective(queue)
    /\ \A v, w \in Workers : v # w => Range(job[v]) \cap Range(job[w]) = {}
    /\ Parted

\* A payload that moves from p to q keeps the places apart.
LEMMA Moved ==
    ASSUME Parted, NEW p \in Places, NEW q \in Places, p # q, NEW x \in Holding(p),
           UNCHANGED streamed,
           \A r \in Places : Holding(r)' = IF r = p THEN Holding(r) \ {x}
                                        ELSE IF r = q THEN Holding(r) \cup {x}
                                        ELSE Holding(r)
    PROVE  Parted'
<1>1. ASSUME NEW r \in Places, NEW s \in Places, r # s
      PROVE  Holding(r)' \cap Holding(s)' = {}
  <2>1. \A u \in Places : u # p => x \notin Holding(u)
    BY DEF Parted
  <2>2. Holding(r) \cap Holding(s) = {}
    BY <1>1 DEF Parted
  <2> QED BY <1>1, <2>1, <2>2
<1>2. ASSUME NEW y
      PROVE  (\E r \in Places : y \in Holding(r)') <=> (\E r \in Places : y \in Holding(r))
  OBVIOUS
<1> QED BY <1>1, <1>2 DEF Parted

\* So does a payload that the node sends for the first time.
LEMMA Arrived ==
    ASSUME Parted, NEW q \in Places, NEW x, x \notin Range(streamed),
           Range(streamed)' = Range(streamed) \cup {x},
           \A r \in Places : Holding(r)' = IF r = q THEN Holding(r) \cup {x} ELSE Holding(r)
    PROVE  Parted'
<1>1. \A r \in Places : x \notin Holding(r)
  BY DEF Parted
<1>2. ASSUME NEW r \in Places, NEW s \in Places, r # s
      PROVE  Holding(r)' \cap Holding(s)' = {}
  <2>1. Holding(r) \cap Holding(s) = {}
    BY <1>2 DEF Parted
  <2> QED BY <1>1, <1>2, <2>1
<1>3. ASSUME NEW y
      PROVE  y \in Range(streamed)' <=> \E r \in Places : y \in Holding(r)'
  <2>1. y \in Range(streamed) <=> \E r \in Places : y \in Holding(r)
    BY DEF Parted
  <2> QED BY <2>1
<1> QED BY <1>2, <1>3 DEF Parted

\* Steps that move nothing.
LEMMA NothingMoved ==
    ASSUME PartInv, UNCHANGED <<streamed, stateDiff, relay, payloads, cur, queue, job, fates>>
    PROVE  PartInv'
<1>1. \A p \in Places : Holding(p)' = Holding(p)
  BY DEF Holding, Held, fates
<1>2. Parted'
  BY <1>1, SMTT(30) DEF PartInv, Parted
<1> QED BY <1>2 DEF PartInv

LEMMA InitPart == Init => PartInv
<1> SUFFICES ASSUME Init PROVE PartInv
  OBVIOUS
<1>1. /\ stateDiff = <<>> /\ relay = <<>> /\ payloads = <<>> /\ cur = <<>> /\ queue = <<>>
      /\ streamed = <<>> /\ done = {} /\ evicted = {} /\ failed = {}
      /\ \A w \in Workers : job[w] = <<>>
  BY DEF Init
<1>2. Held = {} /\ \A w \in Workers : Range(job[w]) = {}
  BY <1>1, Single DEF Held
<1>3. \A p \in Places : Holding(p) = {}
  BY <1>1, <1>2, Single DEF Holding
<1> QED BY <1>1, <1>2, <1>3, Single DEF PartInv, Parted

\* A payload arrives: pushed by an Ethereum node, or polled from a Bitcoin node.
LEMMA ArrivalsPart ==
    ASSUME SyncInv, PartInv, (\E k \in Keys : NodeStreams(k)) \/ PollBlock
    PROVE  PartInv'
<1>1. ASSUME NEW k \in Keys, NodeStreams(k) PROVE PartInv'
  <2>1. /\ k \notin Range(streamed)
        /\ streamed' = Append(streamed, k) /\ stateDiff' = Append(stateDiff, k)
        /\ UNCHANGED <<relay, payloads, cur, queue, job, fates>>
    BY <1>1 DEF NodeStreams, pool
  <2>2. streamed \in Seq(Keys) /\ stateDiff \in Seq(Keys)
    BY DEF SyncInv, ChainInv, InputOK
  <2> DEFINE one == <<k>>
  <2>3. one \in Seq(Keys) /\ Range(one) = {k} /\ IsInjective(one)
    BY Single
  <2>4. streamed' = streamed \o one /\ stateDiff' = stateDiff \o one
    BY <2>1, <2>2, SMTT(30)
  <2>5. k \notin Range(stateDiff)
    BY <2>1 DEF PartInv, Parted, Holding, Places
  <2> HIDE DEF one
  <2>6. Range(streamed') = Range(streamed) \cup {k} /\ Range(stateDiff') = Range(stateDiff) \cup {k}
    BY <2>2, <2>3, <2>4, Sent, SMTT(30)
  <2>7. IsInjective(stateDiff')
    BY <2>2, <2>3, <2>4, <2>5, Sent DEF PartInv
  <2>8. \A r \in Places :
          Holding(r)' = IF r = "stateDiff" THEN Holding(r) \cup {k} ELSE Holding(r)
    BY <2>1, <2>6 DEF Holding, Held, fates
  <2>9. Parted'
    BY <2>1, <2>6, <2>8, Arrived DEF PartInv, Places
  <2> QED BY <2>1, <2>7, <2>9 DEF PartInv
<1>2. CASE PollBlock
  <2>1. PICK k \in Keys : poll.block = <<k>> /\ k \notin Range(streamed)
    BY <1>2, PollBlockChain DEF SyncInv
  <2>2. /\ relay = <<>> /\ relay' = poll.block /\ streamed' = streamed \o poll.block
        /\ UNCHANGED <<stateDiff, payloads, cur, queue, job, fates>>
    BY <1>2 DEF PollBlock, Polls, pool
  <2>3. poll.block \in Seq(Keys) /\ Range(poll.block) = {k} /\ streamed \in Seq(Keys)
    BY <2>1, Single DEF SyncInv, ChainInv
  <2>4. Range(streamed') = Range(streamed) \cup {k}
    BY <2>2, <2>3, Sent, SMTT(30)
  <2>5. Range(relay) = {} /\ Range(relay') = {k}
    BY <2>2, <2>3, Single
  <2>6. \A r \in Places : Holding(r)' = IF r = "relay" THEN Holding(r) \cup {k} ELSE Holding(r)
    BY <2>2, <2>5 DEF Holding, Held, fates
  <2>7. Parted'
    BY <2>1, <2>4, <2>6, Arrived DEF PartInv, Places
  <2> QED BY <2>2, <2>7 DEF PartInv
<1> QED BY <1>1, <1>2

\* The relay goroutine moves payloads on.
LEMMA RelayPart == ASSUME SyncInv, PartInv, Relay PROVE PartInv'
<1>0. /\ stateDiff \in Seq(Keys) /\ payloads \in Seq(Keys) /\ relay \in Seq(Keys)
      /\ Len(relay) <= 1
  BY DEF SyncInv, InputOK
<1>1. CASE RelayTakes
  <2> DEFINE x == Head(stateDiff)
  <2>1. /\ relay = <<>> /\ stateDiff # <<>> /\ relay' = <<x>> /\ stateDiff' = Tail(stateDiff)
        /\ UNCHANGED <<streamed, payloads, cur, queue, job, fates>>
    BY <1>1 DEF RelayTakes, pool
  <2>2. /\ x \in Range(stateDiff) /\ IsInjective(stateDiff')
        /\ Range(stateDiff') = Range(stateDiff) \ {x}
    BY <1>0, <2>1, Received DEF PartInv
  <2>3. Range(relay) = {} /\ Range(relay') = {x}
    BY <2>1, Single
  <2> HIDE DEF x
  <2>4. \A r \in Places : Holding(r)' = IF r = "stateDiff" THEN Holding(r) \ {x}
                                      ELSE IF r = "relay" THEN Holding(r) \cup {x}
                                      ELSE Holding(r)
    BY <2>1, <2>2, <2>3 DEF Holding, Held, fates
  <2>5. x \in Holding("stateDiff")
    BY <2>2 DEF Holding
  <2>6. Parted'
    BY <2>1, <2>4, <2>5, Moved DEF PartInv, Places
  <2> QED BY <2>1, <2>2, <2>6 DEF PartInv
<1>2. CASE RelaySends
  <2> DEFINE x == Head(relay)
  <2>1. /\ relay # <<>> /\ payloads' = payloads \o relay /\ relay' = <<>>
        /\ UNCHANGED <<streamed, stateDiff, cur, queue, job, fates>>
    BY <1>2 DEF RelaySends, pool
  <2>2. Range(relay) = {x} /\ IsInjective(relay) /\ Range(relay') = {}
    BY <1>0, <2>1, AtMostOne, Single, SMTT(30)
  <2> HIDE DEF x
  <2>3. Range(relay) \cap Range(payloads) = {}
    <3>1. Holding("relay") \cap Holding("payloads") = {}
      BY DEF PartInv, Parted, Places
    <3> QED BY <3>1 DEF Holding
  <2>4. IsInjective(payloads') /\ Range(payloads') = Range(payloads) \cup {x}
    BY <1>0, <2>1, <2>2, <2>3, Sent, SMTT(30) DEF PartInv
  <2>5. \A r \in Places : Holding(r)' = IF r = "relay" THEN Holding(r) \ {x}
                                      ELSE IF r = "payloads" THEN Holding(r) \cup {x}
                                      ELSE Holding(r)
    BY <2>1, <2>2, <2>4 DEF Holding, Held, fates
  <2>6. x \in Holding("relay")
    BY <2>2 DEF Holding
  <2>7. Parted'
    BY <2>1, <2>5, <2>6, Moved DEF PartInv, Places
  <2> QED BY <2>1, <2>4, <2>7 DEF PartInv
<1> QED BY <1>1, <1>2 DEF Relay

\* The Sync goroutine receives a payload, to keep it or to give it up.
LEMMA ReceivePart == ASSUME SyncInv, PartInv, Receive \/ ReceiveFails PROVE PartInv'
<1> DEFINE x == Head(payloads)
<1>0. payloads \in Seq(Keys) /\ (pc = "select" => cur = <<>>)
  BY DEF SyncInv, InputOK, SyncOK
<1>1. /\ payloads # <<>> /\ payloads' = Tail(payloads) /\ pc = "select"
      /\ UNCHANGED <<streamed, stateDiff, relay, queue, job, evicted, done>>
  BY DEF Receive, ReceiveFails, pool, fates
<1>2. /\ x \in Range(payloads) /\ IsInjective(payloads')
      /\ Range(payloads') = Range(payloads) \ {x}
  BY <1>0, <1>1, Received DEF PartInv
<1>3. \/ cur' = <<x>> /\ failed' = failed
      \/ cur' = cur /\ failed' = failed \cup {x}
  BY DEF Receive, ReceiveFails, fates
<1> HIDE DEF x
<1>4. x \in Holding("payloads")
  BY <1>2 DEF Holding
<1>5. Range(cur) = {} /\ Range(<<x>>) = {x}
  BY <1>0, <1>1, Single
<1>6. Parted'
  <2>1. CASE cur' = <<x>> /\ failed' = failed
    <3>1. \A r \in Places : Holding(r)' = IF r = "payloads" THEN Holding(r) \ {x}
                                        ELSE IF r = "cur" THEN Holding(r) \cup {x}
                                        ELSE Holding(r)
      BY <1>1, <1>2, <1>5, <2>1 DEF Holding, Held
    <3> QED BY <1>1, <1>4, <3>1, Moved DEF PartInv, Places
  <2>2. CASE cur' = cur /\ failed' = failed \cup {x}
    <3>1. \A r \in Places : Holding(r)' = IF r = "payloads" THEN Holding(r) \ {x}
                                        ELSE IF r = "failed" THEN Holding(r) \cup {x}
                                        ELSE Holding(r)
      BY <1>1, <1>2, <2>2 DEF Holding, Held, Places
    <3> QED BY <1>1, <1>4, <3>1, Moved DEF PartInv, Places
  <2> QED BY <1>3, <2>1, <2>2
<1> QED BY <1>1, <1>2, <1>6 DEF PartInv

\* The Sync goroutine queues its payload, or drops the oldest one of the queue.
LEMMA QueuePart == ASSUME SyncInv, PartInv, Enqueue \/ Evict \/ Requeue PROVE PartInv'
<1>0. /\ queue \in Seq(Keys) /\ cur \in Seq(Keys) /\ Len(cur) <= 1
      /\ cur = <<>> <=> pc \in {"spawned", "select", "returned"}
  BY DEF SyncInv, SyncOK
<1>1. CASE UNCHANGED <<queue, cur>> /\ Enqueue
  BY <1>1, NothingMoved DEF Enqueue, input, pool
<1>2. CASE /\ queue' = queue \o cur /\ cur' = <<>> /\ pc \in {"queue", "requeue"}
           /\ UNCHANGED <<input, pool, fates>>
  <2> DEFINE x == Head(cur)
  <2>1. Range(cur) = {x} /\ IsInjective(cur) /\ Range(cur') = {}
    BY <1>0, <1>2, AtMostOne, Single, SMTT(30)
  <2> HIDE DEF x
  <2>2. Range(queue) \cap Range(cur) = {}
    <3>1. Holding("queue") \cap Holding("cur") = {}
      BY DEF PartInv, Parted, Places
    <3> QED BY <3>1 DEF Holding
  <2>3. IsInjective(queue') /\ Range(queue') = Range(queue) \cup {x}
    BY <1>0, <1>2, <2>1, <2>2, Sent, SMTT(30) DEF PartInv
  <2>4. \A r \in Places : Holding(r)' = IF r = "cur" THEN Holding(r) \ {x}
                                      ELSE IF r = "queue" THEN Holding(r) \cup {x}
                                      ELSE Holding(r)
    BY <1>2, <2>1, <2>3 DEF Holding, Held, input, pool, fates
  <2>5. x \in Holding("cur")
    BY <2>1 DEF Holding
  <2>6. Parted'
    BY <1>2, <2>4, <2>5, Moved DEF PartInv, Places, input
  <2> QED BY <1>2, <2>3, <2>6 DEF PartInv, input, pool
<1>3. CASE Evict
  <2> DEFINE x == Head(queue)
  <2>1. /\ queue # <<>> /\ queue' = Tail(queue) /\ evicted' = evicted \cup {x}
        /\ UNCHANGED <<input, cur, pool, failed, done>>
    BY <1>3 DEF Evict
  <2>2. x \in Range(queue) /\ IsInjective(queue') /\ Range(queue') = Range(queue) \ {x}
    BY <1>0, <2>1, Received DEF PartInv
  <2> HIDE DEF x
  <2>3. \A r \in Places : Holding(r)' = IF r = "queue" THEN Holding(r) \ {x}
                                      ELSE IF r = "evicted" THEN Holding(r) \cup {x}
                                      ELSE Holding(r)
    BY <2>1, <2>2 DEF Holding, Held, input, pool
  <2>4. x \in Holding("queue")
    BY <2>2 DEF Holding
  <2>5. Parted'
    BY <2>1, <2>3, <2>4, Moved DEF PartInv, Places, input
  <2> QED BY <2>1, <2>2, <2>5 DEF PartInv, input, pool
<1> QED BY <1>1, <1>2, <1>3 DEF Enqueue, Requeue

\* What a worker holds changes with the payload it takes or lets go.
LEMMA HeldBy ==
    ASSUME SyncInv, PartInv, NEW w \in Workers, NEW j, j \in Seq(Keys),
           job' = [job EXCEPT ![w] = j]
    PROVE  /\ job[w] = <<>> => Held' = Held \cup Range(j)
           /\ j = <<>> => Held' = Held \ Range(job[w])
           /\ Range(job[w]) \subseteq Held
           /\ Range(j) \cap Held = {} \/ j = <<>>
                => \A u, v \in Workers : u # v => Range(job'[u]) \cap Range(job'[v]) = {}
<1>1. /\ job'[w] = j /\ \A v \in Workers : v # w => job'[v] = job[v]
  BY DEF SyncInv, PoolOK
<1>2. \A u, v \in Workers : u # v => Range(job[u]) \cap Range(job[v]) = {}
  BY DEF PartInv
<1>3. /\ \A y : y \in Held <=> \E v \in Workers : y \in Range(job[v])
      /\ \A y : y \in Held' <=> \E v \in Workers : y \in Range(job'[v])
  BY DEF Held
<1>4. Range(<<>>) = {}
  BY Single
<1>5. ASSUME job[w] = <<>> PROVE Held' = Held \cup Range(j)
  BY <1>1, <1>3, <1>4, <1>5
<1>6. ASSUME j = <<>> PROVE Held' = Held \ Range(job[w])
  BY <1>1, <1>2, <1>3, <1>4, <1>6
<1>7. Range(job[w]) \subseteq Held
  BY <1>3
<1>8. ASSUME Range(j) \cap Held = {} \/ j = <<>>, NEW u \in Workers, NEW v \in Workers, u # v
      PROVE  Range(job'[u]) \cap Range(job'[v]) = {}
  <2>1. \A y \in Workers : Range(j) \cap Range(job[y]) = {}
    BY <1>3, <1>4, <1>8
  <2>2. CASE u = w
    BY <1>1, <1>8, <2>1, <2>2
  <2>3. CASE v = w
    BY <1>1, <1>8, <2>1, <2>3
  <2>4. CASE u # w /\ v # w
    BY <1>1, <1>2, <1>8, <2>4
  <2> QED BY <2>2, <2>3, <2>4
<1> QED BY <1>5, <1>6, <1>7, <1>8

\* A worker takes a payload, and is done with it or gives it up.
LEMMA WorkerPart ==
    ASSUME SyncInv, PartInv, NEW w \in Workers, WorkerStep(w) \/ WorkFails(w) \/ CommitFails(w)
    PROVE  PartInv'
<1>0. /\ queue \in Seq(Keys) /\ job[w] \in Seq(Keys) /\ Len(job[w]) <= 1
      /\ job[w] = <<>> <=> worker[w] \notin {"publish", "index"}
  BY DEF SyncInv, SyncOK, PoolOK
<1>1. UNCHANGED <<streamed, stateDiff, relay, payloads, cur, evicted>>
  BY DEF WorkerStep, WorkerStart, Take, Publish, Index, WorkerQuit, WorkFails, CommitFails,
         input, fates
<1>2. CASE UNCHANGED <<queue, job, failed, done>>
  BY <1>1, <1>2, NothingMoved DEF fates
<1>3. CASE Take(w)
  <2> DEFINE x == Head(queue)
             j == <<x>>
  <2>1. /\ queue # <<>> /\ queue' = Tail(queue) /\ job' = [job EXCEPT ![w] = j]
        /\ worker[w] = "select" /\ UNCHANGED <<failed, done>>
    BY <1>3 DEF Take, fates
  <2>2. /\ x \in Keys /\ x \in Range(queue) /\ IsInjective(queue')
        /\ Range(queue') = Range(queue) \ {x}
    BY <1>0, <2>1, Received DEF PartInv
  <2>3. j \in Seq(Keys) /\ Range(j) = {x} /\ job[w] = <<>>
    BY <1>0, <2>1, <2>2, Single
  <2> HIDE DEF x, j
  <2>4. x \notin Held
    <3>1. Holding("queue") \cap Holding("job") = {}
      BY DEF PartInv, Parted, Places
    <3> QED BY <2>2, <3>1 DEF Holding
  <2>5. /\ Held' = Held \cup {x}
        /\ \A u, v \in Workers : u # v => Range(job'[u]) \cap Range(job'[v]) = {}
    <3>1. Range(j) \cap Held = {}
      BY <2>3, <2>4
    <3>2. /\ Held' = Held \cup Range(j)
          /\ \A u, v \in Workers : u # v => Range(job'[u]) \cap Range(job'[v]) = {}
      BY <2>1, <2>3, <3>1, HeldBy
    <3> QED BY <2>3, <3>2
  <2>6. \A r \in Places : Holding(r)' = IF r = "queue" THEN Holding(r) \ {x}
                                      ELSE IF r = "job" THEN Holding(r) \cup {x}
                                      ELSE Holding(r)
    BY <1>1, <2>1, <2>2, <2>5 DEF Holding
  <2>7. x \in Holding("queue")
    BY <2>2 DEF Holding
  <2>8. Parted'
    BY <1>1, <2>6, <2>7, Moved DEF PartInv, Places
  <2> QED BY <1>1, <2>2, <2>5, <2>8 DEF PartInv
<1>4. CASE /\ worker[w] \in {"publish", "index"} /\ queue' = queue
           /\ job' = [job EXCEPT ![w] = <<>>]
           /\ \/ done' = done \cup {Head(job[w])} /\ failed' = failed
              \/ failed' = failed \cup {Head(job[w])} /\ done' = done
  <2> DEFINE x == Head(job[w])
  <2>1. Range(job[w]) = {x}
    BY <1>0, <1>4, AtMostOne
  <2>2. \/ done' = done \cup {x} /\ failed' = failed
        \/ failed' = failed \cup {x} /\ done' = done
    BY <1>4
  <2> HIDE DEF x
  <2>3. <<>> \in Seq(Keys)
    BY SMTT(30)
  <2>4. /\ Held' = Held \ {x} /\ x \in Held
        /\ \A u, v \in Workers : u # v => Range(job'[u]) \cap Range(job'[v]) = {}
    BY <1>4, <2>1, <2>3, HeldBy
  <2>5. x \in Holding("job")
    BY <2>4 DEF Holding
  <2>6. Parted'
    <3>1. CASE done' = done \cup {x} /\ failed' = failed
      <4>1. \A r \in Places : Holding(r)' = IF r = "job" THEN Holding(r) \ {x}
                                          ELSE IF r = "done" THEN Holding(r) \cup {x}
                                          ELSE Holding(r)
        BY <1>1, <1>4, <2>4, <3>1 DEF Holding
      <4> QED BY <1>1, <2>5, <4>1, Moved DEF PartInv, Places
    <3>2. CASE failed' = failed \cup {x} /\ done' = done
      <4>1. \A r \in Places : Holding(r)' = IF r = "job" THEN Holding(r) \ {x}
                                          ELSE IF r = "failed" THEN Holding(r) \cup {x}
                                          ELSE Holding(r)
        BY <1>1, <1>4, <2>4, <3>2 DEF Holding, Places
      <4> QED BY <1>1, <2>5, <4>1, Moved DEF PartInv, Places
    <3> QED BY <2>2, <3>1, <3>2
  <2> QED BY <1>1, <1>4, <2>4, <2>6 DEF PartInv
<1> QED BY <1>2, <1>3, <1>4 DEF WorkerStep, WorkerStart, Publish, Index, WorkerQuit, WorkFails,
                                CommitFails, fates

LEMMA NextPart == SyncInv /\ PartInv /\ [Next]_vars => PartInv'
<1> SUFFICES ASSUME SyncInv, PartInv, [Next]_vars PROVE PartInv'
  OBVIOUS
<1>1. CASE (\E k \in Keys : NodeStreams(k)) \/ PollBlock
  BY <1>1, ArrivalsPart
<1>2. CASE Relay
  BY <1>2, RelayPart
<1>3. CASE Receive \/ ReceiveFails
  BY <1>3, ReceivePart
<1>4. CASE Enqueue \/ Evict \/ Requeue
  BY <1>4, QueuePart
<1>5. CASE \E w \in Workers : WorkerStep(w) \/ WorkFails(w) \/ CommitFails(w)
  BY <1>5, WorkerPart
<1>6. CASE \/ \E k \in Keys : NodeMines(k)
           \/ NodeFails \/ PollCount \/ PollHash \/ PollFails \/ SyncStart \/ SubError
           \/ SyncQuit \/ Forward \/ ServeReceives \/ Stop \/ Exit \/ UNCHANGED vars
  <2>1. UNCHANGED <<streamed, stateDiff, relay, payloads, cur, queue, job, fates>>
    BY <1>6 DEF NodeMines, NodeFails, PollCount, PollHash, PollFails, SyncStart, SubError,
                SyncQuit, Forward, ServeReceives, Stop, Exit, vars, input, pool, fates
  <2> QED BY <2>1, NothingMoved
<1> QED BY <1>1, <1>2, <1>3, <1>4, <1>5, <1>6 DEF Next, SyncStep, Poll

\* Accounted for any number of workers, blocks, faults and capacities: no payload
\* is lost or worked on twice on the way from the node to the index.
THEOREM AccountedHolds == Spec => []Accounted
<1>1. SyncInv /\ PartInv => Accounted
  <2> SUFFICES ASSUME SyncInv, PartInv PROVE Accounted
    OBVIOUS
  <2>1. /\ stateDiff \in Seq(Keys) /\ relay \in Seq(Keys) /\ payloads \in Seq(Keys)
        /\ cur \in Seq(Keys) /\ queue \in Seq(Keys) /\ Len(relay) <= 1 /\ Len(cur) <= 1
    BY DEF SyncInv, InputOK, SyncOK
  <2>2. IsInjective(relay) /\ IsInjective(cur)
    BY <2>1, AtMostOne, Single, SMTT(30)
  <2>3. /\ \A p, q \in Places : p # q => Holding(p) \cap Holding(q) = {}
        /\ \A x : x \in Range(streamed) <=> \E p \in Places : x \in Holding(p)
    BY DEF PartInv, Parted
  <2>4. /\ Holding("stateDiff") = Range(stateDiff) /\ Holding("relay") = Range(relay)
        /\ Holding("payloads") = Range(payloads) /\ Holding("cur") = Range(cur)
        /\ Holding("queue") = Range(queue) /\ Holding("job") = Held
        /\ Holding("done") = done /\ Holding("evicted") = evicted /\ Holding("failed") = failed
    BY DEF Holding
  <2>5. /\ Range(stateDiff) \cap Range(relay) = {}
        /\ (Range(stateDiff) \cup Range(relay)) \cap Range(payloads) = {}
        /\ (Range(stateDiff) \cup Range(relay) \cup Range(payloads)) \cap Range(cur) = {}
        /\ (Range(stateDiff) \cup Range(relay) \cup Range(payloads) \cup Range(cur))
             \cap Range(queue) = {}
    BY <2>3, <2>4, SMTT(30) DEF Places
  <2> DEFINE a == stateDiff \o relay
             b == a \o payloads
             c == b \o cur
  <2>6. a \in Seq(Keys) /\ IsInjective(a) /\ Range(a) = Range(stateDiff) \cup Range(relay)
    BY <2>1, <2>2, <2>5, Sent, SMTT(30) DEF PartInv
  <2> HIDE DEF a
  <2>7. b \in Seq(Keys) /\ IsInjective(b) /\ Range(b) = Range(a) \cup Range(payloads)
    BY <2>1, <2>5, <2>6, Sent, SMTT(30) DEF PartInv
  <2> HIDE DEF b
  <2>8. c \in Seq(Keys) /\ IsInjective(c) /\ Range(c) = Range(b) \cup Range(cur)
    BY <2>1, <2>2, <2>5, <2>6, <2>7, Sent, SMTT(30)
  <2> HIDE DEF c
  <2>9. IsInjective(c \o queue) /\ Range(c \o queue) = Range(c) \cup Range(queue)
    BY <2>1, <2>5, <2>6, <2>7, <2>8, Sent, SMTT(30) DEF PartInv
  <2>10. InFlight = c \o queue
    BY DEF InFlight, a, b, c
  <2> DEFINE F == Range(InFlight)
  <2>11. F = Range(stateDiff) \cup Range(relay) \cup Range(payloads) \cup Range(cur)
               \cup Range(queue)
    BY <2>6, <2>7, <2>8, <2>9, <2>10
  <2> HIDE DEF F
  <2>12. Range(streamed) = F \cup Held \cup done \cup evicted \cup failed
    BY <2>3, <2>4, <2>11, SMTT(30) DEF Places
  <2>13. /\ F \cap Held = {} /\ F \cap done = {} /\ F \cap evicted = {} /\ F \cap failed = {}
         /\ Held \cap done = {} /\ Held \cap evicted = {} /\ Held \cap failed = {}
         /\ done \cap evicted = {} /\ done \cap failed = {} /\ evicted \cap failed = {}
    BY <2>3, <2>4, <2>11, SMTT(30) DEF Places
  <2> DEFINE places == <<F, Held, done, evicted, failed>>
  <2>14. DOMAIN places = 1..5
    BY SMTT(30)
  <2>15. \A i, j \in DOMAIN places : i # j => places[i] \cap places[j] = {}
    BY <2>13, <2>14, SMTT(30)
  <2>16. Range(places) = {F, Held, done, evicted, failed}
    BY <2>14, SMTT(30) DEF Range
  <2>17. Range(streamed) = UNION Range(places)
    BY <2>12, <2>16
  <2>18. IsInjective(InFlight)
    BY <2>9, <2>10
  <2> QED BY <2>15, <2>17, <2>18 DEF Accounted, PartInv, F
<1> QED BY <1>1, InitPart, NextPart, SyncInvHolds, PTL DEF Spec
-----------------------------------------------------------------------------
(***************************************************************************)
(* The payloads stay in the order of the node, and the oldest go first.    *)
(***************************************************************************)
\* In the sequence s the value x comes before y.
Older(s, x, y) == \E i, j \in DOMAIN s : i < j /\ s[i] = x /\ s[j] = y

\* A sequence keeps the order of s.
Ordered(s, t) == \A i, j \in DOMAIN t : i < j => Older(s, t[i], t[j])

\* The way of a payload, from its end back to the node.
Stage(n) == IF n = 1 THEN evicted         ELSE
            IF n = 2 THEN Range(queue)    ELSE
            IF n = 3 THEN Range(cur)      ELSE
            IF n = 4 THEN Range(payloads) ELSE
            IF n = 5 THEN Range(relay)    ELSE Range(stateDiff)

\* What is further on its way is older.
StagesApart == \A m, n \in 1..6 : m < n =>
                 \A x \in Stage(m), y \in Stage(n) : Older(streamed, x, y)

\* Each channel is in the order of the node, and so are the channels.
OrderInv ==
    /\ IsInjective(streamed)
    /\ source = "btc" => stateDiff = <<>>
    /\ Ordered(streamed, queue) /\ Ordered(streamed, payloads) /\ Ordered(streamed, stateDiff)
    /\ StagesApart

\* A receive from a channel: the oldest payload leaves.
LEMMA OrderedReceive ==
    ASSUME NEW s, NEW S, NEW t \in Seq(S), t # <<>>, Ordered(s, t), IsInjective(t)
    PROVE  /\ Ordered(s, Tail(t))
           /\ \A y \in Range(t) \ {Head(t)} : Older(s, Head(t), y)
<1>1. /\ Len(t) \in Nat \ {0} /\ DOMAIN t = 1..Len(t) /\ Head(t) = t[1]
      /\ DOMAIN Tail(t) = 1..(Len(t) - 1)
      /\ \A i \in 1..(Len(t) - 1) : Tail(t)[i] = t[i + 1]
  BY Received, SMTT(30)
<1>2. ASSUME NEW i \in DOMAIN Tail(t), NEW j \in DOMAIN Tail(t), i < j
      PROVE  Older(s, Tail(t)[i], Tail(t)[j])
  <2>1. /\ i + 1 \in DOMAIN t /\ j + 1 \in DOMAIN t /\ i + 1 < j + 1
        /\ Tail(t)[i] = t[i + 1] /\ Tail(t)[j] = t[j + 1]
    BY <1>1, <1>2, SMTT(30)
  <2> QED BY <2>1 DEF Ordered
<1>3. ASSUME NEW j \in DOMAIN t, t[j] # Head(t) PROVE Older(s, Head(t), t[j])
  <2>1. 1 \in DOMAIN t /\ 1 < j
    BY <1>1, <1>3, SMTT(30)
  <2> QED BY <1>1, <2>1 DEF Ordered
<1> QED BY <1>2, <1>3 DEF Ordered, Range

\* A send to a channel of payloads that are younger than its own.
LEMMA OrderedSend ==
    ASSUME NEW s, NEW S, NEW t \in Seq(S), NEW u \in Seq(S), Ordered(s, t), Len(u) <= 1,
           \A x \in Range(t), y \in Range(u) : Older(s, x, y)
    PROVE  Ordered(s, t \o u)
<1>1. /\ Len(t) \in Nat /\ Len(u) \in Nat /\ DOMAIN t = 1..Len(t) /\ DOMAIN u = 1..Len(u)
      /\ DOMAIN (t \o u) = 1..(Len(t) + Len(u))
      /\ \A i \in 1..(Len(t) + Len(u)) :
           (t \o u)[i] = IF i <= Len(t) THEN t[i] ELSE u[i - Len(t)]
  BY SMTT(30)
<1>2. ASSUME NEW i \in DOMAIN (t \o u), NEW j \in DOMAIN (t \o u), i < j
      PROVE  Older(s, (t \o u)[i], (t \o u)[j])
  <2>1. CASE j <= Len(t)
    <3>1. /\ i \in DOMAIN t /\ j \in DOMAIN t
          /\ (t \o u)[i] = t[i] /\ (t \o u)[j] = t[j]
      BY <1>1, <1>2, <2>1, SMTT(30)
    <3> QED BY <1>2, <3>1 DEF Ordered
  <2>2. CASE ~(j <= Len(t))
    <3>1. /\ i \in DOMAIN t /\ j - Len(t) \in DOMAIN u
          /\ (t \o u)[i] = t[i] /\ (t \o u)[j] = u[j - Len(t)]
      BY <1>1, <1>2, <2>2, SMTT(30)
    <3> QED BY <3>1 DEF Range
  <2> QED BY <2>1, <2>2
<1> QED BY <1>2 DEF Ordered

\* A payload the node sends is younger than those before it.
LEMMA OlderArrives ==
    ASSUME NEW S, NEW s \in Seq(S), NEW k \in S
    PROVE  /\ \A x, y : Older(s, x, y) => Older(s \o <<k>>, x, y)
           /\ \A x \in Range(s) : Older(s \o <<k>>, x, k)
           /\ \A t : Ordered(s, t) => Ordered(s \o <<k>>, t)
<1> DEFINE z == s \o <<k>>
<1>1. /\ Len(s) \in Nat /\ DOMAIN s = 1..Len(s) /\ DOMAIN z = 1..(Len(s) + 1)
      /\ z[Len(s) + 1] = k /\ \A i \in DOMAIN s : z[i] = s[i]
  BY SMTT(30)
<1> HIDE DEF z
<1>2. \A i \in DOMAIN s : i \in DOMAIN z /\ i < Len(s) + 1
  BY <1>1, SMTT(30)
<1>3. Len(s) + 1 \in DOMAIN z
  BY <1>1, SMTT(30)
<1>4. \A x, y : Older(s, x, y) => Older(z, x, y)
  BY <1>1, <1>2 DEF Older
<1>5. \A x \in Range(s) : Older(z, x, k)
  BY <1>1, <1>2, <1>3 DEF Older, Range
<1> QED BY <1>4, <1>5 DEF Ordered, z

\* A payload that goes to the next stage as the oldest of its own, or leaves there.
LEMMA StagePassed ==
    ASSUME StagesApart, UNCHANGED streamed, NEW n \in 1..6, NEW o \in 1..6, o = n + 1,
           NEW x \in Stage(o),
           \A y \in Stage(o) \ {x} : Older(streamed, x, y),
           \A m \in 1..6 : Stage(m)' \subseteq IF m = n THEN Stage(m) \cup {x}
                                              ELSE IF m = o THEN Stage(m) \ {x}
                                              ELSE Stage(m)
    PROVE  StagesApart'
<1> SUFFICES ASSUME NEW l \in 1..6, NEW m \in 1..6, l < m,
                    NEW y \in Stage(l)', NEW z \in Stage(m)'
             PROVE  Older(streamed, y, z)
  BY DEF StagesApart
<1>0. \A i, j \in 1..6 : i < j => \A u \in Stage(i), v \in Stage(j) : Older(streamed, u, v)
  BY DEF StagesApart
<1>1. /\ y \in Stage(l) \/ (l = n /\ y = x)
      /\ z \in Stage(m) \/ (m = n /\ z = x)
      /\ m = o => z \in Stage(o) \ {x}
  BY SMTT(30)
<1>2. /\ l = n => m # n /\ (m # o => o < m)
      /\ m = n => l < o /\ l # n
  BY SMTT(30)
<1>3. CASE y \in Stage(l) /\ z \in Stage(m)
  BY <1>0, <1>3
<1>4. CASE l = n /\ y = x
  BY <1>0, <1>1, <1>2, <1>4
<1>5. CASE m = n /\ z = x
  BY <1>0, <1>1, <1>2, <1>5
<1> QED BY <1>1, <1>3, <1>4, <1>5

\* Payloads that only leave.
LEMMA StagesShrink ==
    ASSUME StagesApart, UNCHANGED streamed, \A m \in 1..6 : Stage(m)' \subseteq Stage(m)
    PROVE  StagesApart'
BY DEF StagesApart

\* A payload the node sends, with nothing behind it.
LEMMA StageArrived ==
    ASSUME StagesApart, NEW n \in 1..6, NEW k \in Keys, streamed \in Seq(Keys),
           streamed' = streamed \o <<k>>,
           \A m \in 1..6 : Stage(m) \subseteq Range(streamed),
           \A m \in 1..6 : m > n => Stage(m)' = {},
           \A m \in 1..6 : Stage(m)' \subseteq IF m = n THEN Stage(m) \cup {k} ELSE Stage(m)
    PROVE  StagesApart'
<1> SUFFICES ASSUME NEW l \in 1..6, NEW m \in 1..6, l < m,
                    NEW y \in Stage(l)', NEW z \in Stage(m)'
             PROVE  Older(streamed', y, z)
  BY DEF StagesApart
<1>1. m <= n /\ l # n
  BY SMTT(30)
<1>2. y \in Stage(l) /\ (z \in Stage(m) \/ z = k)
  BY <1>1
<1>3. CASE z \in Stage(m)
  <2>1. Older(streamed, y, z)
    BY <1>2, <1>3 DEF StagesApart
  <2> QED BY <2>1, OlderArrives
<1>4. CASE z = k
  BY <1>2, <1>4, OlderArrives
<1> QED BY <1>2, <1>3, <1>4

\* Every payload on its way has been streamed.
LEMMA StagesStreamed == ASSUME PartInv PROVE \A m \in 1..6 : Stage(m) \subseteq Range(streamed)
<1>1. \A p \in Places : Holding(p) \subseteq Range(streamed)
  BY DEF PartInv, Parted
<1>2. /\ evicted \subseteq Range(streamed) /\ Range(queue) \subseteq Range(streamed)
      /\ Range(cur) \subseteq Range(streamed) /\ Range(payloads) \subseteq Range(streamed)
      /\ Range(relay) \subseteq Range(streamed) /\ Range(stateDiff) \subseteq Range(streamed)
  BY <1>1 DEF Holding, Places
<1> QED BY <1>2 DEF Stage

LEMMA InitOrder == Init => OrderInv
<1> SUFFICES ASSUME Init PROVE OrderInv
  OBVIOUS
<1>1. /\ stateDiff = <<>> /\ relay = <<>> /\ payloads = <<>> /\ cur = <<>> /\ queue = <<>>
      /\ streamed = <<>> /\ evicted = {}
  BY DEF Init
<1>2. \A m \in 1..6 : Stage(m) = {}
  BY <1>1, Single DEF Stage
<1>3. DOMAIN <<>> = {}
  BY SMTT(30)
<1> QED BY <1>1, <1>2, <1>3, Single DEF OrderInv, StagesApart, Ordered

\* What the send of one payload leaves in a channel.
LEMMA SentOne ==
    ASSUME NEW S, NEW s \in Seq(S), NEW k \in S
    PROVE  /\ Range(s \o <<k>>) = Range(s) \cup {k}
           /\ IsInjective(s) /\ k \notin Range(s) => IsInjective(s \o <<k>>)
<1> DEFINE one == <<k>>
<1>1. one \in Seq(S) /\ Range(one) = {k} /\ IsInjective(one)
  BY Single
<1> HIDE DEF one
<1>2. /\ Range(s \o one) = Range(s) \cup Range(one)
      /\ IsInjective(s) /\ IsInjective(one) /\ Range(s) \cap Range(one) = {}
           => IsInjective(s \o one)
  BY <1>1, Sent
<1>3. /\ Range(s \o one) = Range(s) \cup {k}
      /\ IsInjective(s) /\ k \notin Range(s) => IsInjective(s \o one)
  BY <1>1, <1>2
<1> QED BY <1>3 DEF one

\* The node sends a payload.
LEMMA ArrivalsOrder ==
    ASSUME SyncInv, PartInv, OrderInv, (\E k \in Keys : NodeStreams(k)) \/ PollBlock
    PROVE  OrderInv'
<1>0. streamed \in Seq(Keys) /\ stateDiff \in Seq(Keys)
  BY DEF SyncInv, ChainInv, InputOK
<1>1. ASSUME NEW k \in Keys, NodeStreams(k) PROVE OrderInv'
  <2>1. /\ source = "eth" /\ k \notin Range(streamed)
        /\ streamed' = Append(streamed, k) /\ stateDiff' = Append(stateDiff, k)
        /\ UNCHANGED <<source, relay, payloads, cur, queue, evicted>>
    BY <1>1 DEF NodeStreams, bitcoin, fates
  <2>2. <<k>> \in Seq(Keys) /\ Range(<<k>>) = {k} /\ Len(<<k>>) = 1
    BY Single
  <2>3. streamed' = streamed \o <<k>>
    BY <1>0, <2>1, SMTT(30)
  <2>4. stateDiff' = stateDiff \o <<k>>
    BY <1>0, <2>1, SMTT(30)
  <2>5. \A m \in 1..6 : Stage(m) \subseteq Range(streamed)
    BY StagesStreamed
  <2>6. Range(stateDiff) \subseteq Range(streamed)
    <3>1. 6 \in 1..6 /\ Stage(6) = Range(stateDiff)
      BY SMTT(30) DEF Stage
    <3> QED BY <2>5, <3>1
  <2>7. Range(stateDiff') = Range(stateDiff) \cup {k}
    BY <1>0, <2>4, SentOne, SMTT(30)
  <2>8. \A m \in 1..6 : Stage(m)' \subseteq IF m = 6 THEN Stage(m) \cup {k} ELSE Stage(m)
    BY <2>1, <2>7, SMTT(30) DEF Stage
  <2>9. StagesApart'
    <3>1. 6 \in 1..6 /\ \A m \in 1..6 : ~(m > 6)
      BY SMTT(30)
    <3> QED BY <1>0, <2>3, <2>5, <2>8, <3>1, StageArrived DEF OrderInv
  <2>10. IsInjective(streamed')
    <3>1. IsInjective(streamed) /\ k \notin Range(streamed)
      BY <2>1 DEF OrderInv
    <3> QED BY <1>0, <2>3, <3>1, SentOne
  <2>11. /\ Ordered(streamed', queue) /\ Ordered(streamed', payloads)
         /\ Ordered(streamed', stateDiff)
    BY <1>0, <2>3, OlderArrives DEF OrderInv
  <2>12. \A x \in Range(stateDiff), y \in Range(<<k>>) : Older(streamed', x, y)
    BY <1>0, <2>2, <2>3, <2>6, OlderArrives
  <2>13. Ordered(streamed', stateDiff')
    <3>1. Len(<<k>>) <= 1
      BY <2>2, SMTT(30)
    <3> QED BY <1>0, <2>2, <2>4, <2>11, <2>12, <3>1, OrderedSend
  <2> QED BY <2>1, <2>9, <2>10, <2>11, <2>13 DEF OrderInv
<1>2. CASE PollBlock
  <2>1. PICK k \in Keys : poll.block = <<k>> /\ k \notin Range(streamed)
    BY <1>2, PollBlockChain DEF SyncInv
  <2>2. /\ relay = <<>> /\ relay' = <<k>> /\ streamed' = streamed \o <<k>> /\ source = "btc"
        /\ UNCHANGED <<source, stateDiff, payloads, cur, queue, evicted>>
    BY <1>2, <2>1 DEF PollBlock, Polls, fates
  <2>3. stateDiff = <<>> /\ Range(stateDiff) = {} /\ Range(relay') = {k} /\ Range(relay) = {}
    BY <2>2, Single DEF OrderInv
  <2>4. /\ \A m \in 1..6 : Stage(m)' \subseteq IF m = 5 THEN Stage(m) \cup {k} ELSE Stage(m)
        /\ \A m \in 1..6 : m > 5 => Stage(m)' = {}
    BY <2>2, <2>3, SMTT(30) DEF Stage
  <2>5. StagesApart'
    <3>1. 5 \in 1..6
      BY SMTT(30)
    <3> QED BY <1>0, <2>2, <2>4, <3>1, StageArrived, StagesStreamed DEF OrderInv
  <2>6. IsInjective(streamed')
    BY <1>0, <2>1, <2>2, SentOne DEF OrderInv
  <2>7. /\ Ordered(streamed', queue) /\ Ordered(streamed', payloads)
        /\ Ordered(streamed', stateDiff)
    BY <1>0, <2>2, OlderArrives DEF OrderInv
  <2> QED BY <2>2, <2>3, <2>5, <2>6, <2>7 DEF OrderInv
<1> QED BY <1>1, <1>2

\* The relay goroutine and the Sync goroutine move payloads on, oldest first.
LEMMA RelayOrder == ASSUME SyncInv, PartInv, OrderInv, Relay PROVE OrderInv'
<1>0. /\ stateDiff \in Seq(Keys) /\ payloads \in Seq(Keys) /\ relay \in Seq(Keys)
      /\ Len(relay) <= 1 /\ IsInjective(stateDiff) /\ StagesApart
  BY DEF SyncInv, InputOK, PartInv, OrderInv
<1>1. CASE RelayTakes
  <2>1. /\ relay = <<>> /\ stateDiff # <<>>
        /\ relay' = <<Head(stateDiff)>> /\ stateDiff' = Tail(stateDiff)
        /\ UNCHANGED <<source, streamed, payloads, cur, queue, evicted>>
    BY <1>1 DEF RelayTakes, bitcoin, fates
  <2>2. /\ Head(stateDiff) \in Range(stateDiff)
        /\ Range(stateDiff') = Range(stateDiff) \ {Head(stateDiff)}
        /\ Range(relay) = {} /\ Range(relay') = {Head(stateDiff)}
    BY <1>0, <2>1, Received, Single
  <2>3. /\ Ordered(streamed, stateDiff')
        /\ \A y \in Range(stateDiff) \ {Head(stateDiff)} : Older(streamed, Head(stateDiff), y)
    BY <1>0, <2>1, OrderedReceive DEF OrderInv
  <2>4. /\ 5 \in 1..6 /\ 6 \in 1..6 /\ 6 = 5 + 1
        /\ Head(stateDiff) \in Stage(6)
        /\ \A y \in Stage(6) \ {Head(stateDiff)} : Older(streamed, Head(stateDiff), y)
        /\ \A m \in 1..6 : Stage(m)' \subseteq
             IF m = 5 THEN Stage(m) \cup {Head(stateDiff)}
             ELSE IF m = 6 THEN Stage(m) \ {Head(stateDiff)} ELSE Stage(m)
    BY <2>1, <2>2, <2>3, SMTT(30) DEF Stage
  <2>5. StagesApart'
    <3>1. StagesApart /\ UNCHANGED streamed
      BY <1>0, <2>1
    <3> QED BY <2>4, <3>1, StagePassed, SMTT(30)
  <2>6. source' # "btc"
    BY <2>1 DEF OrderInv
  <2> QED BY <2>1, <2>3, <2>5, <2>6 DEF OrderInv
<1>2. CASE RelaySends
  <2>1. /\ relay # <<>> /\ payloads' = payloads \o relay /\ relay' = <<>>
        /\ UNCHANGED <<source, streamed, stateDiff, cur, queue, evicted>>
    BY <1>2 DEF RelaySends, bitcoin, fates
  <2>2. Range(relay) = {Head(relay)} /\ Range(relay') = {}
    BY <1>0, <2>1, AtMostOne, Single
  <2>3. Range(payloads') = Range(payloads) \cup {Head(relay)}
    BY <1>0, <2>1, <2>2, Sent, SMTT(30)
  <2>4. /\ 4 \in 1..6 /\ 5 \in 1..6 /\ 5 = 4 + 1
        /\ Head(relay) \in Stage(5)
        /\ \A y \in Stage(5) \ {Head(relay)} : Older(streamed, Head(relay), y)
        /\ \A m \in 1..6 : Stage(m)' \subseteq
             IF m = 4 THEN Stage(m) \cup {Head(relay)}
             ELSE IF m = 5 THEN Stage(m) \ {Head(relay)} ELSE Stage(m)
    BY <2>1, <2>2, <2>3, SMTT(30) DEF Stage
  <2>5. StagesApart'
    <3>1. StagesApart /\ UNCHANGED streamed
      BY <1>0, <2>1
    <3> QED BY <2>4, <3>1, StagePassed, SMTT(30)
  <2>6. \A x \in Range(payloads), y \in Range(relay) : Older(streamed, x, y)
    <3>1. 4 \in 1..6 /\ 5 \in 1..6 /\ 4 < 5 /\ Stage(4) = Range(payloads) /\ Stage(5) = Range(relay)
      BY SMTT(30) DEF Stage
    <3> QED BY <1>0, <3>1 DEF StagesApart
  <2>7. Ordered(streamed, payloads')
    BY <1>0, <2>1, <2>6, OrderedSend DEF OrderInv
  <2> QED BY <2>1, <2>5, <2>7 DEF OrderInv
<1> QED BY <1>1, <1>2 DEF Relay

LEMMA ReceiveOrder ==
    ASSUME SyncInv, PartInv, OrderInv, Receive \/ ReceiveFails PROVE OrderInv'
<1>0. /\ payloads \in Seq(Keys) /\ IsInjective(payloads) /\ StagesApart
      /\ pc = "select" => cur = <<>>
  BY DEF SyncInv, InputOK, SyncOK, PartInv, OrderInv
<1>1. /\ payloads # <<>> /\ payloads' = Tail(payloads) /\ cur = <<>>
      /\ cur' = cur \/ cur' = <<Head(payloads)>>
      /\ UNCHANGED <<source, streamed, stateDiff, relay, queue, evicted>>
  BY <1>0 DEF Receive, ReceiveFails, bitcoin, fates
<1>2. /\ Head(payloads) \in Range(payloads)
      /\ Range(payloads') = Range(payloads) \ {Head(payloads)}
      /\ Range(cur) = {} /\ Range(cur') \subseteq {Head(payloads)}
  BY <1>0, <1>1, Received, Single
<1>3. /\ Ordered(streamed, payloads')
      /\ \A y \in Range(payloads) \ {Head(payloads)} : Older(streamed, Head(payloads), y)
  BY <1>0, <1>1, OrderedReceive DEF OrderInv
<1>4. /\ 3 \in 1..6 /\ 4 \in 1..6 /\ 4 = 3 + 1
      /\ Head(payloads) \in Stage(4)
      /\ \A y \in Stage(4) \ {Head(payloads)} : Older(streamed, Head(payloads), y)
      /\ \A m \in 1..6 : Stage(m)' \subseteq
           IF m = 3 THEN Stage(m) \cup {Head(payloads)}
           ELSE IF m = 4 THEN Stage(m) \ {Head(payloads)} ELSE Stage(m)
  BY <1>1, <1>2, <1>3, SMTT(30) DEF Stage
<1>5. StagesApart'
  <2>1. StagesApart /\ UNCHANGED streamed
    BY <1>0, <1>1
  <2> QED BY <1>4, <2>1, StagePassed, SMTT(30)
<1> QED BY <1>1, <1>3, <1>5 DEF OrderInv

LEMMA QueueOrder ==
    ASSUME SyncInv, PartInv, OrderInv, Enqueue \/ Evict \/ Requeue PROVE OrderInv'
<1>0. /\ queue \in Seq(Keys) /\ cur \in Seq(Keys) /\ Len(cur) <= 1 /\ IsInjective(queue)
      /\ cur = <<>> <=> pc \in {"spawned", "select", "returned"}
      /\ StagesApart /\ UNCHANGED <<source, streamed, stateDiff, relay, payloads>>
  BY DEF SyncInv, SyncOK, PartInv, OrderInv, Enqueue, Evict, Requeue, input, bitcoin
<1>1. CASE UNCHANGED <<queue, cur, evicted>>
  <2>1. \A m \in 1..6 : Stage(m)' \subseteq Stage(m)
    BY <1>0, <1>1 DEF Stage
  <2> QED BY <1>0, <1>1, <2>1, StagesShrink DEF OrderInv
<1>2. CASE /\ queue' = queue \o cur /\ cur' = <<>> /\ pc \in {"queue", "requeue"}
           /\ UNCHANGED evicted
  <2>1. cur # <<>>
    BY <1>0, <1>2
  <2>2. Range(cur) = {Head(cur)} /\ Range(cur') = {}
    BY <1>0, <1>2, <2>1, AtMostOne, Single
  <2>3. Range(queue') = Range(queue) \cup {Head(cur)}
    BY <1>0, <1>2, <2>2, Sent, SMTT(30)
  <2>4. /\ 2 \in 1..6 /\ 3 \in 1..6 /\ 3 = 2 + 1
        /\ Head(cur) \in Stage(3)
        /\ \A y \in Stage(3) \ {Head(cur)} : Older(streamed, Head(cur), y)
        /\ \A m \in 1..6 : Stage(m)' \subseteq
             IF m = 2 THEN Stage(m) \cup {Head(cur)}
             ELSE IF m = 3 THEN Stage(m) \ {Head(cur)} ELSE Stage(m)
    BY <1>0, <1>2, <2>2, <2>3, SMTT(30) DEF Stage
  <2>5. StagesApart'
    BY <1>0, <2>4, StagePassed, SMTT(30)
  <2>6. \A x \in Range(queue), y \in Range(cur) : Older(streamed, x, y)
    <3>1. 2 \in 1..6 /\ 3 \in 1..6 /\ 2 < 3 /\ Stage(2) = Range(queue) /\ Stage(3) = Range(cur)
      BY SMTT(30) DEF Stage
    <3> QED BY <1>0, <3>1 DEF StagesApart
  <2>7. Ordered(streamed, queue')
    BY <1>0, <1>2, <2>6, OrderedSend DEF OrderInv
  <2> QED BY <1>0, <2>5, <2>7 DEF OrderInv
<1>3. CASE Evict
  <2>1. /\ queue # <<>> /\ queue' = Tail(queue) /\ evicted' = evicted \cup {Head(queue)}
        /\ UNCHANGED cur
    BY <1>3 DEF Evict
  <2>2. Head(queue) \in Range(queue) /\ Range(queue') = Range(queue) \ {Head(queue)}
    BY <1>0, <2>1, Received
  <2>3. /\ Ordered(streamed, queue')
        /\ \A y \in Range(queue) \ {Head(queue)} : Older(streamed, Head(queue), y)
    BY <1>0, <2>1, OrderedReceive DEF OrderInv
  <2>4. /\ 1 \in 1..6 /\ 2 \in 1..6 /\ 2 = 1 + 1
        /\ Head(queue) \in Stage(2)
        /\ \A y \in Stage(2) \ {Head(queue)} : Older(streamed, Head(queue), y)
        /\ \A m \in 1..6 : Stage(m)' \subseteq
             IF m = 1 THEN Stage(m) \cup {Head(queue)}
             ELSE IF m = 2 THEN Stage(m) \ {Head(queue)} ELSE Stage(m)
    BY <1>0, <2>1, <2>2, <2>3, SMTT(30) DEF Stage
  <2>5. StagesApart'
    BY <1>0, <2>4, StagePassed, SMTT(30)
  <2> QED BY <1>0, <2>1, <2>3, <2>5 DEF OrderInv
<1> QED BY <1>1, <1>2, <1>3 DEF Enqueue, Requeue, fates

\* A worker takes the oldest payload of the queue; its other steps move none.
LEMMA WorkerOrder ==
    ASSUME SyncInv, PartInv, OrderInv, NEW w \in Workers,
           WorkerStep(w) \/ WorkFails(w) \/ CommitFails(w)
    PROVE  OrderInv'
<1>0. /\ queue \in Seq(Keys) /\ IsInjective(queue) /\ StagesApart
      /\ UNCHANGED <<source, streamed, stateDiff, relay, payloads, cur, evicted>>
  BY DEF SyncInv, SyncOK, PartInv, OrderInv, WorkerStep, WorkerStart, Take, Publish, Index,
         WorkerQuit, WorkFails, CommitFails, input, bitcoin, fates
<1>1. CASE UNCHANGED queue
  <2>1. \A m \in 1..6 : Stage(m)' \subseteq Stage(m)
    BY <1>0, <1>1 DEF Stage
  <2> QED BY <1>0, <1>1, <2>1, StagesShrink DEF OrderInv
<1>2. CASE Take(w)
  <2>1. queue # <<>> /\ queue' = Tail(queue)
    BY <1>2 DEF Take
  <2>2. Range(queue') \subseteq Range(queue)
    BY <1>0, <2>1, Received
  <2>3. \A m \in 1..6 : Stage(m)' \subseteq Stage(m)
    BY <1>0, <2>2 DEF Stage
  <2>4. Ordered(streamed, queue')
    BY <1>0, <2>1, OrderedReceive DEF OrderInv
  <2> QED BY <1>0, <2>3, <2>4, StagesShrink DEF OrderInv
<1> QED BY <1>1, <1>2 DEF WorkerStep, WorkerStart, Publish, Index, WorkerQuit, WorkFails,
                          CommitFails

LEMMA NextOrder == SyncInv /\ PartInv /\ OrderInv /\ [Next]_vars => OrderInv'
<1> SUFFICES ASSUME SyncInv, PartInv, OrderInv, [Next]_vars PROVE OrderInv'
  OBVIOUS
<1>1. CASE (\E k \in Keys : NodeStreams(k)) \/ PollBlock
  BY <1>1, ArrivalsOrder
<1>2. CASE Relay
  BY <1>2, RelayOrder
<1>3. CASE Receive \/ ReceiveFails
  BY <1>3, ReceiveOrder
<1>4. CASE Enqueue \/ Evict \/ Requeue
  BY <1>4, QueueOrder
<1>5. CASE \E w \in Workers : WorkerStep(w) \/ WorkFails(w) \/ CommitFails(w)
  BY <1>5, WorkerOrder
<1>6. CASE \/ \E k \in Keys : NodeMines(k)
           \/ NodeFails \/ PollCount \/ PollHash \/ PollFails \/ SyncStart \/ SubError
           \/ SyncQuit \/ Forward \/ ServeReceives \/ Stop \/ Exit \/ UNCHANGED vars
  <2>1. UNCHANGED <<source, streamed, stateDiff, relay, payloads, cur, queue, evicted>>
    BY <1>6 DEF NodeMines, NodeFails, PollCount, PollHash, PollFails, SyncStart, SubError,
                SyncQuit, Forward, ServeReceives, Stop, Exit, vars, input, bitcoin, fates
  <2>2. \A m \in 1..6 : Stage(m)' \subseteq Stage(m)
    BY <2>1 DEF Stage
  <2> QED BY <2>1, <2>2, StagesShrink DEF OrderInv
<1> QED BY <1>1, <1>2, <1>3, <1>4, <1>5, <1>6 DEF Next, SyncStep, Poll

\* The age of a payload is its place in what was streamed.
LEMMA AgeOf ==
    ASSUME NEW S, NEW s \in Seq(S), IsInjective(s), NEW x, NEW y, Older(s, x, y)
    PROVE  (CHOOSE i \in DOMAIN s : s[i] = x) < (CHOOSE i \in DOMAIN s : s[i] = y)
<1>1. PICK i \in DOMAIN s, j \in DOMAIN s : i < j /\ s[i] = x /\ s[j] = y
  BY DEF Older
<1>2. (CHOOSE n \in DOMAIN s : s[n] = x) = i
  BY <1>1 DEF IsInjective
<1>3. (CHOOSE n \in DOMAIN s : s[n] = y) = j
  BY <1>1 DEF IsInjective
<1> QED BY <1>1, <1>2, <1>3

\* NewestKept for any number of workers, blocks, faults and capacities: the ring
\* buffer of publishAndIndexPayload is in the order of the node, and what it drops
\* is older than all it keeps.
THEOREM NewestKeptHolds == Spec => []NewestKept
<1>1. SyncInv /\ OrderInv => NewestKept
  <2> SUFFICES ASSUME SyncInv, OrderInv PROVE NewestKept
    OBVIOUS
  <2> DEFINE age(k) == CHOOSE i \in DOMAIN streamed : streamed[i] = k
             held == IF pc = "requeue" THEN cur ELSE <<>>
             kept == queue \o held
  <2>1. /\ streamed \in Seq(Keys) /\ IsInjective(streamed) /\ queue \in Seq(Keys)
        /\ cur \in Seq(Keys) /\ Len(cur) <= 1 /\ StagesApart /\ Ordered(streamed, queue)
    BY DEF SyncInv, ChainInv, SyncOK, OrderInv
  <2>2. /\ held \in Seq(Keys) /\ Len(held) <= 1 /\ Range(held) \subseteq Range(cur)
    BY <2>1, Single, SMTT(30)
  <2> HIDE DEF held
  <2>3. /\ 1 \in 1..6 /\ 2 \in 1..6 /\ 3 \in 1..6 /\ 1 < 2 /\ 1 < 3 /\ 2 < 3
        /\ Stage(1) = evicted /\ Stage(2) = Range(queue) /\ Stage(3) = Range(cur)
    BY SMTT(30) DEF Stage
  <2>4. /\ \A x \in Range(queue), y \in Range(cur) : Older(streamed, x, y)
        /\ \A x \in evicted, y \in Range(queue) \cup Range(cur) : Older(streamed, x, y)
    BY <2>1, <2>3 DEF StagesApart
  <2>5. Ordered(streamed, kept)
    BY <2>1, <2>2, <2>4, OrderedSend
  <2>6. Range(kept) = Range(queue) \cup Range(held)
    BY <2>1, <2>2, Sent
  <2> HIDE DEF kept
  <2>7. \A x, y : Older(streamed, x, y) => age(x) < age(y)
    BY <2>1, AgeOf
  <2>8. \A i \in DOMAIN kept : kept[i] \in Range(queue) \cup Range(cur)
    BY <2>2, <2>6 DEF Range
  <2> HIDE DEF age
  <2>9. /\ \A i, j \in DOMAIN kept : i < j => age(kept[i]) < age(kept[j])
        /\ \A k \in evicted : \A i \in DOMAIN kept : age(k) < age(kept[i])
    BY <2>4, <2>5, <2>7, <2>8 DEF Ordered
  <2> QED BY <2>9 DEF NewestKept, kept, held, age
<1>2. Spec => [](SyncInv /\ PartInv /\ OrderInv)
  BY InitPart, NextPart, InitOrder, NextOrder, SyncInvHolds, PTL DEF Spec
<1> QED BY <1>1, <1>2, PTL
=============================================================================
