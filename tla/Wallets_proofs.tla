--------------------------- MODULE Wallets_proofs ---------------------------
(***************************************************************************)
(* The registry and the allocation of wallets, for any number of chains,   *)
(* registrations, allocations, stored attestations and restarts.           *)
(***************************************************************************)
EXTENDS Wallets, SequenceTheorems, WellFoundedInduction, TLAPS

Adapter == [chain : Chains, made : Nat]
Registration == [adapters : SUBSET Adapter, disposed : BOOLEAN]

(* The adapters that the n-th registration holds for a chain, the          *)
(* registrations that concern it, and the last of these.                   *)
Of(n, c) == {a \in regs[n].adapters : a.chain = c}
Calls(c) == {n \in DOMAIN regs : Of(n, c) # {}}
LastOf(c) == Max(Calls(c))

WinsAt(c, m) ==
  (\A n \in Calls(c) \ {m} : Of(n, c) \cap Of(m, c) = {}) =>
    registry[c] = IF regs[m].disposed THEN None ELSE CHOOSE a \in Of(m, c) : TRUE

(* There is a last registration: each new one is. *)
LastWinsAt(c) ==
  /\ Calls(c) = {} => registry[c] = None
  /\ Calls(c) # {} => \E m \in Calls(c) : m = LastOf(c) /\ WinsAt(c, m)

RegistryInv ==
  /\ regs \in Seq(Registration)
  /\ DOMAIN registry = Chains
  /\ \A c \in Chains : LastWinsAt(c)

LEMMA LastWinsSplit == (\A c \in Chains : LastWinsAt(c)) => LastWins
BY DEF LastWins, LastWinsAt, WinsAt, Of, Calls, LastOf

(* Of a set of naturals, an element above the others is the maximum. *)
LEMMA MaxIs ==
  ASSUME NEW S \in SUBSET Nat, NEW m \in S, \A k \in S : k <= m
  PROVE  Max(S) = m
<1>1. \A y \in S : m >= y
  OBVIOUS
<1>2. \A x \in S : (\A y \in S : x >= y) => x = m
  OBVIOUS
<1> QED BY <1>1, <1>2 DEF Max

LEMMA RegisteredKeeps ==
  ASSUME RegistryInv, NEW adapters \in SUBSET Adapter, Registered(adapters),
         \A a, b \in adapters : a.chain = b.chain => a = b
  PROVE  RegistryInv'
<1> DEFINE new == [adapters |-> adapters, disposed |-> FALSE]
<1>0. PICK n : n = Len(regs) + 1
  OBVIOUS
<1>1. /\ regs' = Append(regs, new) /\ new \in Registration
      /\ registry' = [c \in Chains |->
           IF \E a \in adapters : a.chain = c
           THEN CHOOSE a \in adapters : a.chain = c ELSE registry[c]]
  BY DEF Registered, Registration
<1>2. /\ regs' \in Seq(Registration) /\ DOMAIN regs' = 1..n /\ regs'[n] = new
      /\ \A k \in DOMAIN regs : regs'[k] = regs[k]
      /\ n \in Nat \ {0} /\ DOMAIN regs = 1..(n - 1)
  BY <1>0, <1>1 DEF RegistryInv
<1> HIDE DEF new
<1>5. regs'[n].adapters = adapters /\ regs'[n].disposed = FALSE
  BY <1>2 DEF new
<1>3. ASSUME NEW c \in Chains
      PROVE  LastWinsAt(c)'
  <2>1. \A k \in DOMAIN regs : Of(k, c)' = Of(k, c)
    BY <1>2 DEF Of
  <2>2. Of(n, c)' = {a \in adapters : a.chain = c}
    BY <1>5 DEF Of
  <2>3. CASE \E a \in adapters : a.chain = c
    <3>1. PICK a \in adapters : a.chain = c
      BY <2>3
    <3>2. Of(n, c)' = {a}
      BY <2>2, <3>1
    <3>3. Calls(c)' \in SUBSET Nat /\ n \in Calls(c)' /\ \A k \in Calls(c)' : k <= n
      <4>1. Calls(c)' = {k \in 1..n : Of(k, c)' # {}}
        BY <1>2 DEF Calls
      <4>2. n \in 1..n
        BY <1>2
      <4>3. n \in Calls(c)'
        BY <3>2, <4>1, <4>2
      <4> QED BY <1>2, <4>1, <4>3
    <3>4. LastOf(c)' = n
      BY <3>3, MaxIs DEF LastOf
    <3>5. registry'[c] = a /\ regs'[n].disposed = FALSE
      BY <1>1, <1>5, <3>1
    <3>6. WinsAt(c, n)'
      BY <3>2, <3>5 DEF WinsAt
    <3> QED BY <3>3, <3>4, <3>6 DEF LastWinsAt
  <2>4. CASE ~\E a \in adapters : a.chain = c
    <3>1. Of(n, c)' = {}
      BY <2>2, <2>4
    <3>2. Calls(c)' = Calls(c)
      BY <1>2, <2>1, <3>1 DEF Calls
    <3>3. LastOf(c)' = LastOf(c) /\ registry'[c] = registry[c]
      BY <1>1, <2>4, <3>2 DEF LastOf
    <3>4. LastWinsAt(c) /\ Calls(c) \subseteq DOMAIN regs
      BY DEF RegistryInv, Calls
    <3>5. \A k \in Calls(c) : Of(k, c)' = Of(k, c) /\ regs'[k] = regs[k]
      BY <1>2, <2>1, <3>4
    <3>6. \A m \in Calls(c) : WinsAt(c, m) => WinsAt(c, m)'
      BY <3>2, <3>3, <3>5 DEF WinsAt
    <3> QED BY <3>2, <3>3, <3>4, <3>6 DEF LastWinsAt
  <2> QED BY <2>3, <2>4
<1>4. DOMAIN registry' = Chains
  BY <1>1
<1> QED BY <1>2, <1>3, <1>4 DEF RegistryInv

LEMMA DisposeKeeps ==
  ASSUME RegistryInv, NEW n \in 1..MaxRegs, Dispose(n)
  PROVE  RegistryInv'
<1>1. /\ n \in DOMAIN regs /\ ~regs[n].disposed
      /\ regs' = [regs EXCEPT ![n].disposed = TRUE]
      /\ registry' = [c \in Chains |->
           IF \E a \in regs[n].adapters : a.chain = c /\ Deletes(a)
           THEN None ELSE registry[c]]
  BY DEF Dispose
<1>2. /\ regs' \in Seq(Registration) /\ DOMAIN regs' = DOMAIN regs
      /\ \A k \in DOMAIN regs : regs'[k].adapters = regs[k].adapters
      /\ regs'[n].disposed /\ \A k \in DOMAIN regs \ {n} : regs'[k] = regs[k]
  <2>1. regs[n] \in Registration
    BY <1>1 DEF RegistryInv
  <2>2. [regs[n] EXCEPT !.disposed = TRUE] \in Registration
    BY <2>1 DEF Registration
  <2>3. [regs[n] EXCEPT !.disposed = TRUE].adapters = regs[n].adapters
    BY <2>1 DEF Registration
  <2>4. [regs[n] EXCEPT !.disposed = TRUE].disposed
    BY <2>1 DEF Registration
  <2>5. regs' = [regs EXCEPT ![n] = [regs[n] EXCEPT !.disposed = TRUE]]
    BY <1>1
  <2> DEFINE r == [regs[n] EXCEPT !.disposed = TRUE]
  <2> HIDE DEF r
  <2>6. regs' = [regs EXCEPT ![n] = r] /\ r \in Registration
    BY <2>2, <2>5 DEF r
  <2>7. regs' \in Seq(Registration)
    <3>1. regs \in Seq(Registration) /\ n \in 1..Len(regs)
      BY <1>1 DEF RegistryInv
    <3> QED BY <2>6, <3>1, ExceptSeq
  <2>8. /\ DOMAIN regs' = DOMAIN regs /\ regs'[n] = r
        /\ \A k \in DOMAIN regs \ {n} : regs'[k] = regs[k]
    BY <1>1, <2>6 DEF RegistryInv
  <2> QED BY <2>3, <2>4, <2>7, <2>8 DEF r
<1>3. ASSUME NEW c \in Chains
      PROVE  LastWinsAt(c)'
  <2>1. \A k \in DOMAIN regs : Of(k, c)' = Of(k, c)
    BY <1>2 DEF Of
  <2>2. Calls(c)' = Calls(c)
    BY <1>2, <2>1 DEF Calls
  <2>3. LastOf(c)' = LastOf(c)
    BY <2>2 DEF LastOf
  <2>4. LastWinsAt(c) /\ Calls(c) \subseteq DOMAIN regs
    BY DEF RegistryInv, Calls
  <2>5. registry'[c] = IF \E a \in Of(n, c) : registry[c] = a THEN None ELSE registry[c]
    BY <1>1 DEF Deletes, Of
  <2>6. ASSUME NEW m \in Calls(c), WinsAt(c, m),
               \A k \in Calls(c) \ {m} : Of(k, c) \cap Of(m, c) = {}
        PROVE  registry'[c] = IF regs'[m].disposed THEN None ELSE CHOOSE a \in Of(m, c) : TRUE
    <3>1. m \in DOMAIN regs /\ Of(m, c) # {}
      BY DEF Calls
    <3>2. registry[c] = IF regs[m].disposed THEN None ELSE CHOOSE a \in Of(m, c) : TRUE
      BY <2>6 DEF WinsAt
    <3>3. CASE n = m
      <4>1. registry[c] \in Of(n, c)
        BY <1>1, <3>1, <3>2, <3>3
      <4> QED BY <1>2, <2>5, <3>3, <4>1
    <3>4. CASE n # m
      <4>1. regs'[m] = regs[m]
        BY <1>2, <3>1, <3>4
      <4>2. regs[m].disposed \/ registry[c] \notin Of(n, c)
        <5>1. (CHOOSE a \in Of(m, c) : TRUE) \in Of(m, c)
          BY <3>1
        <5>2. Of(n, c) # {} => n \in Calls(c) \ {m}
          BY <1>1, <3>4 DEF Calls
        <5>3. Of(n, c) = {} \/ Of(n, c) \cap Of(m, c) = {}
          BY <2>6, <5>2
        <5> QED BY <3>2, <5>1, <5>3
      <4>3. registry'[c] = registry[c]
        BY <2>5, <3>2, <4>2
      <4> QED BY <3>2, <4>1, <4>3
    <3> QED BY <3>3, <3>4
  <2>7. \A m \in Calls(c) : WinsAt(c, m) => WinsAt(c, m)'
    <3> SUFFICES ASSUME NEW m \in Calls(c), WinsAt(c, m) PROVE WinsAt(c, m)'
      OBVIOUS
    <3>1. \A k \in Calls(c) : Of(k, c)' = Of(k, c)
      BY <2>1, <2>4
    <3> QED BY <2>2, <2>6, <3>1 DEF WinsAt
  <2>8. Calls(c) = {} => registry'[c] = None
    BY <2>4, <2>5 DEF LastWinsAt
  <2> QED BY <2>2, <2>3, <2>4, <2>7, <2>8 DEF LastWinsAt
<1>4. DOMAIN registry' = Chains
  BY <1>1
<1> QED BY <1>2, <1>3, <1>4 DEF RegistryInv

-----------------------------------------------------------------------------
(***************************************************************************)
(* The next index.                                                         *)
(***************************************************************************)
(* A bounded set of naturals has a maximum. *)
LEMMA MaxExists ==
  ASSUME NEW n \in Nat, NEW S \in SUBSET (0..n), S # {}
  PROVE  \E m \in S : Max(S) = m /\ \A k \in S : k <= m
<1> DEFINE T == {n - k : k \in S}
<1>1. T \subseteq Nat /\ T # {}
  <2>1. \A k \in S : n - k \in Nat
    OBVIOUS
  <2>2. \A y \in T : y \in Nat
    BY <2>1
  <2>3. PICK k \in S : TRUE
    OBVIOUS
  <2>4. n - k \in T
    OBVIOUS
  <2> QED BY <2>2, <2>4
<1>2. PICK x \in T : \A y \in T : ~(<<y, x>> \in OpToRel(<, Nat))
  BY <1>1, NatLessThanWellFounded, WFMin
<1>3. \A y \in T : ~(y < x)
  BY <1>1, <1>2 DEF OpToRel
<1>4. PICK m \in S : x = n - m
  OBVIOUS
<1>5. \A k \in S : k <= m
  <2> SUFFICES ASSUME NEW k \in S PROVE k <= m
    OBVIOUS
  <2>1. n - k \in T
    OBVIOUS
  <2> QED BY <1>3, <1>4, <2>1
<1> HIDE DEF T
<1>6. S \in SUBSET Nat
  OBVIOUS
<1>7. Max(S) = m
  BY <1>5, <1>6, MaxIs
<1> QED BY <1>5, <1>7

(* The path of the next index is none of those used. *)
LEMMA NextIsFresh ==
  ASSUME NEW paths, paths \subseteq Seq(Nat), NEW index,
         index = NextPaymentIndex(paths), index \in 0..MaxPlainIndex
  PROVE  PaymentPath(index) \notin paths
<1> SUFFICES ASSUME PaymentPath(index) \in paths PROVE FALSE
  OBVIOUS
<1>1. Parsed(paths) \subseteq 0..MaxPlainIndex
  BY Slip10Assumption DEF Parsed
<1>2. index \in Parsed(paths)
  <2>1. Len(PaymentPath(index)) = 4 /\ PaymentPath(index)[3] = index
    BY DEF PaymentPath
  <2> QED BY <2>1 DEF Parsed
<1>3. PICK m \in Parsed(paths) : Max(Parsed(paths)) = m /\ \A k \in Parsed(paths) : k <= m
  BY <1>1, <1>2, MaxExists, Slip10Assumption
<1>4. index = m + 1
  BY <1>2, <1>3 DEF NextPaymentIndex
<1> QED BY <1>1, <1>2, <1>3, <1>4

-----------------------------------------------------------------------------
(***************************************************************************)
(* Derivation.  A payment path has four components, so what the fold of    *)
(* DerivePath returns is found by unfolding it: no induction is needed.    *)
(***************************************************************************)
(* One turn of the loop of deriveChildPath: the components of a set s of   *)
(* positions, the last of them after what g gives for the others.          *)
Turn(node, path, g, s) ==
  IF s = {} THEN node
  ELSE DeriveHardenedChild(g[s \ {Max(s)}], path[Max(s)] + HardenedBit)

Turned(node, path, g) == [s \in SUBSET (1..4) |-> Turn(node, path, g, s)]

Fold(node, path) ==
  CHOOSE iter : iter = [s \in SUBSET (1..4) |->
    IF s = {} THEN node
    ELSE DeriveHardenedChild(iter[s \ {Max(s)}], path[Max(s)] + HardenedBit)]

(* What is left of a set of positions without its last. *)
LEMMA WithoutLast ==
  ASSUME NEW n \in Nat, NEW s \in SUBSET (1..(n + 1)), s # {}
  PROVE  s \ {Max(s)} \in SUBSET (1..n)
<1>1. PICK m \in s : Max(s) = m /\ \A k \in s : k <= m
  <2>1. n + 1 \in Nat /\ s \in SUBSET (0..(n + 1))
    OBVIOUS
  <2> QED BY <2>1, MaxExists
<1> QED BY <1>1

(* Two functions that agree on the sets of n positions agree on those of   *)
(* n + 1 after a turn. *)
LEMMA TurnAgrees ==
  ASSUME NEW n \in 0..3, NEW node, NEW path, NEW g, NEW h,
         \A s \in SUBSET (1..n) : g[s] = h[s]
  PROVE  \A s \in SUBSET (1..(n + 1)) : Turned(node, path, g)[s] = Turned(node, path, h)[s]
<1> SUFFICES ASSUME NEW s \in SUBSET (1..(n + 1))
             PROVE  Turned(node, path, g)[s] = Turned(node, path, h)[s]
  OBVIOUS
<1>1. s \in SUBSET (1..4)
  OBVIOUS
<1>2. s # {} => g[s \ {Max(s)}] = h[s \ {Max(s)}]
  <2> SUFFICES ASSUME s # {} PROVE g[s \ {Max(s)}] = h[s \ {Max(s)}]
    OBVIOUS
  <2>1. n \in Nat
    OBVIOUS
  <2>2. s \ {Max(s)} \in SUBSET (1..n)
    BY <2>1, WithoutLast
  <2> QED BY <2>2
<1>3. Turn(node, path, g, s) = Turn(node, path, h, s)
  BY <1>2 DEF Turn
<1> QED BY <1>1, <1>3 DEF Turned

(* The fold over four positions is what its equation says. *)
LEMMA FoldUnfolds ==
  ASSUME NEW node, NEW path
  PROVE  Fold(node, path) = Turned(node, path, Fold(node, path))
<1>1. PICK g0 : g0 = [s \in SUBSET (1..4) |-> node]
  OBVIOUS
<1>2. PICK g1 : g1 = Turned(node, path, g0)
  OBVIOUS
<1>3. PICK g2 : g2 = Turned(node, path, g1)
  OBVIOUS
<1>4. PICK g3 : g3 = Turned(node, path, g2)
  OBVIOUS
<1>5. PICK g4 : g4 = Turned(node, path, g3)
  OBVIOUS
<1>6. PICK g5 : g5 = Turned(node, path, g4)
  OBVIOUS
<1>7. \A s \in SUBSET (1..0) : g0[s] = g1[s]
  <2>1. \A s \in SUBSET (1..0) : s = {} /\ s \in SUBSET (1..4)
    OBVIOUS
  <2> QED BY <1>1, <1>2, <2>1 DEF Turned, Turn
<1>8. \A s \in SUBSET (1..1) : g1[s] = g2[s]
  BY <1>2, <1>3, <1>7, TurnAgrees
<1>9. \A s \in SUBSET (1..2) : g2[s] = g3[s]
  BY <1>3, <1>4, <1>8, TurnAgrees
<1>10. \A s \in SUBSET (1..3) : g3[s] = g4[s]
  BY <1>4, <1>5, <1>9, TurnAgrees
<1>11. \A s \in SUBSET (1..4) : g4[s] = g5[s]
  BY <1>5, <1>6, <1>10, TurnAgrees
<1>12. g4 = g5
  BY <1>5, <1>6, <1>11 DEF Turned
<1>13. \E iter : iter = [s \in SUBSET (1..4) |->
         IF s = {} THEN node
         ELSE DeriveHardenedChild(iter[s \ {Max(s)}], path[Max(s)] + HardenedBit)]
  <2>1. g4 = Turned(node, path, g4)
    BY <1>6, <1>12
  <2> QED BY <2>1 DEF Turned, Turn
<1>14. Fold(node, path) = [s \in SUBSET (1..4) |->
         IF s = {} THEN node
         ELSE DeriveHardenedChild(Fold(node, path)[s \ {Max(s)}], path[Max(s)] + HardenedBit)]
  BY <1>13 DEF Fold
<1> QED BY <1>14 DEF Turned, Turn

(* Appending to the sequences of one, two and three components. *)
LEMMA AppendShort ==
  ASSUME NEW a \in Nat, NEW b \in Nat, NEW c \in Nat, NEW d \in Nat
  PROVE  /\ Append(<<>>, a) = <<a>>
         /\ Append(<<a>>, b) = <<a, b>>
         /\ Append(<<a, b>>, c) = <<a, b, c>>
         /\ Append(<<a, b, c>>, d) = <<a, b, c, d>>
<1>1. ASSUME NEW s \in Seq(Nat), NEW t \in Seq(Nat), NEW x \in Nat,
             Len(t) = Len(s) + 1, t[Len(s) + 1] = x,
             \A i \in 1..Len(s) : t[i] = s[i]
      PROVE  Append(s, x) = t
  <2>1. /\ Append(s, x) \in Seq(Nat) /\ Len(Append(s, x)) = Len(s) + 1
        /\ \A i \in 1..Len(s) : Append(s, x)[i] = s[i]
        /\ Append(s, x)[Len(s) + 1] = x
        /\ Len(s) \in Nat
    BY AppendProperties, LenProperties
  <2>2. \A i \in 1..Len(Append(s, x)) : Append(s, x)[i] = t[i]
    BY <1>1, <2>1
  <2> QED BY <1>1, <2>1, <2>2, SeqEqual
<1>2. Append(<<>>, a) = <<a>>
  OBVIOUS
<1>3. Append(<<a>>, b) = <<a, b>>
  <2>1. PICK s, t : s = <<a>> /\ t = <<a, b>>
    OBVIOUS
  <2>2. s \in Seq(Nat) /\ t \in Seq(Nat) /\ Len(s) = 1 /\ Len(t) = 2
    BY <2>1
  <2>3. t[2] = b /\ \A i \in 1..1 : t[i] = s[i]
    BY <2>1
  <2>4. /\ Len(t) = Len(s) + 1 /\ t[Len(s) + 1] = b
        /\ \A i \in 1..Len(s) : t[i] = s[i]
    BY <2>2, <2>3
  <2>5. Append(s, b) = t
    BY <1>1, <2>2, <2>4
  <2> QED BY <2>1, <2>5
<1>4. Append(<<a, b>>, c) = <<a, b, c>>
  <2>1. PICK s, t : s = <<a, b>> /\ t = <<a, b, c>>
    OBVIOUS
  <2>2. s \in Seq(Nat) /\ t \in Seq(Nat) /\ Len(s) = 2 /\ Len(t) = 3
    BY <2>1
  <2>3. t[3] = c /\ \A i \in 1..2 : t[i] = s[i]
    BY <2>1
  <2>4. /\ Len(t) = Len(s) + 1 /\ t[Len(s) + 1] = c
        /\ \A i \in 1..Len(s) : t[i] = s[i]
    BY <2>2, <2>3
  <2>5. Append(s, c) = t
    BY <1>1, <2>2, <2>4
  <2> QED BY <2>1, <2>5
<1>5. Append(<<a, b, c>>, d) = <<a, b, c, d>>
  <2>1. PICK s, t : s = <<a, b, c>> /\ t = <<a, b, c, d>>
    OBVIOUS
  <2>2. s \in Seq(Nat) /\ t \in Seq(Nat) /\ Len(s) = 3 /\ Len(t) = 4
    BY <2>1
  <2>3. t[4] = d /\ \A i \in 1..3 : t[i] = s[i]
    BY <2>1
  <2>4. /\ Len(t) = Len(s) + 1 /\ t[Len(s) + 1] = d
        /\ \A i \in 1..Len(s) : t[i] = s[i]
    BY <2>2, <2>3
  <2>5. Append(s, d) = t
    BY <1>1, <2>2, <2>4
  <2> QED BY <2>1, <2>5
<1> QED BY <1>2, <1>3, <1>4, <1>5

(* The node of a payment path is the four hardened children, in order. *)
LEMMA FoldOfFour ==
  ASSUME NEW node, NEW path
  PROVE  Fold(node, path)[1..4] =
           DeriveHardenedChild(DeriveHardenedChild(DeriveHardenedChild(
             DeriveHardenedChild(node, path[1] + HardenedBit),
             path[2] + HardenedBit), path[3] + HardenedBit), path[4] + HardenedBit)
<1>1. PICK f : f = Fold(node, path)
  OBVIOUS
<1>2. \A s \in SUBSET (1..4) : f[s] = Turn(node, path, f, s)
  BY <1>1, FoldUnfolds DEF Turned
<1>3. f[1..0] = node
  <2>1. 1..0 = {} /\ 1..0 \in SUBSET (1..4)
    OBVIOUS
  <2> QED BY <1>2, <2>1 DEF Turn
<1>4. ASSUME NEW n \in 1..4
      PROVE  f[1..n] = DeriveHardenedChild(f[1..(n - 1)], path[n] + HardenedBit)
  <2>1. 1..n \in SUBSET Nat /\ n \in 1..n /\ \A k \in 1..n : k <= n
    OBVIOUS
  <2>2. Max(1..n) = n
    <3> HIDE DEF Max
    <3>1. PICK S \in SUBSET Nat : S = 1..n
      BY <2>1
    <3> QED BY <2>1, <3>1, MaxIs
  <2>3. 1..n \in SUBSET (1..4) /\ 1..n # {}
    OBVIOUS
  <2>4. (1..n) \ {n} = 1..(n - 1)
    <3>1. \A k \in Nat : k \in 1..n /\ k # n <=> k \in 1..(n - 1)
      OBVIOUS
    <3> QED BY <3>1
  <2> QED BY <1>2, <2>2, <2>3, <2>4 DEF Turn
<1>5. /\ f[1..1] = DeriveHardenedChild(f[1..0], path[1] + HardenedBit)
      /\ f[1..2] = DeriveHardenedChild(f[1..1], path[2] + HardenedBit)
      /\ f[1..3] = DeriveHardenedChild(f[1..2], path[3] + HardenedBit)
      /\ f[1..4] = DeriveHardenedChild(f[1..3], path[4] + HardenedBit)
  <2>1. 1 - 1 = 0 /\ 2 - 1 = 1 /\ 3 - 1 = 2 /\ 4 - 1 = 3
    OBVIOUS
  <2> QED BY <1>4, <2>1
<1> QED BY <1>1, <1>3, <1>5

(* deriveChildPath of a payment path appends its components, hardened. *)
LEMMA PaymentNode ==
  ASSUME NEW index \in 0..MaxPlainIndex
  PROVE  DerivePath(MasterKeyFromSeed(Seed), PaymentPath(index)) =
           [seed |-> Seed, indices |-> <<HardenedBit, 1 + HardenedBit,
                                         index + HardenedBit, HardenedBit>>]
<1>1. PICK path : path = PaymentPath(index)
  OBVIOUS
<1>2. /\ DOMAIN path = 1..4
      /\ path[1] = 0 /\ path[2] = 1 /\ path[3] = index /\ path[4] = 0
      /\ \A k \in DOMAIN path : path[k] \in 0..MaxPlainIndex
  BY <1>1, Slip10Assumption DEF PaymentPath
<1>3. PICK node : node = MasterKeyFromSeed(Seed)
  OBVIOUS
<1>4. DerivePath(node, path) = Fold(node, path)[1..4]
  <2>1. DerivePath(node, path) =
          FoldLeft(LAMBDA n, plain : DeriveHardenedChild(n, plain + HardenedBit), node, path)
    BY <1>2 DEF DerivePath
  <2> HIDE DEF DeriveHardenedChild, HardenedBit, Max
  <2> QED BY <1>2, <2>1 DEF Fold, FoldLeft, MapThenFoldSet
<1>5. ASSUME NEW seed, NEW s \in Seq(Nat), NEW plain \in 0..MaxPlainIndex
      PROVE  DeriveHardenedChild([seed |-> seed, indices |-> s], plain + HardenedBit) =
               [seed |-> seed, indices |-> Append(s, plain + HardenedBit)]
  <2>1. plain + HardenedBit \in HardenedBit..MaxIndex
    BY Slip10Assumption DEF HardenedBit, MaxIndex
  <2> QED BY <2>1 DEF DeriveHardenedChild
<1>6. PICK h \in Nat : h = HardenedBit
  BY Slip10Assumption DEF HardenedBit
<1>7. node = [seed |-> Seed, indices |-> <<>>]
  BY <1>3 DEF MasterKeyFromSeed
<1>8. /\ 0 \in 0..MaxPlainIndex /\ 1 \in 0..MaxPlainIndex
      /\ h \in Nat /\ 1 + h \in Nat /\ index + h \in Nat /\ 0 + h = h
  BY <1>6, Slip10Assumption
<1>9. /\ Append(<<>>, h) = <<h>>
      /\ Append(<<h>>, 1 + h) = <<h, 1 + h>>
      /\ Append(<<h, 1 + h>>, index + h) = <<h, 1 + h, index + h>>
      /\ Append(<<h, 1 + h, index + h>>, h) = <<h, 1 + h, index + h, h>>
  BY <1>8, AppendShort
<1>10. DeriveHardenedChild(node, path[1] + h) = [seed |-> Seed, indices |-> <<h>>]
  <2>1. <<>> \in Seq(Nat)
    OBVIOUS
  <2> QED BY <1>2, <1>5, <1>6, <1>7, <1>8, <1>9, <2>1
<1>11. DeriveHardenedChild([seed |-> Seed, indices |-> <<h>>], path[2] + h) =
        [seed |-> Seed, indices |-> <<h, 1 + h>>]
  <2>1. <<h>> \in Seq(Nat)
    BY <1>8
  <2> QED BY <1>2, <1>5, <1>6, <1>8, <1>9, <2>1
<1>12. DeriveHardenedChild([seed |-> Seed, indices |-> <<h, 1 + h>>], path[3] + h) =
        [seed |-> Seed, indices |-> <<h, 1 + h, index + h>>]
  <2>1. <<h, 1 + h>> \in Seq(Nat)
    BY <1>8
  <2> QED BY <1>2, <1>5, <1>6, <1>8, <1>9, <2>1
<1>13. DeriveHardenedChild([seed |-> Seed, indices |-> <<h, 1 + h, index + h>>], path[4] + h) =
        [seed |-> Seed, indices |-> <<h, 1 + h, index + h, h>>]
  <2>0. <<h, 1 + h, index + h>> \in Seq(Nat)
    BY <1>8
  <2>1. PICK s \in Seq(Nat) : s = <<h, 1 + h, index + h>>
    BY <2>0
  <2>2. DeriveHardenedChild([seed |-> Seed, indices |-> s], 0 + HardenedBit) =
          [seed |-> Seed, indices |-> Append(s, 0 + HardenedBit)]
    BY <1>5, <1>8
  <2> QED BY <1>2, <1>6, <1>8, <1>9, <2>1, <2>2
<1> QED BY <1>1, <1>3, <1>4, <1>6, <1>10, <1>11, <1>12, <1>13, FoldOfFour

(* nodePublicKey and the encoding of an address are one to one, and so is  *)
(* the derivation: two payment indices never have one address.             *)
LEMMA AddressIsInjective ==
  ASSUME NEW i \in 0..MaxPlainIndex, NEW j \in 0..MaxPlainIndex,
         DeriveWallet(MasterKeyFromSeed(Seed), i).address =
           DeriveWallet(MasterKeyFromSeed(Seed), j).address
  PROVE  i = j
<1> DEFINE Node(k) == [seed |-> Seed, indices |-> <<HardenedBit, 1 + HardenedBit,
                                                    k + HardenedBit, HardenedBit>>]
<1>1. \A k \in 0..MaxPlainIndex :
        DeriveWallet(MasterKeyFromSeed(Seed), k).address = <<"public", Node(k)>>
  BY PaymentNode DEF DeriveWallet, SolanaDerivedWallet, PublicKey
<1>2. Node(i) = Node(j)
  <2> HIDE DEF Node
  <2> QED BY <1>1
<1>3. Node(i).indices[3] = i + HardenedBit /\ Node(j).indices[3] = j + HardenedBit
  OBVIOUS
<1>4. HardenedBit \in Nat
  BY Slip10Assumption DEF HardenedBit
<1> QED BY <1>2, <1>3, <1>4

-----------------------------------------------------------------------------
(***************************************************************************)
(* The allocations.                                                        *)
(***************************************************************************)
Addresses == {DeriveWallet(MasterKeyFromSeed(Seed), index).address : index \in 0..MaxPlainIndex}

AllocRecord ==
  [stage : {"derived", "attested"}, entity : Entities, chain : Chains,
   fields : SUBSET Fields, path : Seq(Nat), address : Addresses]

Attested ==
  [subject : Entities, wallet : Addresses \cup {None}, chain : Chains \cup {None},
   path : Seq(Nat) \cup {None}]

AllocTypes ==
  /\ stored \in Seq(Attested)
  /\ allocs \in [Allocations -> {Idle} \cup AllocRecord]
  /\ \A c \in Chains : old[c] \subseteq Seq(Nat)
  /\ \A a \in Allocations : allocs[a] # Idle /\ allocs[a].stage = "attested" =>
       Paired(allocs[a].fields)

(* A path derived and not yet stored is not used, and no one else has it. *)
OneFreshPath ==
  Orderly =>
    \A a \in Allocations, c \in Chains : allocs[a] # Idle /\ allocs[a].chain = c =>
      /\ allocs[a].path \notin UsedPaths(c)
      /\ \A b \in Allocations \ {a} : allocs[b] # Idle => allocs[b].chain # c

AllocInv == AllocTypes /\ OneFreshPath /\ IndexIsFresh

LEMMA RecordIsNotIdle == \A al \in AllocRecord : al # Idle
<1>1. \A al \in AllocRecord : al.stage # "idle"
  BY DEF AllocRecord
<1>2. Idle.stage = "idle"
  BY DEF Idle
<1> QED BY <1>1, <1>2

LEMMA UsedPathsProperties ==
  ASSUME AllocTypes, NEW c \in Chains
  PROVE  /\ UsedPaths(c) \subseteq Seq(Nat)
         /\ old[c] \subseteq UsedPaths(c)
         /\ \A k \in DOMAIN stored : stored[k].chain = c /\ stored[k].path # None =>
              stored[k].path \in UsedPaths(c)
<1>1. \A k \in DOMAIN stored : stored[k].path \in Seq(Nat) \cup {None}
  <2>1. \A k \in DOMAIN stored : stored[k] \in Attested
    BY ElementOfSeq DEF AllocTypes
  <2> QED BY <2>1 DEF Attested
<1> QED BY <1>1 DEF UsedPaths, AllocTypes

LEMMA AllocFrame ==
  ASSUME AllocInv, UNCHANGED <<old, stored, allocs, allocsOverlapped>>
  PROVE  AllocInv'
<1>1. Orderly' = Orderly /\ \A c : UsedPaths(c)' = UsedPaths(c)
  BY DEF Orderly, UsedPaths
<1>2. AllocTypes'
  BY DEF AllocInv, AllocTypes
<1>3. OneFreshPath' /\ IndexIsFresh'
  BY <1>1 DEF AllocInv, OneFreshPath, IndexIsFresh
<1> QED BY <1>2, <1>3 DEF AllocInv

LEMMA AllocateKeeps ==
  ASSUME AllocInv, NEW a \in Allocations, NEW e \in Entities, NEW c \in Chains,
         Allocate(a, e, c)
  PROVE  AllocInv'
<1> DEFINE index == NextPaymentIndex(UsedPaths(c))
           wallet == DeriveWallet(MasterKeyFromSeed(Seed), index)
           al == [stage |-> "derived", entity |-> e, chain |-> c, fields |-> {},
                  path |-> wallet.derivationPath, address |-> wallet.address]
<1>1. /\ allocs[a] = Idle /\ wallet # Invalid
      /\ allocs' = [allocs EXCEPT ![a] = al]
      /\ allocsOverlapped' = (allocsOverlapped \/ Active(c) # {})
      /\ old' = old /\ stored' = stored
  BY DEF Allocate
<1>2. index \in 0..MaxPlainIndex /\ wallet.derivationPath = PaymentPath(index)
      /\ wallet.address \in Addresses
  <2>1. index \in 0..MaxPlainIndex
    BY <1>1 DEF DeriveWallet
  <2>2. wallet.derivationPath = PaymentPath(index)
    BY <2>1 DEF DeriveWallet, SolanaDerivedWallet
  <2> HIDE DEF index
  <2>3. wallet.address \in Addresses
    BY <2>1 DEF Addresses
  <2> QED BY <2>1, <2>2, <2>3
<1>3. PaymentPath(index) \in Seq(Nat) /\ PaymentPath(index) \notin UsedPaths(c)
  <2>1. PaymentPath(index) \in Seq(Nat)
    BY <1>2 DEF PaymentPath
  <2>2. UsedPaths(c) \subseteq Seq(Nat)
    BY UsedPathsProperties DEF AllocInv
  <2> HIDE DEF index
  <2>3. index = NextPaymentIndex(UsedPaths(c))
    BY DEF index
  <2> QED BY <1>2, <2>1, <2>2, <2>3, NextIsFresh
<1>4. /\ al \in AllocRecord /\ al.chain = c /\ al.path = PaymentPath(index)
      /\ al.stage = "derived"
  BY <1>2, <1>3 DEF AllocRecord
<1> HIDE DEF al, wallet, index
<1>5. /\ allocs' \in [Allocations -> {Idle} \cup AllocRecord]
      /\ allocs'[a] = al /\ \A b \in Allocations \ {a} : allocs'[b] = allocs[b]
  BY <1>1, <1>4 DEF AllocInv, AllocTypes
<1>6. AllocTypes'
  BY <1>1, <1>4, <1>5 DEF AllocInv, AllocTypes
<1>7. /\ Orderly' => Orderly /\ Active(c) = {}
      /\ \A d : UsedPaths(d)' = UsedPaths(d)
  BY <1>1 DEF Orderly, UsedPaths
<1>8. OneFreshPath'
  <2> SUFFICES ASSUME Orderly', NEW b \in Allocations, NEW d \in Chains,
                      allocs'[b] # Idle, allocs'[b].chain = d
               PROVE  /\ allocs'[b].path \notin UsedPaths(d)
                      /\ \A g \in Allocations \ {b} : allocs'[g] # Idle => allocs'[g].chain # d
    BY <1>7 DEF OneFreshPath
  <2>1. \A g \in Allocations \ {a} : allocs[g] # Idle => allocs[g].chain # c
    BY <1>7 DEF Active
  <2>2. CASE b = a
    BY <1>3, <1>4, <1>5, <2>1, <2>2
  <2>3. CASE b # a
    <3>1. allocs[b] # Idle /\ allocs[b].chain = d /\ d # c
      BY <1>5, <2>1, <2>3
    <3> QED BY <1>4, <1>5, <1>7, <2>3, <3>1 DEF AllocInv, OneFreshPath
  <2> QED BY <2>2, <2>3
<1>9. IndexIsFresh'
  BY <1>1, <1>7 DEF AllocInv, IndexIsFresh
<1> QED BY <1>6, <1>8, <1>9 DEF AllocInv

LEMMA BindKeeps ==
  ASSUME AllocInv, NEW a \in Allocations, NEW fields \in SUBSET Fields,
         BindAndAttest(a, fields)
  PROVE  AllocInv'
<1> DEFINE old_a == allocs[a]
           new == IF Paired(fields) /\ WalletAccepted(fields, old_a.chain, old_a.address)
                  THEN [old_a EXCEPT !.stage = "attested", !.fields = fields] ELSE Idle
<1>1. /\ old_a # Idle /\ allocs' = [allocs EXCEPT ![a] = new]
      /\ old' = old /\ stored' = stored /\ allocsOverlapped' = allocsOverlapped
  BY DEF BindAndAttest
<1>2. old_a \in AllocRecord
  BY <1>1 DEF AllocInv, AllocTypes
<1>3. new # Idle => /\ new \in AllocRecord /\ Paired(new.fields)
                    /\ new.chain = old_a.chain /\ new.path = old_a.path
  BY <1>2 DEF AllocRecord
<1> HIDE DEF new
<1>4. /\ allocs' \in [Allocations -> {Idle} \cup AllocRecord]
      /\ allocs'[a] = new /\ \A b \in Allocations \ {a} : allocs'[b] = allocs[b]
  BY <1>1, <1>3 DEF AllocInv, AllocTypes
<1>5. AllocTypes'
  BY <1>1, <1>3, <1>4 DEF AllocInv, AllocTypes
<1>6. Orderly' = Orderly /\ \A d : UsedPaths(d)' = UsedPaths(d)
  BY <1>1 DEF Orderly, UsedPaths
<1>7. \A b \in Allocations : allocs'[b] # Idle =>
        allocs[b] # Idle /\ allocs'[b].chain = allocs[b].chain /\ allocs'[b].path = allocs[b].path
  BY <1>1, <1>3, <1>4
<1>8. OneFreshPath'
  BY <1>6, <1>7 DEF AllocInv, OneFreshPath
<1>9. IndexIsFresh'
  BY <1>1, <1>6 DEF AllocInv, IndexIsFresh
<1> QED BY <1>5, <1>8, <1>9 DEF AllocInv

LEMMA StoreKeeps ==
  ASSUME AllocInv, NEW a \in Allocations, Store(a)
  PROVE  AllocInv'
<1> DEFINE al == allocs[a]
           Given(field, value) == IF field \in al.fields THEN value ELSE None
           new == [subject |-> al.entity, wallet |-> Given("wallet", al.address),
                   chain |-> Given("chain", al.chain), path |-> Given("path", al.path)]
<1>0. PICK n : n = Len(stored) + 1
  OBVIOUS
<1>1. /\ al # Idle /\ al.stage = "attested"
      /\ stored' = Append(stored, new) /\ allocs' = [allocs EXCEPT ![a] = Idle]
      /\ old' = old /\ allocsOverlapped' = allocsOverlapped
  BY DEF Store
<1>2. al \in AllocRecord /\ Paired(al.fields)
  BY <1>1 DEF AllocInv, AllocTypes
<1>3. /\ new \in Attested
      /\ new.path # None => new.path = al.path /\ new.chain = al.chain
      /\ new.path \in {al.path, None}
  <2>1. "path" \in al.fields => "chain" \in al.fields
    BY <1>2 DEF Paired
  <2>2. /\ new.path = Given("path", al.path) /\ new.chain = Given("chain", al.chain)
    OBVIOUS
  <2>3. new \in Attested
    BY <1>2 DEF AllocRecord, Attested
  <2> QED BY <2>1, <2>2, <2>3
<1> HIDE DEF new, al
<1>4. /\ stored' \in Seq(Attested) /\ DOMAIN stored' = 1..n /\ stored'[n] = new
      /\ n \in Nat \ {0} /\ DOMAIN stored = 1..(n - 1)
      /\ \A k \in DOMAIN stored : stored'[k] = stored[k]
  BY <1>0, <1>1, <1>3 DEF AllocInv, AllocTypes
<1>5. AllocTypes'
  <2>1. allocs' \in [Allocations -> {Idle} \cup AllocRecord]
    BY <1>1 DEF AllocInv, AllocTypes
  <2>2. \A b \in Allocations : allocs'[b] # Idle => allocs'[b] = allocs[b]
    BY <1>1 DEF AllocInv, AllocTypes
  <2> QED BY <1>1, <1>4, <2>1, <2>2 DEF AllocInv, AllocTypes
<1>6. Orderly' => Orderly
  BY <1>1, <1>4 DEF Orderly
<1>7. \A c \in Chains : UsedPaths(c)' \subseteq UsedPaths(c) \cup
        (IF new.path # None /\ new.chain = c THEN {new.path} ELSE {})
  <2> SUFFICES ASSUME NEW c \in Chains, NEW q \in UsedPaths(c)', q \notin UsedPaths(c)
               PROVE  new.path # None /\ new.chain = c /\ q = new.path
    OBVIOUS
  <2>1. q \notin old[c]
    BY DEF UsedPaths
  <2>2. PICK k \in DOMAIN stored' : stored'[k].chain = c /\ q = stored'[k].path /\ q # None
    BY <1>1, <2>1 DEF UsedPaths
  <2>3. k \notin DOMAIN stored
    BY <1>4, <2>2 DEF UsedPaths
  <2>4. k = n
    BY <1>4, <2>3
  <2> QED BY <1>4, <2>2, <2>4
<1>8. OneFreshPath'
  <2> SUFFICES ASSUME Orderly', NEW b \in Allocations, NEW d \in Chains,
                      allocs'[b] # Idle, allocs'[b].chain = d
               PROVE  /\ allocs'[b].path \notin UsedPaths(d)'
                      /\ \A g \in Allocations \ {b} : allocs'[g] # Idle => allocs'[g].chain # d
    BY DEF OneFreshPath
  <2>1. b # a /\ \A g \in Allocations : allocs'[g] # Idle => allocs'[g] = allocs[g]
    BY <1>1 DEF AllocInv, AllocTypes
  <2>2. /\ allocs[b].path \notin UsedPaths(d)
        /\ \A g \in Allocations \ {b} : allocs[g] # Idle => allocs[g].chain # d
    BY <1>6, <2>1 DEF AllocInv, OneFreshPath
  <2>3. al.chain # d
    BY <1>1, <2>1, <2>2 DEF al
  <2>4. UsedPaths(d)' \subseteq UsedPaths(d)
    BY <1>3, <1>7, <2>3
  <2> QED BY <2>1, <2>2, <2>4
<1>9. IndexIsFresh'
  <2> SUFFICES ASSUME Orderly', NEW j \in DOMAIN stored', stored'[j].path # None
               PROVE  /\ stored'[j].path \notin old[stored'[j].chain]
                      /\ \A k \in DOMAIN stored' : j # k /\ stored'[j].chain = stored'[k].chain =>
                           stored'[j].path # stored'[k].path
    BY <1>1 DEF IndexIsFresh
  <2>1. al.chain \in Chains /\ al.path \notin UsedPaths(al.chain)
    BY <1>1, <1>2, <1>6 DEF AllocInv, OneFreshPath, AllocRecord, al
  <2>2. /\ old[al.chain] \subseteq UsedPaths(al.chain)
        /\ \A k \in DOMAIN stored : stored[k].chain = al.chain /\ stored[k].path # None =>
              stored[k].path # al.path
    BY <2>1, UsedPathsProperties DEF AllocInv
  <2>3. CASE j = n
    <3>1. stored'[j].path = al.path /\ stored'[j].chain = al.chain
      BY <1>3, <1>4, <2>3
    <3>2. \A k \in DOMAIN stored' \ {j} : k \in DOMAIN stored /\ stored'[k] = stored[k]
      BY <1>4, <2>3
    <3>3. al.path # None
      BY <3>1
    <3> QED BY <2>1, <2>2, <3>1, <3>2, <3>3
  <2>4. CASE j # n
    <3>1. j \in DOMAIN stored /\ stored'[j] = stored[j]
      BY <1>4, <2>4
    <3>2. /\ stored[j].path \notin old[stored[j].chain]
          /\ \A k \in DOMAIN stored : j # k /\ stored[j].chain = stored[k].chain =>
               stored[j].path # stored[k].path
      BY <1>6, <3>1 DEF AllocInv, IndexIsFresh
    <3>3. ASSUME stored[j].chain = new.chain PROVE stored[j].path # new.path
      BY <1>3, <2>2, <3>1, <3>3
    <3> QED BY <1>4, <3>1, <3>2, <3>3
  <2> QED BY <2>3, <2>4
<1> QED BY <1>5, <1>8, <1>9 DEF AllocInv

LEMMA RestartKeeps ==
  ASSUME AllocInv, Restart
  PROVE  AllocInv'
<1>1. /\ allocs' = [b \in Allocations |-> Idle] /\ old' = old /\ stored' = stored
      /\ allocsOverlapped' = allocsOverlapped
  BY DEF Restart
<1>2. Orderly' = Orderly
  BY <1>1 DEF Orderly
<1> QED BY <1>1, <1>2 DEF AllocInv, AllocTypes, OneFreshPath, IndexIsFresh

-----------------------------------------------------------------------------
(***************************************************************************)
(* Addresses.  What is allocated, and what is stored with a wallet and a   *)
(* path, has the address of its path; and what is stored for a chain has   *)
(* a wallet.                                                               *)
(***************************************************************************)
AddressAt(index) == DeriveWallet(MasterKeyFromSeed(Seed), index).address

Matches(path, address) ==
  \E index \in 0..MaxPlainIndex : path = PaymentPath(index) /\ address = AddressAt(index)

AddressInv ==
  /\ \A a \in Allocations : allocs[a] # Idle => Matches(allocs[a].path, allocs[a].address)
  /\ \A k \in DOMAIN stored :
       /\ stored[k].wallet # None /\ stored[k].path # None =>
            Matches(stored[k].path, stored[k].wallet)
       /\ stored[k].chain # None => stored[k].wallet # None

(* No address is null. *)
LEMMA AddressIsSome ==
  ASSUME NEW path, NEW address, Matches(path, address)
  PROVE  address # None
BY NullIsNoValue DEF Matches, AddressAt

(* Every step keeps the addresses. *)
LEMMA AddressStep ==
  ASSUME AllocInv, AddressInv, [WalletsNext]_walletVars
  PROVE  AddressInv'
<1>0. /\ allocs \in [Allocations -> {Idle} \cup AllocRecord]
      /\ stored \in Seq(Attested)
  BY DEF AllocInv, AllocTypes
<1>1. CASE allocs' = allocs /\ stored' = stored
  BY <1>1 DEF AddressInv
<1>2. ASSUME NEW a \in Allocations, NEW e \in Entities, NEW c \in Chains, Allocate(a, e, c)
      PROVE  AddressInv'
  <2>1. PICK index : index = NextPaymentIndex(UsedPaths(c))
    OBVIOUS
  <2>2. PICK wallet : wallet = DeriveWallet(MasterKeyFromSeed(Seed), index)
    OBVIOUS
  <2>3. PICK al : al = [stage |-> "derived", entity |-> e, chain |-> c, fields |-> {},
                        path |-> wallet.derivationPath, address |-> wallet.address]
    OBVIOUS
  <2>4. wallet # Invalid /\ allocs' = [allocs EXCEPT ![a] = al] /\ stored' = stored
    BY <1>2, <2>1, <2>2, <2>3 DEF Allocate
  <2>5. Matches(al.path, al.address)
    <3>1. index \in 0..MaxPlainIndex
      BY <2>2, <2>4 DEF DeriveWallet
    <3>2. wallet.derivationPath = PaymentPath(index)
      BY <2>2, <3>1 DEF DeriveWallet, SolanaDerivedWallet
    <3> QED BY <2>2, <2>3, <3>1, <3>2 DEF Matches, AddressAt
  <2> QED BY <1>0, <2>4, <2>5 DEF AddressInv
<1>3. ASSUME NEW a \in Allocations, NEW fields \in SUBSET Fields, BindAndAttest(a, fields)
      PROVE  AddressInv'
  <2>1. /\ allocs[a] # Idle /\ stored' = stored
        /\ \/ allocs' = [allocs EXCEPT ![a] = Idle]
           \/ allocs' = [allocs EXCEPT ![a] =
                [allocs[a] EXCEPT !.stage = "attested", !.fields = fields]]
    BY <1>3 DEF BindAndAttest
  <2>2. allocs[a] \in AllocRecord
    BY <1>0, <2>1
  <2>3. ASSUME NEW b \in Allocations, allocs'[b] # Idle
        PROVE  /\ allocs[b] # Idle /\ allocs'[b].path = allocs[b].path
               /\ allocs'[b].address = allocs[b].address
    <3>1. CASE b # a
      BY <1>0, <2>1, <2>3, <3>1
    <3>2. CASE b = a
      <4>1. PICK al : al = [allocs[a] EXCEPT !.stage = "attested", !.fields = fields]
        OBVIOUS
      <4>2. al.path = allocs[a].path /\ al.address = allocs[a].address
        BY <2>2, <4>1 DEF AllocRecord
      <4>3. allocs'[a] = al
        BY <1>0, <2>1, <2>3, <3>2, <4>1
      <4> QED BY <2>1, <3>2, <4>2, <4>3
    <3> QED BY <3>1, <3>2
  <2> QED BY <2>1, <2>3 DEF AddressInv
<1>4. ASSUME NEW a \in Allocations, Store(a)
      PROVE  AddressInv'
  <2>1. PICK al : al = allocs[a]
    OBVIOUS
  <2>2. PICK new :
          new = [subject |-> al.entity,
                 wallet |-> IF "wallet" \in al.fields THEN al.address ELSE None,
                 chain |-> IF "chain" \in al.fields THEN al.chain ELSE None,
                 path |-> IF "path" \in al.fields THEN al.path ELSE None]
    OBVIOUS
  <2>3. /\ al # Idle /\ al.stage = "attested"
        /\ stored' = Append(stored, new) /\ allocs' = [allocs EXCEPT ![a] = Idle]
    BY <1>4, <2>1, <2>2 DEF Store
  <2>4. al \in AllocRecord /\ Paired(al.fields) /\ Matches(al.path, al.address)
    BY <1>0, <2>1, <2>3 DEF AllocInv, AllocTypes, AddressInv
  <2>5. new \in Attested
    BY <2>2, <2>4 DEF AllocRecord, Attested
  <2>6. PICK n : n = Len(stored) + 1
    OBVIOUS
  <2>7. /\ DOMAIN stored' = 1..n /\ stored'[n] = new
        /\ n \in Nat \ {0} /\ DOMAIN stored = 1..(n - 1)
        /\ \A k \in DOMAIN stored : stored'[k] = stored[k]
    BY <1>0, <2>3, <2>5, <2>6
  <2>8. /\ new.wallet # None /\ new.path # None => Matches(new.path, new.wallet)
        /\ new.chain # None => new.wallet # None
    <3>1. al.address # None
      BY <2>4, AddressIsSome
    <3> QED BY <2>2, <2>4, <3>1 DEF Paired
  <2>9. ASSUME NEW k \in DOMAIN stored'
        PROVE  /\ stored'[k].wallet # None /\ stored'[k].path # None =>
                    Matches(stored'[k].path, stored'[k].wallet)
               /\ stored'[k].chain # None => stored'[k].wallet # None
    <3>1. CASE k = n
      BY <2>7, <2>8, <3>1
    <3>2. CASE k # n
      <4>1. k \in DOMAIN stored /\ stored'[k] = stored[k]
        BY <2>7, <3>2
      <4> QED BY <4>1 DEF AddressInv
    <3> QED BY <3>1, <3>2
  <2>10. ASSUME NEW b \in Allocations, allocs'[b] # Idle PROVE allocs'[b] = allocs[b]
    BY <1>0, <2>3, <2>10
  <2> QED BY <2>9, <2>10 DEF AddressInv
<1>5. CASE Restart
  BY <1>5 DEF Restart, AddressInv
<1>6. CASE RegistryNext
  <2>1. UNCHANGED otherVars
    BY <1>6 DEF RegistryNext, RegisterWalletAdapter, RegisterSolanaAdapters, Registered, Dispose
  <2> QED BY <1>1, <2>1 DEF otherVars
<1>7. CASE DisposeTree \/ \E k \in 1..MaxStored : Rebind(k)
  BY <1>1, <1>7 DEF DisposeTree, Rebind
<1>8. CASE UNCHANGED walletVars
  BY <1>1, <1>8 DEF walletVars
<1> QED BY <1>2, <1>3, <1>4, <1>5, <1>6, <1>7, <1>8 DEF WalletsNext, AllocationNext

(* An address stored twice for a chain would be a path stored twice. *)
LEMMA OneOwner ==
  ASSUME AllocInv, AddressInv
  PROVE  AddressHasOneOwner
<1> SUFFICES ASSUME Orderly, NEW e \in Entities, NEW f \in Entities, NEW c \in Chains, e # f,
                    NEW j \in DOMAIN stored, NEW k \in DOMAIN stored,
                    stored[j].chain = c, stored[k].chain = c,
                    VerifyWalletBinding(GetEntityWallet(e, c), e, stored[j]),
                    VerifyWalletBinding(GetEntityWallet(f, c), f, stored[k]),
                    GetEntityWallet(e, c).address = GetEntityWallet(f, c).address
             PROVE  FALSE
  BY DEF AddressHasOneOwner
<1>1. j # k /\ stored[j].wallet = stored[k].wallet
  BY DEF VerifyWalletBinding
<1>2. stored[j].wallet # None /\ stored[k].wallet # None
  BY NullIsNoValue DEF AddressInv
<1>3. stored[j].path # None /\ stored[k].path # None
  BY <1>2 DEF Orderly
<1>4. PICK m \in 0..MaxPlainIndex :
        stored[j].path = PaymentPath(m) /\ stored[j].wallet = AddressAt(m)
  BY <1>2, <1>3 DEF AddressInv, Matches
<1>5. PICK n \in 0..MaxPlainIndex :
        stored[k].path = PaymentPath(n) /\ stored[k].wallet = AddressAt(n)
  BY <1>2, <1>3 DEF AddressInv, Matches
<1>6. m = n
  BY <1>1, <1>4, <1>5, AddressIsInjective DEF AddressAt
<1> QED BY <1>1, <1>3, <1>4, <1>5, <1>6 DEF AllocInv, IndexIsFresh

-----------------------------------------------------------------------------
(***************************************************************************)
(* The specification.                                                      *)
(***************************************************************************)
IInv == RegistryInv /\ AllocInv /\ AddressInv

LEMMA Initially == WalletsInit => IInv
<1> SUFFICES ASSUME WalletsInit PROVE IInv
  OBVIOUS
<1>1. /\ registry = [c \in Chains |-> None] /\ regs = <<>> /\ stored = <<>>
      /\ old \in [Chains -> OldPaths] /\ allocs = [b \in Allocations |-> Idle]
  BY DEF WalletsInit
<1>2. RegistryInv
  BY <1>1 DEF RegistryInv, LastWinsAt, Calls
<1>3. AllocInv
  BY <1>1, WalletsAssumption DEF AllocInv, AllocTypes, OneFreshPath, IndexIsFresh
<1>4. AddressInv
  BY <1>1 DEF AddressInv
<1> QED BY <1>2, <1>3, <1>4 DEF IInv

LEMMA RegistryFrame ==
  ASSUME RegistryInv, UNCHANGED registryVars
  PROVE  RegistryInv'
<1>1. /\ regs' = regs /\ registry' = registry
      /\ \A n, c : Of(n, c)' = Of(n, c)
  BY DEF registryVars, Of
<1>2. \A c : Calls(c)' = Calls(c)
  BY <1>1 DEF Calls
<1>3. \A c : LastOf(c)' = LastOf(c)
  BY <1>2 DEF LastOf
<1>4. \A c, m : WinsAt(c, m)' = WinsAt(c, m)
  BY <1>1, <1>2 DEF WinsAt
<1>5. \A c : LastWinsAt(c)' = LastWinsAt(c)
  BY <1>1, <1>2, <1>3, <1>4 DEF LastWinsAt
<1> QED BY <1>1, <1>5 DEF RegistryInv

LEMMA Step == IInv /\ [WalletsNext]_walletVars => IInv'
<1> SUFFICES ASSUME RegistryInv, AllocInv, AddressInv, [WalletsNext]_walletVars
             PROVE  RegistryInv' /\ AllocInv'
  BY AddressStep DEF IInv
<1>1. CASE RegistryNext
  <2>1. UNCHANGED otherVars
    BY <1>1 DEF RegistryNext, RegisterWalletAdapter, RegisterSolanaAdapters, Registered, Dispose
  <2>2. AllocInv'
    BY <2>1, AllocFrame DEF otherVars
  <2>3. ASSUME NEW c \in Chains, RegisterWalletAdapter(c) PROVE RegistryInv'
    <3> DEFINE adapters == {OwnAdapter(c)}
    <3>1. Registered(adapters) /\ adapters \in SUBSET Adapter
      BY <2>3 DEF RegisterWalletAdapter, OwnAdapter, Adapter
    <3> QED BY <3>1, RegisteredKeeps
  <2>4. ASSUME NEW networks \in SUBSET Chains, RegisterSolanaAdapters(networks)
        PROVE  RegistryInv'
    <3> DEFINE adapters == {SolanaAdapter(c) : c \in networks}
    <3>1. Len(regs) + 1 \in Nat
      BY DEF RegistryInv
    <3>2. /\ Registered(adapters) /\ adapters \in SUBSET Adapter
          /\ \A p, q \in adapters : p.chain = q.chain => p = q
      BY <2>4, <3>1 DEF RegisterSolanaAdapters, SolanaAdapter, Adapter
    <3> QED BY <3>2, RegisteredKeeps
  <2>5. ASSUME NEW n \in 1..MaxRegs, Dispose(n) PROVE RegistryInv'
    BY <2>5, DisposeKeeps
  <2> QED BY <1>1, <2>2, <2>3, <2>4, <2>5 DEF RegistryNext
<1>2. CASE AllocationNext
  <2>1. ASSUME NEW a \in Allocations, NEW e \in Entities, NEW c \in Chains, Allocate(a, e, c)
        PROVE  RegistryInv' /\ AllocInv'
    <3>1. UNCHANGED registryVars
      BY <2>1 DEF Allocate
    <3> QED BY <2>1, <3>1, AllocateKeeps, RegistryFrame
  <2>2. ASSUME NEW a \in Allocations, NEW fields \in SUBSET Fields, BindAndAttest(a, fields)
        PROVE  RegistryInv' /\ AllocInv'
    <3>1. UNCHANGED registryVars
      BY <2>2 DEF BindAndAttest
    <3> QED BY <2>2, <3>1, BindKeeps, RegistryFrame
  <2>3. ASSUME NEW a \in Allocations, Store(a)
        PROVE  RegistryInv' /\ AllocInv'
    <3>1. UNCHANGED registryVars
      BY <2>3 DEF Store
    <3> QED BY <2>3, <3>1, StoreKeeps, RegistryFrame
  <2>4. ASSUME NEW k \in 1..MaxStored, Rebind(k)
        PROVE  RegistryInv' /\ AllocInv'
    BY <2>4, AllocFrame, RegistryFrame DEF Rebind
  <2>5. ASSUME DisposeTree
        PROVE  RegistryInv' /\ AllocInv'
    BY <2>5, AllocFrame, RegistryFrame DEF DisposeTree
  <2>6. ASSUME Restart
        PROVE  RegistryInv' /\ AllocInv'
    <3>1. registry' = [c \in Chains |-> None] /\ regs' = <<>>
      BY <2>6 DEF Restart
    <3>2. RegistryInv'
      BY <3>1 DEF RegistryInv, LastWinsAt, Calls
    <3> QED BY <2>6, <3>2, RestartKeeps
  <2> QED BY <1>2, <2>1, <2>2, <2>3, <2>4, <2>5, <2>6 DEF AllocationNext
<1>3. CASE UNCHANGED walletVars
  BY <1>3, AllocFrame, RegistryFrame DEF walletVars, registryVars
<1> QED BY <1>1, <1>2, <1>3 DEF WalletsNext

(* The inductive invariant: of the registry, of the allocations, and of    *)
(* their addresses.                                                        *)
THEOREM Invariance == WalletsSpec => []IInv
BY Initially, Step, PTL DEF WalletsSpec

(* The adapter of a chain is that of the last registration, and a disposer *)
(* removes no other call's (registerWalletAdapter, payment.ts, and         *)
(* registerSolanaAdapters).                                                *)
THEOREM RegistryCorrect == WalletsSpec => []LastWins
<1>1. IInv => LastWins
  BY LastWinsSplit DEF IInv, RegistryInv
<1> QED BY <1>1, Invariance, PTL

(* nextIndex (wallet-tree.ts) gives no path out twice to an application    *)
(* that allocates one wallet of a chain at a time and attests its path.    *)
THEOREM AllocationCorrect == WalletsSpec => []IndexIsFresh
<1>1. IInv => IndexIsFresh
  BY DEF IInv, AllocInv
<1> QED BY <1>1, Invariance, PTL

(* deriveWallet (wallet-tree.ts) and bindWallet (payment.ts): two entities *)
(* whose wallets verifyWalletBinding confirms for a chain have different   *)
(* addresses, whatever was refused, overwritten, re-bound or interrupted.  *)
THEOREM OwnershipCorrect == WalletsSpec => []AddressHasOneOwner
<1>1. IInv => AddressHasOneOwner
  BY OneOwner DEF IInv
<1> QED BY <1>1, Invariance, PTL


(* What else the types say: lengths, and the chains of adapters and of     *)
(* bound wallets.                                                          *)
TypeInv ==
  /\ Len(regs) <= MaxRegs /\ Len(stored) <= MaxStored
  /\ \A c \in Chains : registry[c] # None => registry[c].chain = c
  /\ DOMAIN bound = Entities \X Chains
  /\ \A ec \in Entities \X Chains : bound[ec] # None => bound[ec].chain = ec[2]
  /\ \A a \in Allocations : allocs[a] # Idle /\ "path" \in allocs[a].fields =>
       "wallet" \in allocs[a].fields

(* A binding is to a wallet of the chain it is a binding on. *)
LEMMA BoundStep ==
  ASSUME TypeInv, NEW e, NEW c, NEW address, BindEntityWallet(e, c, address)
  PROVE  /\ DOMAIN bound' = Entities \X Chains
         /\ \A ec \in Entities \X Chains : bound'[ec] # None => bound'[ec].chain = ec[2]
<1>1. PICK w : w = [chain |-> c, address |-> address]
  OBVIOUS
<1>2. bound' = [bound EXCEPT ![<<e, c>>] = w] /\ w.chain = c
  BY <1>1 DEF BindEntityWallet
<1>3. ASSUME NEW ec \in Entities \X Chains, bound'[ec] # None PROVE bound'[ec].chain = ec[2]
  <2>1. CASE ec = <<e, c>>
    BY <1>2, <2>1 DEF TypeInv
  <2>2. CASE ec # <<e, c>>
    BY <1>2, <1>3, <2>2 DEF TypeInv
  <2> QED BY <2>1, <2>2
<1> QED BY <1>2, <1>3 DEF TypeInv

(* Every step keeps the types. *)
LEMMA TypeStep ==
  ASSUME IInv, TypeInv, [WalletsNext]_walletVars
  PROVE  TypeInv'
<1>0. /\ allocs \in [Allocations -> {Idle} \cup AllocRecord]
      /\ stored \in Seq(Attested) /\ Len(stored) \in Nat
      /\ regs \in Seq(Registration) /\ Len(regs) \in Nat
      /\ DOMAIN registry = Chains
  BY DEF IInv, AllocInv, AllocTypes, RegistryInv
<1>1. ASSUME NEW adapters, Registered(adapters)
      PROVE  TypeInv'
  <2>1. Len(regs') <= MaxRegs
    <3>1. PICK new : new = [adapters |-> adapters, disposed |-> FALSE]
      OBVIOUS
    <3>2. regs' = Append(regs, new) /\ Len(regs) < MaxRegs
      BY <1>1, <3>1 DEF Registered
    <3>3. Len(Append(regs, new)) = Len(regs) + 1
      BY <1>0
    <3> QED BY <1>0, <3>2, <3>3, WalletsBoundsAreNat
  <2>2. \A c \in Chains : registry'[c] # None => registry'[c].chain = c
    <3> SUFFICES ASSUME NEW c \in Chains, registry'[c] # None PROVE registry'[c].chain = c
      OBVIOUS
    <3>1. CASE \E a \in adapters : a.chain = c
      <4>1. registry'[c] = CHOOSE a \in adapters : a.chain = c
        BY <1>1, <3>1 DEF Registered
      <4>2. (CHOOSE a \in adapters : a.chain = c).chain = c
        BY <3>1
      <4> QED BY <4>1, <4>2
    <3>2. CASE ~\E a \in adapters : a.chain = c
      BY <1>1, <3>2 DEF Registered, TypeInv
    <3> QED BY <3>1, <3>2
  <2> QED BY <1>1, <2>1, <2>2 DEF Registered, otherVars, TypeInv
<1>2. ASSUME NEW n, Dispose(n)
      PROVE  TypeInv'
  <2>1. Len(regs') = Len(regs) /\ \A c \in Chains : registry'[c] \in {None, registry[c]}
    BY <1>0, <1>2 DEF Dispose
  <2> QED BY <1>2, <2>1 DEF Dispose, otherVars, TypeInv
<1>3. ASSUME NEW a \in Allocations, NEW e \in Entities, NEW c \in Chains, Allocate(a, e, c)
      PROVE  TypeInv'
  <2>1. PICK wallet : allocs' = [allocs EXCEPT ![a] =
          [stage |-> "derived", entity |-> e, chain |-> c, fields |-> {},
           path |-> wallet.derivationPath, address |-> wallet.address]]
    BY <1>3 DEF Allocate
  <2>2. \A b \in Allocations : allocs'[b] # Idle /\ "path" \in allocs'[b].fields =>
          allocs'[b] = allocs[b]
    BY <1>0, <2>1
  <2> QED BY <1>3, <2>2 DEF Allocate, registryVars, TypeInv
<1>4. ASSUME NEW a \in Allocations, NEW fields \in SUBSET Fields, BindAndAttest(a, fields)
      PROVE  TypeInv'
  <2>1. PICK e, c, address : BindEntityWallet(e, c, address)
    BY <1>4 DEF BindAndAttest
  <2>2. PICK new : /\ allocs' = [allocs EXCEPT ![a] = new]
                   /\ new = Idle \/ /\ Paired(fields)
                                    /\ new = [allocs[a] EXCEPT !.stage = "attested",
                                                               !.fields = fields]
    BY <1>4 DEF BindAndAttest
  <2>3. allocs[a] \in AllocRecord
    BY <1>0, <1>4 DEF BindAndAttest
  <2>4. new # Idle /\ "path" \in new.fields => "wallet" \in new.fields
    BY <2>2, <2>3 DEF Paired, AllocRecord
  <2>5. \A b \in Allocations : allocs'[b] = IF b = a THEN new ELSE allocs[b]
    BY <1>0, <2>2
  <2>6. \A b \in Allocations : allocs'[b] # Idle /\ "path" \in allocs'[b].fields =>
          "wallet" \in allocs'[b].fields
    BY <2>4, <2>5 DEF TypeInv
  <2>7. /\ DOMAIN bound' = Entities \X Chains
        /\ \A ec \in Entities \X Chains : bound'[ec] # None => bound'[ec].chain = ec[2]
    BY <2>1, BoundStep
  <2>8. regs' = regs /\ registry' = registry /\ stored' = stored
    BY <1>4 DEF BindAndAttest, registryVars
  <2> QED BY <2>6, <2>7, <2>8 DEF TypeInv
<1>5. ASSUME NEW a \in Allocations, Store(a)
      PROVE  TypeInv'
  <2>1. PICK new : stored' = Append(stored, new) /\ Len(stored) < MaxStored
    BY <1>5 DEF Store
  <2>2. Len(stored') <= MaxStored
    <3>1. Len(Append(stored, new)) = Len(stored) + 1
      BY <1>0
    <3> QED BY <1>0, <2>1, <3>1, WalletsBoundsAreNat
  <2>3. \A b \in Allocations : allocs'[b] # Idle => allocs'[b] = allocs[b]
    BY <1>0, <1>5 DEF Store
  <2> QED BY <1>5, <2>2, <2>3 DEF Store, registryVars, TypeInv
<1>6. CASE Restart
  <2>1. /\ registry' = [c \in Chains |-> None] /\ regs' = <<>> /\ stored' = stored
        /\ bound' = [ec \in Entities \X Chains |-> None]
        /\ allocs' = [a \in Allocations |-> Idle]
    BY <1>6 DEF Restart
  <2> QED BY <2>1, WalletsBoundsAreNat DEF TypeInv
<1>7. ASSUME NEW k \in 1..MaxStored, Rebind(k)
      PROVE  TypeInv'
  <2>1. PICK e, c, address : BindEntityWallet(e, c, address)
    BY <1>7 DEF Rebind
  <2>2. /\ DOMAIN bound' = Entities \X Chains
        /\ \A ec \in Entities \X Chains : bound'[ec] # None => bound'[ec].chain = ec[2]
    BY <2>1, BoundStep
  <2> QED BY <1>7, <2>2 DEF Rebind, registryVars, TypeInv
<1>8. CASE DisposeTree \/ UNCHANGED walletVars
  BY <1>8 DEF DisposeTree, walletVars, registryVars, TypeInv
<1> QED BY <1>1, <1>2, <1>3, <1>4, <1>5, <1>6, <1>7, <1>8
        DEF WalletsNext, RegistryNext, AllocationNext, RegisterWalletAdapter,
            RegisterSolanaAdapters

(* The registry holds adapters under their own chains, bindings are to     *)
(* wallets of their chains, and what is being allocated has a payment path *)
(* and the fields that validateWalletOpts lets through.                    *)
THEOREM TypeCorrect == WalletsSpec => []WalletsTypeOK
<1>1. WalletsInit => TypeInv
  BY WalletsBoundsAreNat DEF WalletsInit, TypeInv
<1>2. IInv /\ TypeInv /\ [WalletsNext]_walletVars => TypeInv'
  BY TypeStep
<1>3. IInv /\ TypeInv => WalletsTypeOK
  <2> SUFFICES ASSUME IInv, TypeInv, NEW a \in Allocations, allocs[a] # Idle
               PROVE  /\ allocs[a].stage \in {"derived", "attested"}
                      /\ allocs[a].path[3] \in 0..MaxPlainIndex
    BY DEF WalletsTypeOK, TypeInv
  <2>1. allocs[a] \in AllocRecord
    BY DEF IInv, AllocInv, AllocTypes
  <2>2. PICK index \in 0..MaxPlainIndex : allocs[a].path = PaymentPath(index)
    BY DEF IInv, AddressInv, Matches
  <2> QED BY <2>1, <2>2 DEF AllocRecord, PaymentPath
<1> QED BY <1>1, <1>2, <1>3, Invariance, PTL DEF WalletsSpec
=============================================================================
