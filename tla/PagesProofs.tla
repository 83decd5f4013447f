---------------------------- MODULE PagesProofs ----------------------------
(***************************************************************************)
(* Paging through the transfers skips none that was there at the start,    *)
(* and paging through the holders only such as have the balance of one     *)
(* that was read: for every page size, every list and every choice of the  *)
(* database among equal rows.                                              *)
(***************************************************************************)
EXTENDS PagesInvariant, RecursionProofs

-----------------------------------------------------------------------------
(* Balances as texts *)

Digits == Seq(0..9) \ {<<>>}

LEMMA TextRecursion ==
  Text = [n \in Nat |-> IF n < 10 THEN <<n>> ELSE Append(Text[n \div 10], n % 10)]
<1> DEFINE size == [n \in Nat |-> n]
           prev == [n \in Nat |-> n \div 10]
           leaf == [n \in Nat |-> <<n % 10>>]
           step == [p \in Nat \X Digits |-> Append(p[2], p[1] % 10)]
<1>1. size \in [Nat -> Nat] /\ prev \in [Nat -> Nat]
  OBVIOUS
<1>2. \A n \in Nat \ (0..9) : size[prev[n]] < size[n]
  OBVIOUS
<1>3. leaf \in [Nat -> Digits]
  BY DEF Digits
<1>4. step \in [Nat \X Digits -> Digits]
  <2>1. \A t \in Digits, n \in Nat : Append(t, n % 10) \in Digits
    BY DEF Digits
  <2> QED BY <2>1
<1> HIDE DEF size, prev, leaf, step
<1>5. PICK f \in [Nat -> Digits] : Recurses(f, Nat, 0..9, prev, leaf, step)
  <2>1. 0..9 \in SUBSET Nat
    OBVIOUS
  <2> QED BY <1>1, <1>2, <1>3, <1>4, <2>1, Recursion
<1>6. \A n \in Nat : f[n] = IF n < 10 THEN <<n>> ELSE Append(f[n \div 10], n % 10)
  <2> SUFFICES ASSUME NEW n \in Nat
               PROVE  f[n] = IF n < 10 THEN <<n>> ELSE Append(f[n \div 10], n % 10)
    OBVIOUS
  <2>1. f[n] = IF n \in 0..9 THEN leaf[n] ELSE step[<<n, f[prev[n]]>>]
    BY <1>5 DEF Recurses
  <2>2. CASE n < 10
    <3>1. leaf[n] = <<n>>
      BY <2>2 DEF leaf
    <3> QED BY <2>1, <2>2, <3>1
  <2>3. CASE n >= 10
    <3>1. prev[n] = n \div 10 /\ n \div 10 \in Nat
      BY DEF prev
    <3>2. f[prev[n]] \in Digits
      BY <3>1
    <3>3. step[<<n, f[prev[n]]>>] = Append(f[prev[n]], n % 10)
      BY <3>2 DEF step
    <3> QED BY <2>1, <2>3, <3>1, <3>3
  <2> QED BY <2>2, <2>3
<1>7. f = [n \in Nat |-> IF n < 10 THEN <<n>> ELSE Append(f[n \div 10], n % 10)]
  BY <1>6
<1> QED BY <1>7 DEF Text

LEMMA TextStep ==
  ASSUME NEW n \in Nat
  PROVE  /\ n < 10 => Text[n] = <<n>>
         /\ n >= 10 => Text[n] = Append(Text[n \div 10], n % 10)
<1>1. Text[n] = IF n < 10 THEN <<n>> ELSE Append(Text[n \div 10], n % 10)
  <2> DEFINE f == Text
  <2>1. f = [k \in Nat |-> IF k < 10 THEN <<k>> ELSE Append(f[k \div 10], k % 10)]
    BY TextRecursion
  <2> HIDE DEF f
  <2>2. f[n] = IF n < 10 THEN <<n>> ELSE Append(f[n \div 10], n % 10)
    BY <2>1
  <2> QED BY <2>2 DEF f
<1> QED BY <1>1

LEMMA TextType == \A n \in Nat : Text[n] \in Digits
<1> DEFINE Good == {n \in Nat : Text[n] \in Digits}
<1>1. ASSUME NEW n \in Nat, \A k \in Nat : k < n => k \in Good
      PROVE  n \in Good
  <2>1. CASE n < 10
    <3>1. n \in 0..9 /\ <<n>> \in Seq(0..9) /\ <<n>> # <<>>
      BY <2>1
    <3> QED BY <2>1, <3>1, TextStep DEF Digits
  <2>2. CASE n >= 10
    <3>1. n \div 10 \in Nat /\ n \div 10 < n
      BY <2>2
    <3>2. Text[n \div 10] \in Digits
      BY <1>1, <3>1
    <3>3. \A t \in Digits : Append(t, n % 10) \in Digits
      BY DEF Digits
    <3> QED BY <2>2, <3>2, <3>3, TextStep
  <2> QED BY <2>1, <2>2
<1>2. Good \in SUBSET Nat
  OBVIOUS
<1>3. Good = Nat
  <2> HIDE DEF Good
  <2> QED BY <1>1, <1>2, NatInductionStrong
<1> QED BY <1>3

LEMMA AppendInjective ==
  ASSUME NEW t \in Digits, NEW u \in Digits, NEW a \in 0..9, NEW b \in 0..9,
         Append(t, a) = Append(u, b)
  PROVE  t = u /\ a = b
<1>1. t \in Seq(0..9) /\ u \in Seq(0..9)
  BY DEF Digits
<1>2. Len(t) = Len(u)
  <2>1. Len(Append(t, a)) = Len(t) + 1 /\ Len(Append(u, b)) = Len(u) + 1
    BY <1>1
  <2> QED BY <1>1, <2>1
<1>3. a = b
  <2>1. Append(t, a)[Len(t) + 1] = a /\ Append(u, b)[Len(u) + 1] = b
    BY <1>1
  <2> QED BY <1>2, <2>1
<1>4. \A i \in 1..Len(t) : t[i] = u[i]
  <2> TAKE i \in 1..Len(t)
  <2>1. Append(t, a)[i] = t[i] /\ Append(u, b)[i] = u[i]
    BY <1>1, <1>2
  <2> QED BY <2>1
<1>5. t = u
  BY <1>1, <1>2, <1>4
<1> QED BY <1>3, <1>5

\* Two balances differ when they are written differently.
LEMMA TextInjective == \A a, b \in Nat : Text[a] = Text[b] => a = b
<1> DEFINE Good == {a \in Nat : \A b \in Nat : Text[a] = Text[b] => a = b}
<1>1. ASSUME NEW a \in Nat, \A k \in Nat : k < a => k \in Good,
             NEW b \in Nat, Text[a] = Text[b]
      PROVE  a = b
  <2>0. /\ Text[a] \in Seq(0..9) /\ Text[b] \in Seq(0..9)
        /\ a \div 10 \in Nat /\ b \div 10 \in Nat
        /\ Text[a \div 10] \in Digits /\ Text[b \div 10] \in Digits
    BY TextType DEF Digits
  <2>1. CASE a < 10 /\ b < 10
    BY <1>1, <2>1, TextStep
  <2>2. ASSUME NEW n \in Nat, n >= 10 PROVE Len(Text[n]) >= 2
    <3>1. n \div 10 \in Nat
      OBVIOUS
    <3>2. Text[n \div 10] \in Seq(0..9) /\ Len(Text[n \div 10]) >= 1
      BY <3>1, TextType DEF Digits
    <3>3. Text[n] = Append(Text[n \div 10], n % 10)
      BY <2>2, TextStep
    <3> QED BY <3>2, <3>3
  <2>3. ASSUME NEW n \in Nat, n < 10 PROVE Len(Text[n]) = 1
    <3>1. Text[n] = <<n>>
      BY <2>3, TextStep
    <3>2. Len(<<n>>) = 1
      OBVIOUS
    <3> QED BY <3>1, <3>2
  <2>4. CASE a >= 10 /\ b >= 10
    <3>1. Append(Text[a \div 10], a % 10) = Append(Text[b \div 10], b % 10)
      BY <1>1, <2>4, TextStep
    <3>2. Text[a \div 10] = Text[b \div 10] /\ a % 10 = b % 10
      <4> DEFINE t == Text[a \div 10]  u == Text[b \div 10]
                 x == a % 10  y == b % 10
      <4>1. x \in 0..9 /\ y \in 0..9
        OBVIOUS
      <4>2. t \in Digits /\ u \in Digits /\ Append(t, x) = Append(u, y)
        BY <2>0, <3>1
      <4> HIDE DEF t, u, x, y
      <4>3. t = u /\ x = y
        BY <4>1, <4>2, AppendInjective
      <4> QED BY <4>3 DEF t, u, x, y
    <3>3. a \div 10 < a
      BY <2>4
    <3>4. a \div 10 = b \div 10
      BY <1>1, <2>0, <3>2, <3>3
    <3> QED BY <3>2, <3>4
  <2>5. CASE a < 10 /\ b >= 10
    <3>1. Len(Text[a]) = 1 /\ Len(Text[b]) >= 2
      BY <2>2, <2>3, <2>5
    <3> QED BY <1>1, <3>1
  <2>6. CASE a >= 10 /\ b < 10
    <3>1. Len(Text[b]) = 1 /\ Len(Text[a]) >= 2
      BY <2>2, <2>3, <2>6
    <3> QED BY <1>1, <3>1
  <2> QED BY <2>1, <2>4, <2>5, <2>6
<1>2. Good \in SUBSET Nat /\ \A n \in Nat : (\A k \in Nat : k < n => k \in Good) => n \in Good
  BY <1>1
<1>3. Good = Nat
  <2> HIDE DEF Good
  <2> QED BY <1>2, NatInductionStrong
<1> QED BY <1>3

LEMMA TextLessIrreflexive ==
  ASSUME NEW t \in Digits
  PROVE  ~TextLess(t, t)
BY DEF TextLess, Digits

\* Of two different texts one is the smaller one.
LEMMA TextLessTotal ==
  ASSUME NEW t \in Digits, NEW u \in Digits, ~TextLess(t, u), ~TextLess(u, t)
  PROVE  t = u
<1>1. /\ t \in Seq(0..9) /\ Len(t) \in Nat /\ \A i \in 1..Len(t) : t[i] \in 0..9
      /\ u \in Seq(0..9) /\ Len(u) \in Nat /\ \A i \in 1..Len(u) : u[i] \in 0..9
  BY DEF Digits
<1> DEFINE Differ == {i \in Nat : /\ i >= 1 /\ (i <= Len(t) \/ i <= Len(u))
                                  /\ i <= Len(t) /\ i <= Len(u) => t[i] # u[i]}
<1>2. Differ = {}
  <2> SUFFICES ASSUME Differ # {} PROVE FALSE
    OBVIOUS
  <2>1. PICK i \in Differ : \A j \in Differ : i <= j
    <3>1. Differ \in SUBSET Nat
      OBVIOUS
    <3> HIDE DEF Differ
    <3> QED BY <3>1, LeastNumber
  <2>2. \A j \in 1..(i - 1) : j <= Len(t) /\ j <= Len(u) /\ t[j] = u[j]
    BY <1>1, <2>1
  <2>3. CASE i > Len(t)
    <3>1. i \in 1..Len(u)
      BY <1>1, <2>3
    <3> QED BY <2>2, <2>3, <3>1 DEF TextLess
  <2>4. CASE i > Len(u)
    <3>1. i \in 1..Len(t)
      BY <1>1, <2>4
    <3> QED BY <2>2, <2>4, <3>1 DEF TextLess
  <2>5. CASE i <= Len(t) /\ i <= Len(u)
    <3>1. i \in Nat /\ i >= 1 /\ t[i] # u[i]
      BY <2>5
    <3>2. i \in 1..Len(t) /\ i \in 1..Len(u)
      BY <1>1, <2>5, <3>1
    <3>3. t[i] \in 0..9 /\ u[i] \in 0..9
      BY <1>1, <3>2
    <3>4. t[i] < u[i] \/ u[i] < t[i]
      <4> HIDE DEF Differ
      <4> QED BY <3>1, <3>3
    <3> QED BY <2>2, <3>2, <3>4 DEF TextLess
  <2> QED BY <1>1, <2>3, <2>4, <2>5
<1>3. Len(t) = Len(u)
  <2>1. Len(t) < Len(u) => Len(t) + 1 \in Differ
    BY <1>1
  <2>2. Len(u) < Len(t) => Len(u) + 1 \in Differ
    BY <1>1
  <2> QED BY <1>1, <1>2, <2>1, <2>2
<1>4. \A i \in 1..Len(t) : t[i] = u[i]
  BY <1>1, <1>2, <1>3
<1> QED BY <1>1, <1>3, <1>4

-----------------------------------------------------------------------------
(* The order of the rows *)

USE PagesAssumption

LEMMA SelectedFinite ==
  ASSUME TypeOK, EventsPlaced
  PROVE  IsFiniteSet(Selected)
<1>1. IsFiniteSet({r \in events : MatchesFilter(r)})
  BY FS_Subset DEF EventsPlaced
<1>2. IsFiniteSet(HolderRows)
  <2> DEFINE S == {g \in Holder : balances[g] # 0}
             f == [h \in S |-> [holder |-> h, balance |-> balances[h]]]
  <2>1. IsFiniteSet(S)
    BY FS_Subset
  <2>2. f \in [S -> {f[h] : h \in S}]
    OBVIOUS
  <2>3. HolderRows = {f[h] : h \in S}
    BY DEF HolderRows
  <2> HIDE DEF S, f
  <2> QED BY <2>1, <2>2, <2>3, ImageFinite
<1> QED BY <1>1, <1>2 DEF Selected

LEMMA SelectedShape ==
  ASSUME TypeOK
  PROVE  /\ list = "events" => Selected \subseteq events
         /\ list = "events" => \A r \in Selected : r.number \in Nat /\ r.idx \in Nat
         /\ list = "holders" => \A r \in Selected : r.balance \in Nat
<1>1. \A r \in events : r.number \in Nat /\ r.idx \in Nat
  BY DEF TypeOK
<1>2. \A r \in HolderRows : r.balance \in Nat
  <2>1. balances \in [Holder -> Nat]
    BY DEF TypeOK
  <2> QED BY <2>1 DEF HolderRows
<1> QED BY <1>1, <1>2 DEF Selected

LEMMA BeforeIrreflexive ==
  ASSUME TypeOK, NEW r \in Selected
  PROVE  ~Before(r, r)
<1>1. CASE list = "events"
  BY <1>1, SelectedShape DEF Before, NewerEvent
<1>2. CASE list = "holders"
  <2>1. Text[r.balance] \in Digits
    BY <1>2, SelectedShape, TextType
  <2> QED BY <1>2, <2>1, TextLessIrreflexive DEF Before, RicherHolder
<1> QED BY <1>1, <1>2 DEF TypeOK

LEMMA EventsTotal ==
  ASSUME TypeOK, EventsPlaced, list = "events",
         NEW r \in Selected, NEW s \in Selected, ~Before(r, s), ~Before(s, r)
  PROVE  r = s
<1>1. r.number = s.number /\ r.idx = s.idx
  BY SelectedShape DEF Before, NewerEvent
<1> QED BY <1>1, SelectedShape DEF EventsPlaced

LEMMA HoldersTotal ==
  ASSUME TypeOK, list = "holders",
         NEW r \in Selected, NEW s \in Selected, ~Before(r, s), ~Before(s, r)
  PROVE  r.balance = s.balance
<1>1. r.balance \in Nat /\ s.balance \in Nat
  BY SelectedShape
<1>2. Text[r.balance] \in Digits /\ Text[s.balance] \in Digits
  BY <1>1, TextType
<1>3. ~TextLess(Text[r.balance], Text[s.balance]) /\ ~TextLess(Text[s.balance], Text[r.balance])
  BY DEF Before, RicherHolder
<1>4. Text[r.balance] = Text[s.balance]
  BY <1>2, <1>3, TextLessTotal
<1> QED BY <1>1, <1>4, TextInjective

-----------------------------------------------------------------------------
(* Pages *)

\* The rows that the statement skipped and those it returned.
IsPage(skipped, page, rows, from, size) ==
  /\ skipped \in SUBSET rows /\ page \in SUBSET (rows \ skipped)
  /\ MayBeFirst(skipped, rows, from) /\ MayBeFirst(page, rows \ skipped, size)

LEMMA PageShape ==
  ASSUME NEW rows, NEW from, NEW size, NEW page \in PagesOf(rows, from, size)
  PROVE  \E skipped : IsPage(skipped, page, rows, from, size)
BY DEF PagesOf, IsPage

LEMMA PageSize ==
  ASSUME NEW rows, IsFiniteSet(rows), NEW from \in Nat, NEW size \in Nat \ {0},
         NEW skipped, NEW page, IsPage(skipped, page, rows, from, size)
  PROVE  /\ IsFiniteSet(skipped) /\ IsFiniteSet(page)
         /\ Cardinality(skipped) \in Nat /\ Cardinality(page) \in Nat
         /\ Cardinality(page) <= size /\ Cardinality(skipped) <= from
         /\ skipped # rows => Cardinality(skipped) = from
         /\ Cardinality(skipped \cup page) = Cardinality(skipped) + Cardinality(page)
         /\ Cardinality(skipped) + Cardinality(page) <= Cardinality(rows)
         /\ page = {} => skipped = rows
<1>1. skipped \subseteq rows /\ page \subseteq rows /\ skipped \cap page = {}
  BY DEF IsPage
<1>2. IsFiniteSet(skipped) /\ IsFiniteSet(page) /\ IsFiniteSet(rows \ skipped)
  BY <1>1, FS_Subset
<1>3. /\ Cardinality(skipped) \in Nat /\ Cardinality(page) \in Nat
      /\ Cardinality(rows) \in Nat /\ Cardinality(rows \ skipped) \in Nat
  BY <1>2, FS_CardinalityType
<1>4. Cardinality(skipped) = Least(from, Cardinality(rows))
  BY DEF IsPage, MayBeFirst
<1>5. Cardinality(page) = Least(size, Cardinality(rows \ skipped))
  BY DEF IsPage, MayBeFirst
<1>6. skipped # rows => Cardinality(skipped) # Cardinality(rows)
  BY <1>1, FS_Subset
<1>7. Cardinality(skipped \cup page) = Cardinality(skipped) + Cardinality(page)
  <2>1. Cardinality(skipped \cap page) = 0
    BY <1>1, FS_EmptySet
  <2>2. Cardinality(skipped \cup page)
          = Cardinality(skipped) + Cardinality(page) - Cardinality(skipped \cap page)
    BY <1>2, FS_Union
  <2> QED BY <1>3, <2>1, <2>2
<1>8. Cardinality(skipped \cup page) <= Cardinality(rows)
  BY <1>1, FS_Subset
<1>9. page = {} => skipped = rows
  <2> SUFFICES ASSUME page = {} PROVE skipped = rows
    OBVIOUS
  <2>1. Cardinality(page) = 0
    BY FS_EmptySet
  <2>2. Cardinality(rows \ skipped) = 0
    BY <1>3, <1>5, <2>1 DEF Least
  <2>3. rows \ skipped = {}
    BY <1>2, <2>2, FS_EmptySet
  <2> QED BY <1>1, <2>3
<1> QED BY <1>2, <1>3, <1>4, <1>5, <1>6, <1>7, <1>8, <1>9 DEF Least

\* Of a row that was skipped, fewer are ahead than were skipped.
LEMMA AheadOfSkipped ==
  ASSUME TypeOK, EventsPlaced, NEW from \in Nat, NEW size \in Nat \ {0},
         NEW skipped, NEW page, IsPage(skipped, page, Selected, from, size),
         NEW r \in skipped
  PROVE  Cardinality(Ahead(r)) < from
<1>1. r \in Selected /\ skipped \subseteq Selected
  BY DEF IsPage
<1>2. Ahead(r) \subseteq skipped \ {r}
  <2>1. ~Before(r, r)
    BY <1>1, BeforeIrreflexive
  <2>2. \A s \in Selected \ skipped : ~Before(s, r)
    BY DEF IsPage, MayBeFirst
  <2> QED BY <2>1, <2>2 DEF Ahead
<1>3. IsFiniteSet(Selected)
  BY SelectedFinite
<1>4. IsFiniteSet(skipped) /\ Cardinality(skipped) \in Nat /\ Cardinality(skipped) <= from
  BY <1>3, PageSize
<1>5. IsFiniteSet(skipped \ {r}) /\ Cardinality(skipped \ {r}) = Cardinality(skipped) - 1
  BY <1>4, FS_RemoveElement
<1>6. IsFiniteSet(Ahead(r)) /\ Cardinality(Ahead(r)) <= Cardinality(skipped \ {r})
  BY <1>2, <1>5, FS_Subset
<1>7. Cardinality(Ahead(r)) \in Nat
  BY <1>6, FS_CardinalityType
<1> QED BY <1>4, <1>5, <1>6, <1>7

\* No row is before one that was skipped or returned, unless it was as well.
LEMMA PageIsInitial ==
  ASSUME NEW rows, NEW from, NEW size,
         NEW skipped, NEW page, IsPage(skipped, page, rows, from, size),
         NEW f \in skipped \cup page, NEW s \in rows \ (skipped \cup page)
  PROVE  ~Before(s, f)
BY DEF IsPage, MayBeFirst

-----------------------------------------------------------------------------
(* The steps *)

LEMMA LimitType ==
  ASSUME TypeOK
  PROVE  LimitOf(limit) \in Nat \ {0} /\ LimitOf(limit) <= MaxLimit
<1>1. limit \in Int
  BY DEF TypeOK
<1> QED BY <1>1 DEF LimitOf

LEMMA OffsetType ==
  ASSUME TypeOK
  PROVE  /\ offset \in Nat /\ OffsetOf(offset) \in Nat
         /\ offset <= MaxOffset => OffsetOf(offset) = offset
BY DEF TypeOK, OffsetOf

LEMMA SameRows ==
  ASSUME UNCHANGED <<list, filter, events, balances>>
  PROVE  Selected' = Selected /\ \A r : Ahead(r)' = Ahead(r)
<1>1. HolderRows' = HolderRows
  BY DEF HolderRows
<1>2. \A r : MatchesFilter(r)' <=> MatchesFilter(r)
  BY DEF MatchesFilter
<1>3. Selected' = Selected
  BY <1>1, <1>2 DEF Selected
<1>4. \A r, s : Before(r, s)' <=> Before(r, s)
  BY DEF Before
<1> QED BY <1>3, <1>4 DEF Ahead

LEMMA InitInv == Init => IInv
<1> SUFFICES ASSUME Init PROVE IInv
  OBVIOUS
<1>1. TypeOK
  <2>1. list \in {"events", "holders"} /\ filter \in Party \cup {AnyParty}
    BY DEF Init
  <2>2. balances \in [Holder -> Amounts]
    BY DEF Init
  <2>3. events = {} /\ top \in 0..MaxHeight /\ offset \in 0..(MaxOffset + MaxLimit)
    BY DEF Init
  <2> QED BY <2>1, <2>2, <2>3 DEF Init, TypeOK
<1>2. EventsPlaced
  BY FS_EmptySet DEF Init, EventsPlaced
<1> QED BY <1>1, <1>2 DEF Init, IInv, NothingRead, NothingSkipped, RestIsAhead, OnlyTiesSkipped, BalancesReached

LEMMA BeginStep ==
  ASSUME IInv, Begin
  PROVE  IInv'
<1>1. TypeOK'
  BY DEF IInv, TypeOK, Begin, readVars, tableVars
<1>2. EventsPlaced'
  BY DEF IInv, EventsPlaced, Begin, tableVars
<1>3. Selected' = Selected /\ \A r : Ahead(r)' = Ahead(r)
  BY SameRows DEF Begin, readVars, tableVars
<1>4. IsFiniteSet(Selected)
  BY SelectedFinite DEF IInv
<1>5. \A r \in Selected : Cardinality(Ahead(r)) \in Nat
  <2> TAKE r \in Selected
  <2>1. Ahead(r) \subseteq Selected
    BY DEF Ahead
  <2>2. IsFiniteSet(Ahead(r))
    BY <1>4, <2>1, FS_Subset
  <2> QED BY <2>2, FS_CardinalityType
<1>6. Cardinality(Selected) \in Nat
  BY <1>4, FS_CardinalityType
<1>7. RestIsAhead'
  BY <1>3, <1>5 DEF IInv, Begin, readVars, NothingRead, RestIsAhead
<1>8. BalancesReached'
  BY <1>3, <1>5, <1>6 DEF IInv, Begin, readVars, NothingRead, BalancesReached
<1> QED BY <1>1, <1>2, <1>7, <1>8 DEF IInv, Begin, NothingRead, NothingSkipped, OnlyTiesSkipped

\* What is not on the next page has as many rows ahead as the client then
\* asks to skip, and it is not the end of the list.
LEMMA NotOnPage ==
  ASSUME TypeOK, EventsPlaced, RestIsAhead,
         list = "events", state = "reading", ~disturbed,
         NEW skipped, NEW page, IsPage(skipped, page, Selected, offset, LimitOf(limit)),
         NEW s \in atStart \ (received \cup page)
  PROVE  Cardinality(Ahead(s)) >= offset + Cardinality(page) /\ page # {}
<1>1. IsFiniteSet(Selected) /\ offset \in Nat /\ LimitOf(limit) \in Nat \ {0}
  BY SelectedFinite, OffsetType, LimitType
<1>2. s \in Selected /\ Cardinality(Ahead(s)) >= offset
  BY DEF RestIsAhead
<1>3. Ahead(s) \subseteq Selected
  BY DEF Ahead
<1>4. IsFiniteSet(Ahead(s)) /\ Cardinality(Ahead(s)) \in Nat
  BY <1>1, <1>3, FS_Subset, FS_CardinalityType
<1>5. s \notin skipped
  BY <1>1, <1>2, <1>4, AheadOfSkipped
<1>6. skipped # Selected
  BY <1>2, <1>5
<1>7. /\ skipped # Selected => Cardinality(skipped) = offset
      /\ Cardinality(skipped \cup page) = Cardinality(skipped) + Cardinality(page)
  BY <1>1, PageSize
<1>8. page # {}
  <2>1. page = {} => skipped = Selected
    BY <1>1, PageSize
  <2> QED BY <1>6, <2>1
<1>9. skipped \cup page \subseteq Ahead(s)
  <2> SUFFICES ASSUME NEW f \in skipped \cup page PROVE f \in Ahead(s)
    OBVIOUS
  <2>1. f \in Selected /\ f # s
    BY <1>5 DEF IsPage
  <2>2. ~Before(s, f)
    BY <1>2, <1>5, PageIsInitial
  <2>3. Before(f, s)
    BY <1>2, <2>1, <2>2, EventsTotal
  <2> QED BY <2>1, <2>3 DEF Ahead
<1>10. Cardinality(skipped \cup page) <= Cardinality(Ahead(s))
  BY <1>4, <1>9, FS_Subset
<1> QED BY <1>6, <1>7, <1>8, <1>10

\* A balance that the rows up to the next page must reach was read before or
\* is on it.
LEMMA BalanceOnPage ==
  ASSUME TypeOK, EventsPlaced, BalancesReached,
         list = "holders", state = "reading", ~disturbed,
         NEW skipped, NEW page, IsPage(skipped, page, Selected, offset, LimitOf(limit)),
         NEW r \in atStart, Cardinality(Ahead(r)) < offset + Cardinality(page)
  PROVE  \E s \in received \cup page : s.balance = r.balance
<1>1. IsFiniteSet(Selected) /\ offset \in Nat /\ LimitOf(limit) \in Nat \ {0}
  BY SelectedFinite, OffsetType, LimitType
<1>2. r \in Selected /\ count = offset /\ offset <= Cardinality(Selected)
  BY DEF BalancesReached
<1>3. \A q \in Selected : IsFiniteSet(Ahead(q)) /\ Cardinality(Ahead(q)) \in Nat
  <2> TAKE q \in Selected
  <2>1. Ahead(q) \subseteq Selected
    BY DEF Ahead
  <2>2. IsFiniteSet(Ahead(q))
    BY <1>1, <2>1, FS_Subset
  <2> QED BY <2>2, FS_CardinalityType
<1>4. CASE Cardinality(Ahead(r)) < offset
  BY <1>2, <1>4 DEF BalancesReached
<1>5. CASE Cardinality(Ahead(r)) >= offset
  <2>1. /\ skipped # Selected => Cardinality(skipped) = offset
        /\ Cardinality(skipped \cup page) = Cardinality(skipped) + Cardinality(page)
    BY <1>1, PageSize
  <2>8. Cardinality(page) \in Nat
    BY <1>1, PageSize
  <2>2. \A f \in skipped : Cardinality(Ahead(f)) < offset
    BY <1>1, AheadOfSkipped
  <2>3. r \notin skipped
    BY <1>1, <1>2, <1>3, <1>5, <2>2
  <2>4. PICK f \in skipped \cup page : f \notin Ahead(r)
    <3> SUFFICES ASSUME skipped \cup page \subseteq Ahead(r) PROVE FALSE
      OBVIOUS
    <3>1. Cardinality(skipped \cup page) <= Cardinality(Ahead(r))
      BY <1>2, <1>3, FS_Subset
    <3>2. skipped # Selected
      BY <1>2, <2>3
    <3> QED BY <1>1, <1>2, <1>3, <2>1, <2>8, <3>1, <3>2
  <2>5. f \in Selected
    BY DEF IsPage
  <2>6. CASE r \in page
    BY <2>6
  <2>7. CASE r \notin page
    <3>1. ~Before(r, f)
      BY <1>2, <2>3, <2>7, PageIsInitial
    <3>2. ~Before(f, r)
      BY <2>4, <2>5 DEF Ahead
    <3>3. f.balance = r.balance
      BY <1>2, <2>5, <3>1, <3>2, HoldersTotal
    <3>4. f \notin skipped
      <4>1. Ahead(f) = Ahead(r)
        BY <3>3 DEF Ahead, Before, RicherHolder
      <4> QED BY <1>1, <1>2, <1>3, <1>5, <2>2, <2>5, <4>1
    <3> QED BY <3>3, <3>4
  <2> QED BY <2>6, <2>7
<1> QED BY <1>1, <1>2, <1>3, <1>4, <1>5

LEMMA AskType ==
  ASSUME IInv, Ask
  PROVE  TypeOK' /\ EventsPlaced' /\ NothingRead'
<1>1. PICK page \in PagesOf(Selected, OffsetOf(offset), LimitOf(limit)) :
        /\ state' = IF page = {} THEN "done" ELSE "reading"
        /\ offset' = Least(offset + Cardinality(page), MaxOffset + MaxLimit)
        /\ IF disturbed \/ offset > MaxOffset THEN Disturb
           ELSE /\ received' = received \cup page
                /\ count' = count + Cardinality(page)
                /\ UNCHANGED <<disturbed, atStart>>
  BY DEF Ask
<1>2. UNCHANGED <<list, filter, limit, top, events, balances>>
  BY DEF Ask, readVars, tableVars
<1>3. offset' \in 0..(MaxOffset + MaxLimit)
  <2>1. PICK skipped : IsPage(skipped, page, Selected, OffsetOf(offset), LimitOf(limit))
    BY PageShape
  <2>2. /\ IsFiniteSet(Selected) /\ OffsetOf(offset) \in Nat
        /\ LimitOf(limit) \in Nat \ {0} /\ offset \in Nat
    BY SelectedFinite, OffsetType, LimitType DEF IInv
  <2>3. Cardinality(page) \in Nat
    BY <2>1, <2>2, PageSize
  <2> QED BY <1>1, <2>2, <2>3 DEF Least
<1>4. disturbed' \in BOOLEAN /\ state' \in {"reading", "done"}
  BY <1>1 DEF IInv, TypeOK, Disturb
<1>5. TypeOK'
  BY <1>2, <1>3, <1>4 DEF IInv, TypeOK
<1>6. EventsPlaced'
  BY <1>2 DEF IInv, EventsPlaced
<1> QED BY <1>4, <1>5, <1>6 DEF NothingRead

LEMMA AskStep ==
  ASSUME IInv, Ask
  PROVE  IInv'
<1>0. TypeOK' /\ EventsPlaced' /\ NothingRead'
  BY AskType
<1>1. PICK page \in PagesOf(Selected, OffsetOf(offset), LimitOf(limit)) :
        /\ state' = IF page = {} THEN "done" ELSE "reading"
        /\ offset' = Least(offset + Cardinality(page), MaxOffset + MaxLimit)
        /\ IF disturbed \/ offset > MaxOffset THEN Disturb
           ELSE /\ received' = received \cup page
                /\ count' = count + Cardinality(page)
                /\ UNCHANGED <<disturbed, atStart>>
  BY DEF Ask
<1>2. state = "reading" /\ UNCHANGED <<list, filter, limit, top, events, balances>>
  BY DEF Ask, readVars, tableVars
<1>3. CASE disturbed \/ offset > MaxOffset
  BY <1>0, <1>1, <1>3
     DEF Disturb, IInv, NothingSkipped, RestIsAhead, OnlyTiesSkipped, BalancesReached
<1>4. CASE ~(disturbed \/ offset > MaxOffset)
  <2>1. PICK skipped : IsPage(skipped, page, Selected, OffsetOf(offset), LimitOf(limit))
    BY PageShape
  <2>2. /\ IsFiniteSet(Selected) /\ offset \in Nat /\ OffsetOf(offset) = offset
        /\ LimitOf(limit) \in Nat \ {0} /\ LimitOf(limit) <= MaxLimit
    BY <1>4, SelectedFinite, OffsetType, LimitType DEF IInv
  <2>3. IsPage(skipped, page, Selected, offset, LimitOf(limit))
    BY <2>1, <2>2
  <2>4. /\ Cardinality(page) \in Nat /\ Cardinality(page) <= LimitOf(limit)
        /\ Cardinality(skipped) \in Nat
        /\ Cardinality(skipped) + Cardinality(page) <= Cardinality(Selected)
        /\ skipped # Selected => Cardinality(skipped) = offset
    BY <2>2, <2>3, PageSize
  <2>5. page = {} => skipped = Selected
    BY <2>2, <2>3, PageSize
  <2>6. page \subseteq Selected
    BY <2>3 DEF IsPage
  <2>7. offset' = offset + Cardinality(page)
    BY <1>1, <1>4, <2>2, <2>4 DEF Least
  <2>8. /\ received' = received \cup page /\ count' = count + Cardinality(page)
        /\ disturbed' = disturbed /\ atStart' = atStart /\ ~disturbed
    BY <1>1, <1>4
  <2>9. Selected' = Selected /\ \A r : Ahead(r)' = Ahead(r)
    BY <1>2, SameRows
  <2>10. CASE list = "events"
    <3>1. \A s \in atStart \ (received \cup page) :
            Cardinality(Ahead(s)) >= offset + Cardinality(page) /\ page # {}
      BY <1>2, <2>3, <2>8, <2>10, NotOnPage DEF IInv
    <3>2. NothingSkipped'
      BY <1>1, <2>8, <3>1 DEF NothingSkipped
    <3>3. atStart \subseteq Selected
      BY <1>2, <2>8, <2>10 DEF IInv, RestIsAhead
    <3>4. RestIsAhead'
      BY <2>7, <2>8, <2>9, <3>1, <3>3 DEF RestIsAhead
    <3> QED BY <1>0, <1>2, <2>10, <3>2, <3>4 DEF IInv, OnlyTiesSkipped, BalancesReached
  <2>11. CASE list = "holders"
    <3>1. atStart = Selected /\ count = offset /\ count <= Cardinality(atStart)
      BY <1>2, <2>8, <2>11 DEF IInv, BalancesReached
    <3>2. \A r \in atStart : Cardinality(Ahead(r)) < offset + Cardinality(page) =>
            \E s \in received \cup page : s.balance = r.balance
      BY <1>2, <2>3, <2>8, <2>11, BalanceOnPage DEF IInv
    <3>3. Cardinality(Selected) \in Nat
      BY <2>2, FS_CardinalityType
    <3>4. count' = offset' /\ offset + Cardinality(page) <= Cardinality(Selected)
      <4>1. CASE skipped = Selected
        BY <2>2, <2>4, <2>7, <2>8, <3>1, <3>3, <4>1
      <4>2. CASE skipped # Selected
        BY <2>2, <2>4, <2>7, <2>8, <3>1, <3>3, <4>2
      <4> QED BY <4>1, <4>2
    <3>5. BalancesReached'
      BY <2>7, <2>8, <2>9, <3>1, <3>2, <3>4 DEF BalancesReached
    <3>6. ASSUME page = {}
          PROVE  /\ count' = Cardinality(atStart)
                 /\ \A r \in atStart \ received' :
                      \E s \in received' : s # r /\ s.balance = r.balance
      <4>1. skipped = Selected /\ Cardinality(page) = 0
        BY <2>5, <3>6, FS_EmptySet
      <4>2. count = Cardinality(atStart)
        <5>1. Cardinality(skipped) <= offset
          BY <2>2, <2>3, PageSize
        <5> QED BY <2>2, <3>1, <3>3, <4>1, <5>1
      <4>3. ASSUME NEW r \in atStart \ received'
            PROVE  \E s \in received' : s # r /\ s.balance = r.balance
        <5>1. Cardinality(Ahead(r)) < offset
          BY <2>2, <2>3, <3>1, <4>1, AheadOfSkipped DEF IInv
        <5>2. PICK s \in received \cup page : s.balance = r.balance
          BY <2>2, <3>1, <3>2, <4>1, <5>1
        <5> QED BY <2>8, <5>2
      <4> QED BY <2>2, <2>8, <3>1, <3>3, <4>1, <4>2, <4>3
    <3>7. OnlyTiesSkipped'
      BY <1>1, <2>8, <3>6 DEF OnlyTiesSkipped
    <3> QED BY <1>0, <1>2, <2>11, <3>5, <3>7 DEF IInv, NothingSkipped, RestIsAhead
  <2> QED BY <2>10, <2>11 DEF IInv, TypeOK
<1> QED BY <1>3, <1>4

\* New events have higher numbers than all others, so that none comes later.
LEMMA CommitStep ==
  ASSUME IInv, Commit
  PROVE  IInv'
<1>1. /\ list = "events" /\ top < MaxHeight /\ top' = top + 1
      /\ UNCHANGED <<list, filter, limit, balances, state, offset, disturbed, atStart, received, count>>
  BY DEF Commit, readVars, histVars
<1>2. PICK logs \in SUBSET BlockLog :
        /\ InOneBlock(logs)
        /\ events' = events \cup {[number |-> top', idx |-> l.idx, party |-> l.party] : l \in logs}
  BY DEF Commit
<1> DEFINE row == [l \in logs |-> [number |-> top + 1, idx |-> l.idx, party |-> l.party]]
           new == {row[l] : l \in logs}
<1>3. events' = events \cup new
  BY <1>1, <1>2
<1>4. top \in Nat /\ \A r \in events : r.number \in 1..top /\ r.idx \in {l.idx : l \in BlockLog} /\ r.party \in Party
  BY DEF IInv, TypeOK
<1>5. \A l \in logs : l.idx \in {k.idx : k \in BlockLog} /\ l.party \in Party /\ l.idx \in Nat
  OBVIOUS
<1>6. \A r \in new : \E l \in logs : r = [number |-> top + 1, idx |-> l.idx, party |-> l.party]
  OBVIOUS
<1>7. TypeOK'
  <2>1. events \subseteq [number : 1..(top + 1), idx : {l.idx : l \in BlockLog}, party : Party]
    <3>1. events \subseteq [number : 1..top, idx : {l.idx : l \in BlockLog}, party : Party]
      BY DEF IInv, TypeOK
    <3>2. 1..top \subseteq 1..(top + 1)
      BY <1>4
    <3> HIDE DEF row, new
    <3> QED BY <3>1, <3>2
  <2>2. new \subseteq [number : 1..(top + 1), idx : {l.idx : l \in BlockLog}, party : Party]
    <3>1. top + 1 \in 1..(top + 1)
      BY <1>4
    <3> HIDE DEF row, new
    <3> QED BY <1>5, <1>6, <3>1
  <2>3. events' \subseteq [number : 1..top', idx : {l.idx : l \in BlockLog}, party : Party]
    BY <1>1, <1>3, <2>1, <2>2
  <2>4. top' \in 0..MaxHeight
    BY <1>1, <1>4
  <2> HIDE DEF row, new
  <2> QED BY <1>1, <2>3, <2>4 DEF IInv, TypeOK
<1>8. EventsPlaced'
  <2>1. IsFiniteSet(new)
    <3>1. IsFiniteSet(logs) /\ row \in [logs -> {row[l] : l \in logs}]
      BY FS_Subset
    <3> HIDE DEF row
    <3> QED BY <3>1, ImageFinite
  <2> HIDE DEF row, new
  <2>2. IsFiniteSet(events')
    BY <1>3, <2>1, FS_Union DEF IInv, EventsPlaced
  <2>3. \A r, s \in new : r.number = s.number /\ r.idx = s.idx => r = s
    BY <1>2, <1>6 DEF InOneBlock
  <2>4. \A r \in events, s \in new : r.number # s.number
    BY <1>4, <1>6
  <2> QED BY <1>3, <2>2, <2>3, <2>4 DEF IInv, EventsPlaced
<1> HIDE DEF row, new
<1>9. Selected \subseteq Selected'
  BY <1>1, <1>3 DEF Selected, MatchesFilter
<1>10. \A r : Ahead(r) \subseteq Ahead(r)'
  BY <1>1, <1>9 DEF Ahead, Before
<1>11. IsFiniteSet(Selected') /\ IsFiniteSet(Selected)
  <2>1. (TypeOK /\ EventsPlaced => IsFiniteSet(Selected))'
    BY SelectedFinite, PTL
  <2> QED BY <1>7, <1>8, <2>1, SelectedFinite DEF IInv
<1>12. \A r : /\ Cardinality(Ahead(r)) \in Nat /\ Cardinality(Ahead(r)') \in Nat
              /\ Cardinality(Ahead(r)) <= Cardinality(Ahead(r)')
  <2> TAKE r
  <2>1. Ahead(r)' \subseteq Selected'
    BY DEF Ahead
  <2>2. IsFiniteSet(Ahead(r)')
    BY <1>11, <2>1, FS_Subset
  <2>3. IsFiniteSet(Ahead(r)) /\ Cardinality(Ahead(r)) <= Cardinality(Ahead(r)')
    BY <1>10, <2>2, FS_Subset
  <2> QED BY <2>2, <2>3, FS_CardinalityType
<1>13. RestIsAhead'
  <2>1. offset \in Nat
    BY OffsetType DEF IInv
  <2>2. \A s : Cardinality(Ahead(s)) >= offset => Cardinality(Ahead(s)') >= offset
    BY <1>12, <2>1
  <2> QED BY <1>1, <1>9, <2>2 DEF IInv, RestIsAhead
<1> QED BY <1>1, <1>7, <1>8, <1>13
        DEF IInv, NothingRead, NothingSkipped, OnlyTiesSkipped, BalancesReached

LEMMA RollbackStep ==
  ASSUME IInv, NEW n \in 0..MaxHeight, Rollback(n)
  PROVE  IInv'
<1>1. /\ list = "events" /\ top' = n /\ events' = EventsUpTo(n)
      /\ UNCHANGED <<list, filter, limit, balances, state, offset>>
  BY DEF Rollback, readVars
<1>2. IF state = "reading" THEN Disturb ELSE UNCHANGED <<disturbed, atStart, received, count>>
  BY DEF Rollback, DisturbIf, histVars
<1>3. events' \subseteq events /\ \A r \in events' : r.number <= n
  BY <1>1 DEF EventsUpTo
<1>4. TypeOK'
  <2>1. /\ events \subseteq [number : 1..top, idx : {l.idx : l \in BlockLog}, party : Party]
        /\ top \in Nat
    BY DEF IInv, TypeOK
  <2>2. \A r \in events' : r.number \in 1..n
    BY <1>3, <2>1
  <2>3. events' \subseteq [number : 1..n, idx : {l.idx : l \in BlockLog}, party : Party]
    BY <1>3, <2>1, <2>2
  <2>4. disturbed' \in BOOLEAN
    BY <1>2 DEF IInv, TypeOK, Disturb
  <2> QED BY <1>1, <2>3, <2>4 DEF IInv, TypeOK
<1>5. EventsPlaced'
  <2>1. IsFiniteSet(events')
    BY <1>3, FS_Subset DEF IInv, EventsPlaced
  <2> QED BY <1>3, <2>1 DEF IInv, EventsPlaced
<1> QED BY <1>1, <1>2, <1>4, <1>5
        DEF IInv, Disturb, NothingRead, NothingSkipped, RestIsAhead, OnlyTiesSkipped, BalancesReached

LEMMA ChangeBalanceStep ==
  ASSUME IInv, NEW h \in Holder, NEW a \in Amounts, ChangeBalance(h, a)
  PROVE  IInv'
<1>1. /\ list = "holders" /\ balances' = [balances EXCEPT ![h] = a]
      /\ UNCHANGED <<list, filter, limit, top, events, state, offset>>
  BY DEF ChangeBalance, readVars
<1>2. IF state = "reading" THEN Disturb ELSE UNCHANGED <<disturbed, atStart, received, count>>
  BY DEF ChangeBalance, DisturbIf, histVars
<1>3. TypeOK'
  <2>1. balances' \in [Holder -> Amounts]
    BY <1>1 DEF IInv, TypeOK
  <2>2. disturbed' \in BOOLEAN
    BY <1>2 DEF IInv, TypeOK, Disturb
  <2> QED BY <1>1, <2>1, <2>2 DEF IInv, TypeOK
<1>4. EventsPlaced'
  BY <1>1 DEF IInv, EventsPlaced
<1> QED BY <1>1, <1>2, <1>3, <1>4
        DEF IInv, Disturb, NothingRead, NothingSkipped, RestIsAhead, OnlyTiesSkipped, BalancesReached

LEMMA StutterStep ==
  ASSUME IInv, UNCHANGED vars
  PROVE  IInv'
<1>1. /\ UNCHANGED <<list, filter, limit, top, events, balances>>
      /\ UNCHANGED <<state, offset, disturbed, atStart, received, count>>
  BY DEF vars
<1>2. TypeOK' /\ EventsPlaced' /\ NothingRead' /\ NothingSkipped' /\ OnlyTiesSkipped'
  BY <1>1 DEF IInv, TypeOK, EventsPlaced, NothingRead, NothingSkipped, OnlyTiesSkipped
<1>3. Selected' = Selected /\ \A r : Ahead(r)' = Ahead(r)
  BY <1>1, SameRows
<1> QED BY <1>1, <1>2, <1>3 DEF IInv, RestIsAhead, BalancesReached

LEMMA InvNext == IInv /\ [Next]_vars => IInv'
<1> SUFFICES ASSUME IInv, [Next]_vars PROVE IInv'
  OBVIOUS
<1>1. CASE Begin
  BY <1>1, BeginStep
<1>2. CASE Ask
  BY <1>2, AskStep
<1>3. CASE Commit
  BY <1>3, CommitStep
<1>4. CASE \E n \in 0..MaxHeight : Rollback(n)
  BY <1>4, RollbackStep
<1>5. CASE \E h \in Holder, a \in Amounts : ChangeBalance(h, a)
  BY <1>5, ChangeBalanceStep
<1>6. CASE UNCHANGED vars
  BY <1>6, StutterStep
<1> QED BY <1>1, <1>2, <1>3, <1>4, <1>5, <1>6 DEF Next

-----------------------------------------------------------------------------
(* The theorems *)

\* What the pages have brought, and what they will still bring, is known at
\* every moment.
THEOREM PagesInductive == Spec => []IInv
<1>1. Init => IInv
  BY InitInv
<1>2. IInv /\ [Next]_vars => IInv'
  BY InvNext
<1> QED BY <1>1, <1>2, PTL DEF Spec

\* The variables of the lists and of the client have their types: no event is
\* above the last block, and the offset stays within what pagination allows.
THEOREM PagesTyped == Spec => []TypeOK
<1>1. IInv => TypeOK
  BY DEF IInv
<1> QED BY <1>1, PagesInductive, PTL

\* Between two rollbacks, a client that reads the transfers to their end has
\* read all that were there when it began, whatever is committed meanwhile:
\* new ones come first, and move the others only to later pages.
THEOREM TransfersNotSkipped == Spec => []NothingSkipped
<1>1. IInv => NothingSkipped
  BY DEF IInv
<1> QED BY <1>1, PagesInductive, PTL

\* Of the holders, whose order leaves the database a choice, only one with the
\* same balance as another can be missed, while no balance changes.
THEOREM HoldersSkippedAreTies == Spec => []OnlyTiesSkipped
<1>1. IInv => OnlyTiesSkipped
  BY DEF IInv
<1> QED BY <1>1, PagesInductive, PTL

=============================================================================
