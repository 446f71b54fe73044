---------------------------- MODULE ValuesProofs ----------------------------
(***************************************************************************)
(* Proofs about the classes of src/core that others build on, for every    *)
(* value of their constants: InstrumentId, PoolPtr, Configuration, Price   *)
(* and Timestamp.  They share no state: each part takes the specification  *)
(* of one of them.                                                         *)
(*                                                                         *)
(* InstrumentId: the inductive invariant says what of the array a symbol   *)
(* determines, the cells up to the first null character.  What is      *)
(* behind that is left from earlier symbols, and the comparisons never get *)
(* there: they would first have met a difference or the end.               *)
(*                                                                         *)
(* PoolPtr: no object is in two of the places that may hold it.            *)
(*                                                                         *)
(* Configuration: the settings are the last word of the documents, because *)
(* of how the last word changes when one document more is appended.        *)
(*                                                                         *)
(* Price, Timestamp: arithmetic modulo a word.  Nothing is known of powers *)
(* of two but what the assumptions on constants say; those of ten are a    *)
(* recursive function, which is shown to exist, as are the folds that the  *)
(* loops of from_string() are.                                             *)
(*                                                                         *)
(* from_string(): integers of which a register keeps the same stay so      *)
(* under sums and products; each character adds to a value what its place  *)
(* is worth.  to_string(): the first digits of a number are worth what is  *)
(* left of it without the others.                                          *)
(***************************************************************************)
EXTENDS InstrumentId, PoolPtr, Configuration, FixedPoint, Timestamp,
        FiniteSetTheorems, SequenceTheorems, WellFoundedInduction, TLAPS

-----------------------------------------------------------------------------
(* InstrumentId.                                                           *)

Cell == Characters \cup {NUL}
Arrays == [1 .. Cells -> Cell]

\* The array holds the symbol, as far as it shows.
Holds(data, sym) ==
    /\ data \in Arrays
    /\ \A k \in 1 .. Shown(sym) : data[k] = sym[k]
    /\ data[Shown(sym) + 1] = NUL

IdInv ==
    /\ given \in [Ids -> Symbols]
    /\ id \in [Ids -> [exchange : Exchanges, symbol_data : Arrays]]
    /\ \A i \in Ids : Holds(id[i].symbol_data, given[i])

-----------------------------------------------------------------------------
(* Symbols and what is kept of them.                                       *)

LEMMA SymbolsAreSequences ==
    ASSUME NEW sym \in Symbols
    PROVE  /\ sym \in Seq(Characters) /\ Len(sym) \in Nat
           /\ \A k \in 1 .. Len(sym) : sym[k] \in Characters
<1>1. PICK n \in 0 .. MaxLength : sym \in [1 .. n -> Characters]
      BY DEF Symbols
<1>2. n \in Nat
      BY MaxLengthAssumption
<1>3. sym \in Seq(Characters)
      BY <1>1, <1>2, SeqDef
<1>. QED
     BY <1>3, LenProperties

LEMMA KeptBounds ==
    ASSUME NEW sym \in Symbols
    PROVE  Kept(sym) \in 0 .. Cells - 1 /\ Kept(sym) <= Len(sym)
BY SymbolsAreSequences, CellsAssumption DEF Kept

LEMMA ShownEnds ==
    ASSUME NEW sym \in Symbols
    PROVE  Shown(sym) \in 0 .. Kept(sym) /\ EndsAt(sym, Shown(sym))
<1>. DEFINE T == {n \in 0 .. Kept(sym) : n = Kept(sym) \/ sym[n + 1] = NUL}
<1>1. Kept(sym) \in Nat
      BY KeptBounds, CellsAssumption
<1>2. T \subseteq Nat /\ Kept(sym) \in T
      BY <1>1
<1>3. PICK n \in T : \A j \in T : ~ (<<j, n>> \in OpToRel(<, Nat))
      BY <1>2, NatLessThanWellFounded, WFMin
<1>4. \A j \in T : ~(j < n)
      BY <1>2, <1>3 DEF OpToRel
<1>5. ASSUME NEW k \in 1 .. n PROVE sym[k] # NUL
  <2>1. k - 1 \in 0 .. Kept(sym) /\ k - 1 < n /\ (k - 1) + 1 = k
        BY <1>1, <1>5
  <2>2. k - 1 \notin T
        BY <1>4, <2>1
  <2>. QED
       BY <2>1, <2>2
<1>6. n \in 0 .. Kept(sym) /\ EndsAt(sym, n)
      BY <1>5 DEF EndsAt
<1>. QED
     BY <1>6 DEF Shown

LEMMA ShownBounds ==
    ASSUME NEW sym \in Symbols
    PROVE  /\ Shown(sym) \in 0 .. Cells - 1 /\ Shown(sym) <= Kept(sym)
           /\ Shown(sym) <= Len(sym)
BY ShownEnds, KeptBounds, SymbolsAreSequences, CellsAssumption

\* A cell before the end of what shows of a symbol holds no null character.
LEMMA FilledIsNotNull ==
    ASSUME NEW sym \in Symbols, NEW data, Holds(data, sym), NEW k \in 1 .. Shown(sym)
    PROVE  data[k] # NUL
BY ShownEnds DEF Holds, EndsAt

LEMMA WrittenHolds ==
    ASSUME NEW data \in Arrays, NEW sym \in Symbols
    PROVE  Holds(Written(data, sym), sym)
<1>1. \A k \in 1 .. Kept(sym) : sym[k] \in Characters
      BY SymbolsAreSequences, KeptBounds
<1>2. Written(data, sym) \in Arrays
  <2>1. ASSUME NEW k \in 1 .. Cells PROVE Written(data, sym)[k] \in Cell
    <3>1. CASE k <= Kept(sym)
      <4>1. k \in 1 .. Kept(sym)
            BY <3>1, KeptBounds, CellsAssumption
      <4>. QED
           BY <1>1, <3>1, <4>1 DEF Written, Cell
    <3>2. CASE k = Kept(sym) + 1
          BY <3>2, KeptBounds, CellsAssumption DEF Written, Cell
    <3>3. CASE ~(k <= Kept(sym)) /\ k # Kept(sym) + 1
          BY <3>3 DEF Written, Arrays
    <3>. QED
         BY <3>1, <3>2, <3>3
  <2>. QED
       BY <2>1 DEF Written, Arrays
<1>3. Kept(sym) + 1 \in 1 .. Cells /\ \A k \in 1 .. Kept(sym) : k \in 1 .. Cells
      BY KeptBounds, CellsAssumption
<1>4. Written(data, sym)[Kept(sym) + 1] = NUL
      BY <1>3, KeptBounds DEF Written
<1>5. \A k \in 1 .. Kept(sym) : Written(data, sym)[k] = sym[k]
      BY <1>3, KeptBounds DEF Written
<1>6. \A k \in 1 .. Shown(sym) : k \in 1 .. Kept(sym)
      BY ShownBounds, KeptBounds, CellsAssumption
<1>7. Written(data, sym)[Shown(sym) + 1] = NUL
  <2>1. CASE Shown(sym) = Kept(sym)
        BY <1>4, <2>1
  <2>2. CASE Shown(sym) # Kept(sym)
    <3>1. Shown(sym) + 1 \in 1 .. Kept(sym)
          BY <2>2, ShownBounds, KeptBounds, CellsAssumption
    <3>2. sym[Shown(sym) + 1] = NUL
          BY <2>2, ShownEnds DEF EndsAt
    <3>. QED
         BY <1>5, <3>1, <3>2
  <2>. QED
       BY <2>1, <2>2
<1>. QED
     BY <1>2, <1>5, <1>6, <1>7 DEF Holds

-----------------------------------------------------------------------------
(* The invariant is inductive.                                             *)

LEMMA IdInitInv == IdInit => IdInv
<1>. SUFFICES ASSUME IdInit PROVE IdInv
     OBVIOUS
<1>1. <<>> \in Symbols
      BY MaxLengthAssumption DEF Symbols
<1>2. Shown(<<>>) = 0
      BY <1>1, ShownBounds
<1>3. Blank \in Arrays
      BY DEF Blank, Arrays, Cell
<1>4. Holds(Blank, <<>>)
      BY <1>2, <1>3, CellsAssumption DEF Holds, Blank
<1>. QED
     BY <1>1, <1>3, <1>4 DEF IdInit, IdInv

LEMMA IdNextInv == IdInv /\ [IdNext]_idVars => IdInv'
<1>. SUFFICES ASSUME IdInv, [IdNext]_idVars PROVE IdInv'
     OBVIOUS
<1>1. ASSUME NEW i \in Ids, NEW sym \in Symbols, NEW ex \in Exchanges, Construct(i, ex, sym)
      PROVE  IdInv'
  <2>1. Blank \in Arrays
        BY DEF Blank, Arrays, Cell
  <2>2. Holds(Written(Blank, sym), sym)
        BY <2>1, WrittenHolds
  <2>. QED
       BY <1>1, <2>2 DEF Construct, IdInv, Holds
<1>2. ASSUME NEW i \in Ids, NEW sym \in Symbols, set_symbol(i, sym)
      PROVE  IdInv'
  <2>1. id[i] \in [exchange : Exchanges, symbol_data : Arrays]
        BY DEF IdInv
  <2>2. Holds(Written(id[i].symbol_data, sym), sym)
        BY <2>1, WrittenHolds
  <2>. QED
       BY <1>2, <2>1, <2>2 DEF set_symbol, IdInv, Holds
<1>3. CASE UNCHANGED idVars
      BY <1>3 DEF idVars, IdInv
<1>. QED
     BY <1>1, <1>2, <1>3 DEF IdNext

-----------------------------------------------------------------------------
(* The comparisons.                                                        *)

\* The first of the cells in which two arrays differ.
LEMMA FirstDifference ==
    ASSUME NEW f, NEW g, NEW k \in 1 .. Cells, f[k] # g[k]
    PROVE  \E first \in 1 .. Cells :
               f[first] # g[first] /\ \A j \in 1 .. first - 1 : f[j] = g[j]
<1>. DEFINE T == {j \in 1 .. Cells : f[j] # g[j]}
<1>1. T \subseteq Nat /\ T # {}
      BY CellsAssumption
<1>2. PICK first \in T : \A j \in T : ~ (<<j, first>> \in OpToRel(<, Nat))
      BY <1>1, NatLessThanWellFounded, WFMin
<1>3. \A j \in T : ~(j < first)
      BY <1>1, <1>2 DEF OpToRel
<1>. QED
     BY <1>3, CellsAssumption

\* Equal arrays agree up to the null character of the one that is compared.
LEMMA EqualAgree ==
    ASSUME NEW a \in [exchange : Exchanges, symbol_data : Arrays],
           NEW b \in [exchange : Exchanges, symbol_data : Arrays],
           NEW sym \in Symbols, Holds(a.symbol_data, sym), Equal(a, b),
           NEW k \in 1 .. Shown(sym) + 1
    PROVE  a.symbol_data[k] = b.symbol_data[k]
<1>. SUFFICES ASSUME a.symbol_data[k] # b.symbol_data[k] PROVE FALSE
     OBVIOUS
<1>1. k \in 1 .. Cells /\ Shown(sym) \in Nat
      BY ShownBounds, CellsAssumption
<1>2. PICK first \in 1 .. Cells :
          /\ a.symbol_data[first] # b.symbol_data[first]
          /\ \A j \in 1 .. first - 1 : a.symbol_data[j] = b.symbol_data[j]
      BY <1>1, FirstDifference
<1>3. first <= k
      BY <1>1, <1>2, CellsAssumption
<1>4. \A j \in 1 .. first - 1 : j \in 1 .. Shown(sym)
      BY <1>1, <1>3, CellsAssumption
<1>5. Reached(a, b, first)
      BY <1>2, <1>4, FilledIsNotNull DEF Reached
<1>. QED
     BY <1>2, <1>5 DEF Equal

LEMMA AgreeEqual ==
    ASSUME NEW a \in [exchange : Exchanges, symbol_data : Arrays],
           NEW b \in [exchange : Exchanges, symbol_data : Arrays],
           NEW s \in Symbols, NEW t \in Symbols,
           Holds(a.symbol_data, s), Holds(b.symbol_data, t),
           a.exchange = b.exchange
    PROVE  Equal(a, b) <=> Cut(s) = Cut(t)
<1>1. /\ Shown(s) \in 0 .. Cells - 1 /\ Shown(t) \in 0 .. Cells - 1
      /\ Shown(s) <= Len(s) /\ Shown(t) <= Len(t) /\ Cells \in Nat
      BY ShownBounds, CellsAssumption
<1>2. ASSUME NEW sym \in Symbols
      PROVE  /\ Cut(sym) \in Seq(Characters) /\ Len(Cut(sym)) = Shown(sym)
             /\ \A k \in 1 .. Shown(sym) : Cut(sym)[k] = sym[k]
  <2>1. Shown(sym) \in Nat /\ \A k \in 1 .. Shown(sym) : sym[k] \in Characters
        BY ShownBounds, SymbolsAreSequences, CellsAssumption
  <2>. QED
       BY <2>1, SubSeqProperties DEF Cut
<1>3. ASSUME Equal(a, b) PROVE Cut(s) = Cut(t)
  <2>1. \A k \in 1 .. Shown(s) + 1 : a.symbol_data[k] = b.symbol_data[k]
        BY <1>3, EqualAgree
  <2>2. b.symbol_data[Shown(s) + 1] = NUL
        BY <1>1, <2>1 DEF Holds
  <2>3. Shown(t) <= Shown(s)
        BY <1>1, <2>2, FilledIsNotNull
  <2>4. ~(Shown(t) < Shown(s))
    <3>1. SUFFICES ASSUME Shown(t) < Shown(s) PROVE FALSE
          OBVIOUS
    <3>2. Shown(t) + 1 \in 1 .. Shown(s)
          BY <1>1, <3>1
    <3>3. a.symbol_data[Shown(t) + 1] = NUL
          BY <1>1, <2>1, <3>2 DEF Holds
    <3>. QED
         BY <3>2, <3>3, FilledIsNotNull
  <2>5. Shown(s) = Shown(t)
        BY <1>1, <2>3, <2>4
  <2>6. \A k \in 1 .. Shown(s) : s[k] = t[k]
        BY <1>1, <2>1, <2>5 DEF Holds
  <2>. QED
       BY <1>2, <2>5, <2>6, SeqEqual
<1>4. ASSUME Cut(s) = Cut(t) PROVE Equal(a, b)
  <2>1. Shown(s) = Shown(t) /\ \A k \in 1 .. Shown(s) : s[k] = t[k]
        BY <1>2, <1>4
  <2>2. \A k \in 1 .. Shown(s) + 1 : a.symbol_data[k] = b.symbol_data[k]
        BY <1>1, <2>1 DEF Holds
  <2>3. ASSUME NEW k \in 1 .. Cells, Reached(a, b, k)
        PROVE  k \in 1 .. Shown(s) + 1
    <3>1. SUFFICES ASSUME k > Shown(s) + 1 PROVE FALSE
          BY <1>1
    <3>2. Shown(s) + 1 \in 1 .. k - 1
          BY <1>1, <3>1
    <3>. QED
         BY <2>3, <3>2 DEF Reached, Holds
  <2>. QED
       BY <2>2, <2>3 DEF Equal
<1>. QED
     BY <1>3, <1>4

\* symbol() is the symbol last given, as far as it shows.
LEMMA SymbolIsCut ==
    ASSUME NEW a \in [exchange : Exchanges, symbol_data : Arrays],
           NEW sym \in Symbols, Holds(a.symbol_data, sym)
    PROVE  symbol(a) = Cut(sym)
<1>. DEFINE Ends(n) == /\ n = Cells \/ a.symbol_data[n + 1] = NUL
                       /\ \A k \in 1 .. n : a.symbol_data[k] # NUL
<1>1. Shown(sym) \in 0 .. Cells /\ Cells \in Nat /\ Shown(sym) <= Len(sym) /\ Shown(sym) < Cells
      BY ShownBounds, CellsAssumption
<1>2. a.symbol_data[Shown(sym) + 1] = NUL /\ \A k \in 1 .. Shown(sym) : a.symbol_data[k] # NUL
      BY FilledIsNotNull DEF Holds
<1>3. ASSUME NEW n \in 0 .. Cells, Ends(n) PROVE n = Shown(sym)
  <2>1. ~(n < Shown(sym))
    <3>1. SUFFICES ASSUME n < Shown(sym) PROVE FALSE
          OBVIOUS
    <3>2. n + 1 \in 1 .. Shown(sym) /\ n # Cells
          BY <1>1, <3>1
    <3>. QED
         BY <1>2, <1>3, <3>2
  <2>2. ~(n > Shown(sym))
    <3>1. SUFFICES ASSUME n > Shown(sym) PROVE FALSE
          OBVIOUS
    <3>2. Shown(sym) + 1 \in 1 .. n
          BY <1>1, <3>1
    <3>. QED
         BY <1>2, <1>3, <3>2
  <2>. QED
       BY <1>1, <2>1, <2>2
<1>4. Length(a) = Shown(sym)
  <2>1. Ends(Shown(sym))
        BY <1>2
  <2>. QED
       BY <1>1, <1>3, <2>1 DEF Length
<1>5. \A k \in 1 .. Shown(sym) : a.symbol_data[k] = sym[k] /\ sym[k] \in Characters
      BY <1>1, SymbolsAreSequences DEF Holds
<1>. DEFINE held == SubSeq(a.symbol_data, 1, Shown(sym))
<1>6. /\ held \in Seq(Characters) /\ Len(held) = Shown(sym)
      /\ \A k \in 1 .. Shown(sym) : held[k] = sym[k]
      BY <1>1, <1>5, SubSeqProperties
<1>7. /\ Cut(sym) \in Seq(Characters) /\ Len(Cut(sym)) = Shown(sym)
      /\ \A k \in 1 .. Shown(sym) : Cut(sym)[k] = sym[k]
      BY <1>1, <1>5, SubSeqProperties DEF Cut
<1>. QED
     BY <1>4, <1>6, <1>7, SeqEqual DEF symbol

\* Of two identifiers one is less, unless they are equal.
LEMMA LessIsTotal ==
    ASSUME NEW a \in [exchange : Exchanges, symbol_data : Arrays],
           NEW b \in [exchange : Exchanges, symbol_data : Arrays]
    PROVE  Less(a, b) <=> ~Less(b, a) /\ ~Equal(a, b)
<1>1. a.exchange \in Int /\ b.exchange \in Int
      BY NumbersAssumption
<1>2. CASE a.exchange # b.exchange
      BY <1>1, <1>2 DEF Less, Equal
<1>3. CASE a.exchange = b.exchange
  <2>1. \A k \in 1 .. Cells : a.symbol_data[k] \in Int /\ b.symbol_data[k] \in Int
    <3>1. Cell \subseteq Int
          BY NumbersAssumption DEF Cell, NUL
    <3>2. a.symbol_data \in Arrays /\ b.symbol_data \in Arrays
          OBVIOUS
    <3>. QED
         BY <3>1, <3>2 DEF Arrays
  <2>2. \A k \in 1 .. Cells : Reached(a, b, k) <=> Reached(b, a, k)
        BY DEF Reached
  <2>3. ASSUME NEW j \in 1 .. Cells, NEW k \in 1 .. Cells, Reached(a, b, j), Reached(a, b, k),
               a.symbol_data[j] # b.symbol_data[j], a.symbol_data[k] # b.symbol_data[k]
        PROVE  j = k
        BY <2>3, CellsAssumption DEF Reached
  <2>. QED
       BY <1>1, <1>3, <2>1, <2>2, <2>3 DEF Less, Equal
<1>. QED
     BY <1>2, <1>3

-----------------------------------------------------------------------------
LEMMA InvKeepsKeys == IdInv => SameKey
<1>. SUFFICES ASSUME IdInv PROVE SameKey
     OBVIOUS
<1>1. \A i \in Ids : /\ id[i] \in [exchange : Exchanges, symbol_data : Arrays]
                     /\ given[i] \in Symbols /\ Holds(id[i].symbol_data, given[i])
      BY DEF IdInv
<1>2. EqualAsGiven
      BY <1>1, AgreeEqual DEF EqualAsGiven, Equal
<1>3. \A i \in Ids : symbol(id[i]) = Cut(given[i])
      BY <1>1, SymbolIsCut
<1>4. \A i, j \in Ids : Equal(id[i], id[j]) <=> Hashed(id[i]) = Hashed(id[j])
      BY <1>2, <1>3 DEF EqualAsGiven, Hashed
<1>. QED
     BY <1>1, <1>2, <1>4, LessIsTotal DEF SameKey

\* Whatever symbols the identifiers are given, null characters in them included, in
\* whatever order, a key is what shows of the last one, in comparisons, in ordered maps
\* and in hash maps
\* (InstrumentId::operator==, operator<=>, InstrumentIdHash).
THEOREM KeysAgree == IdSpec => []SameKey
<1>1. IdInit => IdInv
      BY IdInitInv
<1>2. IdInv /\ [IdNext]_idVars => IdInv'
      BY IdNextInv
<1>3. IdInv => SameKey
      BY InvKeepsKeys
<1>. QED
     BY <1>1, <1>2, <1>3, PTL DEF IdSpec

-----------------------------------------------------------------------------
(* PoolPtr.                                                                *)

PtrSpec == PtrInit /\ [][PtrNext]_ptrVars

\* The handles whose object is theirs alone.
Rightful == alive \ ({resetting} \cup dangling)
OwnerSets == {<<1, free>>, <<2, others>>, <<3, released>>}

\* Every object is in one of the sets or one rightful handle's.
OnePlace(o) ==
    \/ /\ o \in free /\ o \notin others \cup released
       /\ \A h \in Rightful : ptr_[h] # o
    \/ /\ o \in others /\ o \notin free \cup released
       /\ \A h \in Rightful : ptr_[h] # o
    \/ /\ o \in released /\ o \notin free \cup others
       /\ \A h \in Rightful : ptr_[h] # o
    \/ /\ o \notin free \cup others \cup released
       /\ \E h \in Rightful : ptr_[h] = o /\ \A g \in Rightful : ptr_[g] = o => g = h

PtrTypeOK ==
    /\ free \subseteq Objects /\ others \subseteq Objects /\ released \subseteq Objects
    /\ alive \subseteq Handles
    /\ ptr_ \in [Handles -> Objects \cup {Null}]
    /\ pool_ \in [Handles -> BOOLEAN]

\* Who has an object knows the pool; one failed reset(args) at most, and then nothing
\* goes on.
PtrInv ==
    /\ PtrTypeOK
    /\ \A h \in alive : ptr_[h] # Null => pool_[h]
    /\ resetting = Null \/ (resetting \in alive /\ pool_[resetting])
    /\ dangling = {} \/ (resetting = Null /\ \E h \in alive : dangling = {h} /\ ptr_[h] # Null)
    /\ \A o \in Objects : OnePlace(o)

LEMMA PtrInitInv == PtrInit => PtrInv
BY NullAssumption DEF PtrInit, PtrInv, PtrTypeOK, OnePlace, Rightful

LEMMA PtrNextInv == PtrInv /\ [PtrNext]_ptrVars => PtrInv'
<1>. SUFFICES ASSUME PtrInv, [PtrNext]_ptrVars PROVE PtrInv'
     OBVIOUS
<1>0. /\ PtrTypeOK /\ \A h \in alive : ptr_[h] # Null => pool_[h]
      /\ resetting = Null \/ (resetting \in alive /\ pool_[resetting])
      /\ \A o \in Objects : OnePlace(o)
      BY DEF PtrInv
<1>1. CASE UNCHANGED ptrVars
      BY <1>0, <1>1 DEF PtrInv, ptrVars, PtrTypeOK, OnePlace, Rightful
<1>2. CASE PtrNext
  <2>1. dangling = {}
        BY <1>2 DEF PtrNext
  <2>. USE NullAssumption DEF PtrTypeOK, OnePlace, Rightful, Owned
  <2>2. ASSUME NEW h \in Handles, resetting = Null, Make(h) PROVE PtrInv'
        BY <1>0, <2>1, <2>2 DEF Make, PtrInv
  <2>3. ASSUME NEW h \in Handles, resetting = Null, Destruct(h) PROVE PtrInv'
        BY <1>0, <2>1, <2>3 DEF Destruct, PtrInv
  <2>4. ASSUME NEW h \in Handles, resetting = Null, Release(h) PROVE PtrInv'
        BY <1>0, <2>1, <2>4 DEF Release, PtrInv
  <2>5. ASSUME NEW h \in Handles, resetting = Null, Reset(h) PROVE PtrInv'
        BY <1>0, <2>1, <2>5 DEF Reset, PtrInv
  <2>6. ASSUME NEW h \in Handles, resetting = Null, ResetBegin(h) PROVE PtrInv'
        BY <1>0, <2>1, <2>6 DEF ResetBegin, PtrInv
  <2>7. ASSUME NEW h \in Handles, NEW other \in Handles, resetting = Null, MoveConstruct(h, other)
        PROVE  PtrInv'
        BY <1>0, <2>1, <2>7 DEF MoveConstruct, Transfer, PtrInv
  <2>8. ASSUME NEW h \in Handles, NEW other \in Handles, resetting = Null, MoveAssign(h, other)
        PROVE  PtrInv'
        BY <1>0, <2>1, <2>8 DEF MoveAssign, Transfer, PtrInv
  <2>9. ASSUME NEW o \in Objects, resetting = Null, GiveBackReleased(o) PROVE PtrInv'
        BY <1>0, <2>1, <2>9 DEF GiveBackReleased, PtrInv
  <2>10. CASE ResetEnd
    <3>1. PICK o \in free : free' = free \ {o} /\ ptr_' = [ptr_ EXCEPT ![resetting] = o]
          BY <2>10 DEF ResetEnd
    <3>2. /\ resetting # Null /\ resetting \in alive /\ resetting' = Null
          /\ others' = others /\ released' = released /\ alive' = alive /\ pool_' = pool_
          /\ dangling' = dangling
          BY <1>0, <2>10 DEF ResetEnd
    <3>3. pool_[resetting]
          BY <1>0, <3>2
    <3>. QED
         BY <1>0, <2>1, <3>1, <3>2, <3>3 DEF PtrInv
  <2>11. CASE ResetThrows
        BY <1>0, <2>1, <2>11 DEF ResetThrows, PtrInv
  <2>12. ASSUME NEW o \in Objects, OthersTake(o) PROVE PtrInv'
        BY <1>0, <2>1, <2>12 DEF OthersTake, PtrInv
  <2>13. ASSUME NEW o \in Objects, OthersGiveBack(o) PROVE PtrInv'
        BY <1>0, <2>1, <2>13 DEF OthersGiveBack, PtrInv
  <2>. QED
       BY <1>2, <2>2, <2>3, <2>4, <2>5, <2>6, <2>7, <2>8, <2>9, <2>10, <2>11, <2>12, <2>13
       DEF PtrNext, Thread
<1>. QED
     BY <1>1, <1>2

\* A set with one element or none.
LEMMA OneOrNone ==
    ASSUME NEW S, NEW e
    PROVE  /\ S = {} => Cardinality(S) = 0
           /\ S = {e} => Cardinality(S) = 1
BY FS_EmptySet, FS_Singleton

LEMMA InvOwnsOnce == PtrInv => OwnedOnce
<1>. SUFFICES ASSUME PtrInv, NEW o \in Objects
              PROVE  Owners(o) = 1 + Cardinality({h \in dangling : ptr_[h] = o})
     BY DEF OwnedOnce
<1>. DEFINE have == {h \in alive \ {resetting} : ptr_[h] = o}
            right == {h \in Rightful : ptr_[h] = o}
            wrong == {h \in dangling : ptr_[h] = o}
            in == {S \in OwnerSets : o \in S[2]}
<1>1. /\ \/ right = {} /\ \E S \in OwnerSets : in = {S}
         \/ in = {} /\ \E h \in Rightful : right = {h}
  <2>1. OnePlace(o)
        BY DEF PtrInv
  <2>2. CASE o \in free \cup others \cup released
    <3>1. right = {}
          BY <2>1, <2>2 DEF OnePlace
    <3>2. CASE o \in free
      <4>1. in = {<<1, free>>}
            BY <2>1, <3>2 DEF OnePlace, OwnerSets
      <4>. QED
           BY <3>1, <4>1 DEF OwnerSets
    <3>3. CASE o \in others
      <4>1. in = {<<2, others>>}
            BY <2>1, <3>3 DEF OnePlace, OwnerSets
      <4>. QED
           BY <3>1, <4>1 DEF OwnerSets
    <3>4. CASE o \in released
      <4>1. in = {<<3, released>>}
            BY <2>1, <3>4 DEF OnePlace, OwnerSets
      <4>. QED
           BY <3>1, <4>1 DEF OwnerSets
    <3>. QED
         BY <2>2, <3>2, <3>3, <3>4
  <2>3. CASE o \notin free \cup others \cup released
    <3>1. in = {}
          BY <2>3 DEF OwnerSets
    <3>2. \E h \in Rightful : right = {h}
          BY <2>1, <2>3 DEF OnePlace
    <3>. QED
         BY <3>1, <3>2
  <2>. QED
       BY <2>2, <2>3
<1>2. have = right \cup wrong /\ right \cap wrong = {}
  <2>1. dangling \cap {resetting} = {} /\ dangling \subseteq alive
        BY NullAssumption DEF PtrInv, PtrTypeOK
  <2>. QED
       BY <2>1 DEF Rightful
<1>3. IsFiniteSet(wrong) /\ Cardinality(wrong) \in Nat
  <2>1. IsFiniteSet(dangling)
        BY FS_EmptySet, FS_Singleton DEF PtrInv
  <2>2. wrong \subseteq dangling
        OBVIOUS
  <2>. HIDE DEF wrong
  <2>. QED
       BY <2>1, <2>2, FS_Subset, FS_CardinalityType
<1>4. Owners(o) = Cardinality(have) + Cardinality(in)
      BY DEF Owners, OwnerSets
<1>. HIDE DEF have, right, wrong, in
<1>5. IsFiniteSet(right) /\ Cardinality(right) \in Nat /\ Cardinality(right) + Cardinality(in) = 1
  <2>1. CASE right = {} /\ \E S \in OwnerSets : in = {S}
    <3>1. Cardinality(right) = 0 /\ IsFiniteSet(right) /\ Cardinality(in) = 1
          BY <2>1, FS_EmptySet, FS_Singleton
    <3>. QED
         BY <3>1
  <2>2. CASE in = {} /\ \E h \in Rightful : right = {h}
    <3>1. Cardinality(in) = 0 /\ IsFiniteSet(right) /\ Cardinality(right) = 1
          BY <2>2, FS_EmptySet, FS_Singleton
    <3>. QED
         BY <3>1
  <2>. QED
       BY <1>1, <2>1, <2>2
<1>6. Cardinality(have) = Cardinality(right) + Cardinality(wrong)
  <2>1. Cardinality(right \cup wrong)
          = Cardinality(right) + Cardinality(wrong) - Cardinality(right \cap wrong)
        BY <1>3, <1>5, FS_Union
  <2>2. Cardinality(right \cap wrong) = 0
        BY <1>2, FS_EmptySet
  <2>. QED
       BY <1>2, <1>3, <1>5, <2>1, <2>2
<1>7. Cardinality(in) \in Nat
  <2>1. in = {} \/ \E S \in OwnerSets : in = {S}
        BY <1>1
  <2>2. \A S \in OwnerSets : Cardinality({S}) = 1
        BY FS_Singleton
  <2>. QED
       BY <2>1, <2>2, FS_EmptySet
<1>8. Cardinality(have) + Cardinality(in) = 1 + Cardinality(wrong)
      BY <1>3, <1>5, <1>6, <1>7
<1>. QED
     BY <1>4, <1>8 DEF wrong

\* Through all moves, releases and resets of any number of PoolPtrs, with other threads
\* on the same pool, every object has one owner; a second one is left only by a
\* reset(args) that failed.
THEOREM OwnersAreUnique == PtrSpec => []OwnedOnce
<1>1. PtrInit => PtrInv
      BY PtrInitInv
<1>2. PtrInv /\ [PtrNext]_ptrVars => PtrInv'
      BY PtrNextInv
<1>3. PtrInv => OwnedOnce
      BY InvOwnsOnce
<1>. QED
     BY <1>1, <1>2, <1>3, PTL DEF PtrSpec

-----------------------------------------------------------------------------
(* Configuration.                                                          *)

ConfigSpec == ConfigInit /\ [][ConfigNext]_configVars

Layer == [path : Paths \cup {NoPath}, doc : Documents]

\* The largest of some positions, 0 of none.
LastOf(S) == IF S = {} THEN 0 ELSE CHOOSE i \in S : \A j \in S : j <= i

\* The positions of the documents that give a setting, that name an exchange, and that
\* were read from a file.
GiveSetting(ls, s, key) == {i \in DOMAIN ls : s \in DOMAIN ls[i].doc /\ key \in DOMAIN ls[i].doc[s]}
NameExchange(ls, name) == {i \in DOMAIN ls : name \in DOMAIN ExchangesOf(ls[i].doc)}
FromFiles(ls) == {i \in DOMAIN ls : ls[i].path # NoPath}

SettingSaid(ls, s, key) ==
    IF LastOf(GiveSetting(ls, s, key)) = 0 THEN Defaults[s][key]
    ELSE Cast(key, ls[LastOf(GiveSetting(ls, s, key))].doc[s][key])
SectionsSaid(ls) ==
    [s \in DOMAIN Defaults |-> [key \in DOMAIN Defaults[s] |-> SettingSaid(ls, s, key)]]
NamesSaid(ls) == UNION {DOMAIN ExchangesOf(ls[i].doc) : i \in DOMAIN ls}
ExchangeSaid(ls, name) ==
    Merged(ExchangeDefaults, ls[LastOf(NameExchange(ls, name))].doc.exchanges[name])
ExchangesSaid(ls) == [name \in NamesSaid(ls) |-> ExchangeSaid(ls, name)]
PathSaid(ls) == IF LastOf(FromFiles(ls)) = 0 THEN NoPath ELSE ls[LastOf(FromFiles(ls))].path

LEMMA LastWordSaid ==
    /\ LastWord.sections = SectionsSaid(layers)
    /\ LastWord.exchanges = ExchangesSaid(layers)
    /\ LastWordCounts <=> /\ config = SectionsSaid(layers)
                          /\ exchanges_ = ExchangesSaid(layers)
                          /\ filepath_ = PathSaid(layers)
                          /\ loaded_ <=> layers # <<>>
<1>1. LastWord.sections = SectionsSaid(layers)
      BY DEF LastWord, LastLayer, SectionsSaid, SettingSaid, LastOf, GiveSetting
<1>2. LastWord.exchanges = ExchangesSaid(layers)
      BY DEF LastWord, LastLayer, ExchangesSaid, ExchangeSaid, NamesSaid, LastOf, NameExchange
<1>. QED
     BY <1>1, <1>2 DEF LastWordCounts, LastLayer, PathSaid, LastOf, FromFiles

\* A set of positions has a last one.
LEMMA LastPosition ==
    ASSUME NEW n \in Nat, NEW S \in SUBSET (1 .. n), S # {}
    PROVE  \E i \in S : \A j \in S : j <= i
<1>. DEFINE behind == {j \in 0 .. n : n - j \in S}
<1>1. behind \subseteq Nat /\ behind # {}
  <2>1. PICK k \in S : TRUE
        OBVIOUS
  <2>2. n - k \in behind
        BY <2>1
  <2>3. behind \subseteq Nat
        OBVIOUS
  <2>. HIDE DEF behind
  <2>. QED
       BY <2>2, <2>3
<1>2. PICK d \in behind : \A e \in behind : ~ (e < d)
  <2>. HIDE DEF behind
  <2>1. IsWellFoundedOn(OpToRel(<, Nat), Nat)
        BY NatLessThanWellFounded
  <2>2. \E d \in behind : \A e \in behind : ~ (<<e, d>> \in OpToRel(<, Nat))
        BY <1>1, <2>1, WFMin
  <2>. QED
       BY <1>1, <2>2 DEF OpToRel
<1>4. n - d \in S
      BY DEF behind
<1>5. ASSUME NEW j \in S PROVE j <= n - d
  <2>1. n - j \in behind
        OBVIOUS
  <2>2. ~ (n - j < d)
        BY <1>2, <2>1
  <2>3. d \in Int /\ j \in Int
        BY <1>1
  <2>. HIDE DEF behind
  <2>. QED
       BY <2>2, <2>3
<1>. QED
     BY <1>4, <1>5

LEMMA LastOfPositions ==
    ASSUME NEW n \in Nat, NEW S \in SUBSET (1 .. n)
    PROVE  /\ S = {} => LastOf(S) = 0
           /\ S # {} => LastOf(S) \in S /\ LastOf(S) # 0
<1>1. CASE S = {}
      BY <1>1 DEF LastOf
<1>2. CASE S # {}
  <2>1. \E i \in S : \A j \in S : j <= i
        BY <1>2, LastPosition
  <2>2. LastOf(S) = CHOOSE i \in S : \A j \in S : j <= i
        BY <1>2 DEF LastOf
  <2>3. LastOf(S) \in S
        BY <2>1, <2>2
  <2>4. \A i \in S : i # 0
        OBVIOUS
  <2>. HIDE DEF LastOf
  <2>. QED
       BY <1>2, <2>3, <2>4
<1>. QED
     BY <1>1, <1>2

LEMMA LastOfMore ==
    ASSUME NEW n \in Nat, NEW S \in SUBSET (1 .. n)
    PROVE  LastOf(S \cup {n + 1}) = n + 1
<1>1. \A i \in S \cup {n + 1} : (\A j \in S \cup {n + 1} : j <= i) => i = n + 1
      OBVIOUS
<1>2. \A j \in S \cup {n + 1} : j <= n + 1
      OBVIOUS
<1>. QED
     BY <1>1, <1>2 DEF LastOf

LEMMA Appended ==
    ASSUME NEW ls \in Seq(Layer), NEW l \in Layer
    PROVE  /\ Len(ls) \in Nat /\ DOMAIN ls = 1 .. Len(ls)
           /\ DOMAIN Append(ls, l) = 1 .. Len(ls) + 1
           /\ \A i \in DOMAIN ls : Append(ls, l)[i] = ls[i]
           /\ Append(ls, l)[Len(ls) + 1] = l
           /\ Append(ls, l) \in Seq(Layer) /\ Append(ls, l) # <<>>
BY AppendProperties, LenProperties

\* A new document has the last word on the settings it gives.
LEMMA SectionsAppended ==
    ASSUME NEW ls \in Seq(Layer), NEW l \in Layer, NEW s \in DOMAIN Defaults,
           NEW key \in DOMAIN Defaults[s]
    PROVE  SettingSaid(Append(ls, l), s, key)
             = IF s \in DOMAIN l.doc /\ key \in DOMAIN l.doc[s] THEN Cast(key, l.doc[s][key])
               ELSE SettingSaid(ls, s, key)
<1>. DEFINE ms == Append(ls, l)
            n == Len(ls)
            S == GiveSetting(ls, s, key)
<1>1. n \in Nat /\ S \in SUBSET (1 .. n) /\ ms[n + 1] = l
      BY Appended DEF GiveSetting
<1>2. CASE s \in DOMAIN l.doc /\ key \in DOMAIN l.doc[s]
  <2>1. GiveSetting(ms, s, key) = S \cup {n + 1}
        BY <1>2, Appended DEF GiveSetting
  <2>2. LastOf(GiveSetting(ms, s, key)) = n + 1
        BY <1>1, <2>1, LastOfMore
  <2>. HIDE DEF ms, n, S
  <2>3. SettingSaid(ms, s, key) = Cast(key, ms[n + 1].doc[s][key])
        BY <1>1, <2>2 DEF SettingSaid
  <2>. QED
       BY <1>1, <1>2, <2>3 DEF ms
<1>3. CASE ~(s \in DOMAIN l.doc /\ key \in DOMAIN l.doc[s])
  <2>1. GiveSetting(ms, s, key) = S
        BY <1>3, Appended DEF GiveSetting
  <2>2. LastOf(S) = 0 \/ (LastOf(S) \in S /\ LastOf(S) # 0)
        BY <1>1, LastOfPositions
  <2>3. LastOf(S) \in S => ms[LastOf(S)] = ls[LastOf(S)]
        BY <1>1, Appended
  <2>. HIDE DEF ms, n
  <2>. QED
       BY <1>3, <2>1, <2>2, <2>3 DEF SettingSaid, ms
<1>. QED
     BY <1>2, <1>3

\* A new document has the last word on the exchanges it names.
LEMMA ExchangesAppended ==
    ASSUME NEW ls \in Seq(Layer), NEW l \in Layer
    PROVE  /\ NamesSaid(Append(ls, l)) = NamesSaid(ls) \cup DOMAIN ExchangesOf(l.doc)
           /\ \A name \in NamesSaid(Append(ls, l)) :
                 ExchangeSaid(Append(ls, l), name)
                   = IF name \in DOMAIN ExchangesOf(l.doc)
                     THEN parse_exchange(name, ExchangesOf(l.doc)[name])
                     ELSE ExchangeSaid(ls, name)
<1>. DEFINE ms == Append(ls, l)
            n == Len(ls)
<1>1. /\ n \in Nat /\ DOMAIN ls = 1 .. n /\ DOMAIN ms = 1 .. n + 1 /\ ms[n + 1] = l
      /\ \A i \in 1 .. n : ms[i] = ls[i]
      BY Appended
<1>. HIDE DEF ms, n
<1>2. NamesSaid(ms) = NamesSaid(ls) \cup DOMAIN ExchangesOf(l.doc)
  <2>1. 1 .. n + 1 = (1 .. n) \cup {n + 1}
        BY <1>1
  <2>. QED
       BY <1>1, <2>1 DEF NamesSaid
<1>3. ASSUME NEW name \in NamesSaid(ms)
      PROVE  ExchangeSaid(ms, name) = IF name \in DOMAIN ExchangesOf(l.doc)
                                      THEN parse_exchange(name, ExchangesOf(l.doc)[name])
                                      ELSE ExchangeSaid(ls, name)
  <2>. DEFINE S == NameExchange(ls, name)
  <2>1. S \in SUBSET (1 .. n)
        BY <1>1 DEF NameExchange
  <2>2. CASE name \in DOMAIN ExchangesOf(l.doc)
    <3>1. NameExchange(ms, name) = S \cup {n + 1}
          BY <1>1, <2>2 DEF NameExchange
    <3>2. LastOf(NameExchange(ms, name)) = n + 1
          BY <1>1, <2>1, <3>1, LastOfMore
    <3>3. ExchangesOf(l.doc) = l.doc.exchanges
      <4>1. DOMAIN (<<>>) = {}
            OBVIOUS
      <4>. QED
           BY <2>2, <4>1 DEF ExchangesOf
    <3>. HIDE DEF S
    <3>. QED
         BY <1>1, <2>2, <3>2, <3>3 DEF ExchangeSaid, parse_exchange
  <2>3. CASE name \notin DOMAIN ExchangesOf(l.doc)
    <3>1. NameExchange(ms, name) = S
          BY <1>1, <2>3 DEF NameExchange
    <3>2. S # {}
          BY <1>2, <2>3 DEF NamesSaid, NameExchange
    <3>3. LastOf(S) \in S
          BY <1>1, <2>1, <3>2, LastOfPositions
    <3>4. ms[LastOf(S)] = ls[LastOf(S)]
          BY <1>1, <2>1, <3>3
    <3>5. ExchangeSaid(ms, name) = ExchangeSaid(ls, name)
          BY <3>1, <3>4 DEF ExchangeSaid
    <3>. QED
         BY <2>3, <3>5
  <2>. QED
       BY <2>2, <2>3
<1>. QED
     BY <1>2, <1>3 DEF ms

LEMMA PathAppended ==
    ASSUME NEW ls \in Seq(Layer), NEW l \in Layer
    PROVE  PathSaid(Append(ls, l)) = IF l.path # NoPath THEN l.path ELSE PathSaid(ls)
<1>. DEFINE ms == Append(ls, l)
            n == Len(ls)
            S == FromFiles(ls)
<1>1. n \in Nat /\ S \in SUBSET (1 .. n) /\ ms[n + 1] = l
      BY Appended DEF FromFiles
<1>2. CASE l.path # NoPath
  <2>1. FromFiles(ms) = S \cup {n + 1}
        BY <1>2, Appended DEF FromFiles
  <2>2. LastOf(FromFiles(ms)) = n + 1
        BY <1>1, <2>1, LastOfMore
  <2>. HIDE DEF ms, n, S
  <2>3. PathSaid(ms) = ms[n + 1].path
        BY <1>1, <2>2 DEF PathSaid
  <2>. QED
       BY <1>1, <1>2, <2>3 DEF ms
<1>3. CASE l.path = NoPath
  <2>1. FromFiles(ms) = S
        BY <1>3, Appended DEF FromFiles
  <2>2. LastOf(S) = 0 \/ (LastOf(S) \in S /\ LastOf(S) # 0)
        BY <1>1, LastOfPositions
  <2>3. LastOf(S) \in S => ms[LastOf(S)] = ls[LastOf(S)]
        BY <1>1, Appended
  <2>. HIDE DEF ms, n
  <2>. QED
       BY <1>3, <2>1, <2>2, <2>3 DEF PathSaid, ms
<1>. QED
     BY <1>2, <1>3

-----------------------------------------------------------------------------
ConfigInv ==
    /\ layers \in Seq(Layer)
    /\ config = SectionsSaid(layers) /\ exchanges_ = ExchangesSaid(layers)
    /\ filepath_ = PathSaid(layers) /\ (loaded_ <=> layers # <<>>)
    /\ accepted <=> validate(config, exchanges_)

\* With no document there are the defaults, which are valid.
LEMMA NothingSaid ==
    /\ SectionsSaid(<<>>) = Defaults
    /\ ExchangesSaid(<<>>) = [name \in {} |-> ExchangeDefaults]
    /\ PathSaid(<<>>) = NoPath
    /\ validate(Defaults, [name \in {} |-> ExchangeDefaults])
<1>1. /\ \A s, key : GiveSetting(<<>>, s, key) = {}
      /\ FromFiles(<<>>) = {} /\ NamesSaid(<<>>) = {}
      BY DEF GiveSetting, FromFiles, NamesSaid
<1>2. LastOf({}) = 0
      BY DEF LastOf
<1>3. SectionsSaid(<<>>) = Defaults
  <2>1. \A s, key : SettingSaid(<<>>, s, key) = Defaults[s][key]
        BY <1>1, <1>2 DEF SettingSaid
  <2>2. SectionsSaid(<<>>) = [s \in DOMAIN Defaults |-> [key \in DOMAIN Defaults[s] |-> Defaults[s][key]]]
        BY <2>1 DEF SectionsSaid
  <2>3. \A s \in DOMAIN Defaults : [key \in DOMAIN Defaults[s] |-> Defaults[s][key]] = Defaults[s]
        BY DEF Defaults
  <2>4. [s \in DOMAIN Defaults |-> Defaults[s]] = Defaults
        BY DEF Defaults
  <2>. QED
       BY <2>2, <2>3, <2>4
<1>4. ExchangesSaid(<<>>) = [name \in {} |-> ExchangeDefaults]
      BY <1>1 DEF ExchangesSaid
<1>5. PathSaid(<<>>) = NoPath
      BY <1>1, <1>2 DEF PathSaid
<1>6. validate(Defaults, [name \in {} |-> ExchangeDefaults])
  <2>1. ValidSystem(Defaults.system)
    <3>1. /\ Defaults.system.log_level = "info"
          /\ Defaults.system.log_file = "/workspace/output/crypto_lob.log"
          BY DEF Defaults
    <3>. QED
         BY <3>1 DEF ValidSystem
  <2>3. ValidThreading(Defaults.threading)
        BY DEF ValidThreading, ValidCore, Defaults
  <2>2. ValidMemory(Defaults.memory)
        BY DEF ValidMemory, Sizes, Defaults
  <2>. QED
       BY <2>1, <2>2, <2>3 DEF validate
<1>. QED
     BY <1>3, <1>4, <1>5, <1>6

LEMMA ConfigInitInv == ConfigInit => ConfigInv
<1>. SUFFICES ASSUME ConfigInit PROVE ConfigInv
     OBVIOUS
<1>1. <<>> \in Seq(Layer)
      OBVIOUS
<1>. QED
     BY <1>1, NothingSaid DEF ConfigInit, ConfigInv

\* One more document.
LEMMA LoadStep ==
    ASSUME ConfigInv, NEW l \in Layer, Load(l.doc), layers' = Append(layers, l),
           filepath_' = IF l.path # NoPath THEN l.path ELSE filepath_
    PROVE  ConfigInv'
<1>1. /\ layers \in Seq(Layer) /\ config = SectionsSaid(layers) /\ exchanges_ = ExchangesSaid(layers)
      /\ filepath_ = PathSaid(layers)
      BY DEF ConfigInv
<1>2. layers' \in Seq(Layer) /\ layers' # <<>>
      BY <1>1, Appended
<1>3. config' = SectionsSaid(layers')
  <2>1. config' = [s \in DOMAIN Defaults |-> IF s \in DOMAIN l.doc THEN Merged(config[s], l.doc[s])
                                             ELSE config[s]]
        BY <1>1 DEF Load, parse_sections, SectionsSaid
  <2>2. ASSUME NEW s \in DOMAIN Defaults
        PROVE  (IF s \in DOMAIN l.doc THEN Merged(config[s], l.doc[s]) ELSE config[s])
                 = [key \in DOMAIN Defaults[s] |-> SettingSaid(layers', s, key)]
    <3>1. config[s] = [key \in DOMAIN Defaults[s] |-> SettingSaid(layers, s, key)]
          BY <1>1 DEF SectionsSaid
    <3>2. \A key \in DOMAIN Defaults[s] :
             SettingSaid(layers', s, key)
               = IF s \in DOMAIN l.doc /\ key \in DOMAIN l.doc[s] THEN Cast(key, l.doc[s][key])
                 ELSE SettingSaid(layers, s, key)
          BY <1>1, SectionsAppended
    <3>3. CASE s \in DOMAIN l.doc
      <4>1. Merged(config[s], l.doc[s])
              = [key \in DOMAIN Defaults[s] |-> IF key \in DOMAIN l.doc[s] THEN Cast(key, l.doc[s][key])
                                                ELSE SettingSaid(layers, s, key)]
            BY <3>1 DEF Merged
      <4>. QED
           BY <3>2, <3>3, <4>1
    <3>4. CASE s \notin DOMAIN l.doc
          BY <3>1, <3>2, <3>4
    <3>. QED
         BY <3>3, <3>4
  <2>. QED
       BY <2>1, <2>2 DEF SectionsSaid
<1>4. exchanges_' = ExchangesSaid(layers')
  <2>1. exchanges_' = [name \in NamesSaid(layers) \cup DOMAIN ExchangesOf(l.doc) |->
                          IF name \in DOMAIN ExchangesOf(l.doc)
                          THEN parse_exchange(name, ExchangesOf(l.doc)[name])
                          ELSE exchanges_[name]]
        BY <1>1 DEF Load, parse_exchanges, ExchangesSaid
  <2>2. NamesSaid(layers') = NamesSaid(layers) \cup DOMAIN ExchangesOf(l.doc)
        BY <1>1, ExchangesAppended
  <2>3. ASSUME NEW name \in NamesSaid(layers')
        PROVE  ExchangeSaid(layers', name) = IF name \in DOMAIN ExchangesOf(l.doc)
                                             THEN parse_exchange(name, ExchangesOf(l.doc)[name])
                                             ELSE exchanges_[name]
    <3>1. ExchangeSaid(layers', name) = IF name \in DOMAIN ExchangesOf(l.doc)
                                        THEN parse_exchange(name, ExchangesOf(l.doc)[name])
                                        ELSE ExchangeSaid(layers, name)
          BY <1>1, <2>3, ExchangesAppended
    <3>2. name \notin DOMAIN ExchangesOf(l.doc) => exchanges_[name] = ExchangeSaid(layers, name)
          BY <1>1, <2>2, <2>3 DEF ExchangesSaid
    <3>. QED
         BY <3>1, <3>2
  <2>. QED
       BY <2>1, <2>2, <2>3 DEF ExchangesSaid
<1>5. filepath_' = PathSaid(layers')
      BY <1>1, PathAppended
<1>6. loaded_' = TRUE /\ accepted' = validate(config', exchanges_')
      BY DEF Load, Accepts
<1>. QED
     BY <1>2, <1>3, <1>4, <1>5, <1>6 DEF ConfigInv

LEMMA ConfigNextInv == ConfigInv /\ [ConfigNext]_configVars => ConfigInv'
<1>. SUFFICES ASSUME ConfigInv, [ConfigNext]_configVars PROVE ConfigInv'
     OBVIOUS
<1>1. ASSUME NEW content, load_from_string(content) PROVE ConfigInv'
  <2>. DEFINE l == [path |-> NoPath, doc |-> content]
  <2>1. l \in Layer /\ l.doc = content /\ l.path = NoPath
        BY <1>1 DEF load_from_string, Layer
  <2>2. Load(l.doc) /\ layers' = Append(layers, l) /\ filepath_' = filepath_
        BY <1>1 DEF load_from_string
  <2>. HIDE DEF l
  <2>. QED
       BY <2>1, <2>2, LoadStep
<1>2. ASSUME NEW content, NEW path \in Paths, load_from_file(path, content) PROVE ConfigInv'
  <2>. DEFINE l == [path |-> path, doc |-> content]
  <2>1. l \in Layer /\ l.doc = content /\ l.path = path /\ path # NoPath
        BY <1>2, PathAssumption DEF load_from_file, Layer
  <2>2. Load(l.doc) /\ layers' = Append(layers, l) /\ filepath_' = path
        BY <1>2 DEF load_from_file
  <2>. HIDE DEF l
  <2>. QED
       BY <2>1, <2>2, LoadStep
<1>3. CASE clear
  <2>1. <<>> \in Seq(Layer)
        OBVIOUS
  <2>. QED
       BY <1>3, <2>1, NothingSaid DEF clear, ConfigInv
<1>4. CASE UNCHANGED configVars
      BY <1>4 DEF configVars, ConfigInv
<1>. QED
     BY <1>1, <1>2, <1>3, <1>4 DEF ConfigNext, Refuse

LEMMA ConfigAlwaysInv == ConfigSpec => []ConfigInv
BY ConfigInitInv, ConfigNextInv, PTL DEF ConfigSpec

\* For any documents, loaded in any order and any number, some of them rejected: the
\* settings are what the documents since the last clear() say, the last one of those
\* that give a setting; an exchange is what the last document that names it says
\* (Configuration::load_from_file(), load_from_string(), clear()).
THEOREM LastWordAlwaysCounts == ConfigSpec => []LastWordCounts
<1>1. ConfigInv => LastWordCounts
      BY LastWordSaid DEF ConfigInv
<1>. QED
     BY <1>1, ConfigAlwaysInv, PTL

\* The last load returned without an exception exactly when all the settings are valid,
\* whichever document they came from (Configuration::validate()).
THEOREM ValidAlwaysUnlessRejected == ConfigSpec => []ValidUnlessRejected
<1>1. ConfigInv => ValidUnlessRejected
      BY LastWordSaid DEF ConfigInv, ValidUnlessRejected
<1>. QED
     BY <1>1, ConfigAlwaysInv, PTL

-----------------------------------------------------------------------------
(* Arithmetic modulo a word.                                               *)

LEMMA ModUnique ==
    ASSUME NEW M \in Nat \ {0}, NEW q \in Int, NEW r \in 0 .. M - 1
    PROVE  (q * M + r) % M = r
OBVIOUS

LEMMA ModOfSum ==
    ASSUME NEW M \in Nat \ {0}, NEW a \in Int, NEW b \in Int
    PROVE  ((a % M) + b) % M = (a + b) % M
<1>. DEFINE y == (a % M) + b
            u == a \div M
            v == y \div M
            r == y % M
<1>1. u \in Int /\ a = u * M + (a % M) /\ a % M \in Int
      OBVIOUS
<1>2. y \in Int
      BY <1>1
<1>. HIDE DEF y
<1>3. v \in Int /\ r \in 0 .. M - 1 /\ y = v * M + r
      BY <1>2
<1>. HIDE DEF u, v, r
<1>4. a + b = (u + v) * M + r
  <2>1. a + b = u * M + (v * M + r)
        BY <1>1, <1>3 DEF y
  <2>2. (u + v) * M = u * M + v * M
        BY <1>1, <1>3
  <2>3. u * M \in Int /\ v * M \in Int /\ r \in Int
        BY <1>1, <1>3
  <2>. HIDE DEF y
  <2>. QED
       BY <2>1, <2>2, <2>3
<1>5. ((u + v) * M + r) % M = r
      BY <1>1, <1>3, ModUnique
<1>. QED
     BY <1>4, <1>5 DEF r, y

LEMMA ModSmall ==
    ASSUME NEW M \in Nat \ {0}, NEW x \in 0 .. M - 1
    PROVE  x % M = x
OBVIOUS

LEMMA DivUnique ==
    ASSUME NEW M \in Nat \ {0}, NEW q \in Int, NEW r \in 0 .. M - 1
    PROVE  (q * M + r) \div M = q
OBVIOUS

LEMMA NaturalQuotient ==
    ASSUME NEW n \in Nat, NEW M \in Nat \ {0}, NEW q \in Int, NEW r \in 0 .. M - 1, n = q * M + r
    PROVE  q \in Nat /\ r \in Nat
<1>1. SUFFICES ASSUME q <= -1 PROVE FALSE
      OBVIOUS
<1>2. q * M <= (-1) * M
      BY <1>1
<1>. QED
     BY <1>2

\* What a division leaves.
Division(n, M, q, r) == q \in Nat /\ r \in Nat /\ r \in 0 .. M - 1 /\ n = q * M + r

LEMMA DivParts ==
    ASSUME NEW n \in Nat, NEW M \in Nat \ {0}
    PROVE  Division(n, M, n \div M, n % M)
<1>. DEFINE q == n \div M
            r == n % M
<1>1. q \in Int /\ r \in 0 .. M - 1 /\ n = q * M + r
      OBVIOUS
<1>. HIDE DEF q, r
<1>2. Division(n, M, q, r)
      BY <1>1, NaturalQuotient DEF Division
<1>. QED
     BY <1>2 DEF q, r

-----------------------------------------------------------------------------
(* What two divisions leave of a frequency and of a span of time.          *)

LEMMA Cancels ==
    ASSUME NEW a \in Int, NEW b \in Int, NEW k \in Nat \ {0}
    PROVE  (a * k < b * k => a < b) /\ (a * k <= b * k => a <= b)
OBVIOUS

LEMMA Keeps ==
    ASSUME NEW a \in Int, NEW b \in Int, NEW k \in Nat, a <= b
    PROVE  a * k <= b * k
OBVIOUS

\* The calibration's count of the counter, c, of nanoseconds, s, a measurement's count, d,
\* the frequency found, f, and what is shown, h, as the two divisions relate them.
Divided(N, c, s, d, f, h) ==
    /\ f * s <= c * N /\ c * N < (f + 1) * s
    /\ h * f <= d * N /\ d * N < (h + 1) * f

LEMMA ShownAbove ==
    ASSUME NEW N \in Nat \ {0}, NEW c \in Nat, NEW s \in Nat \ {0}, NEW d \in Nat,
           NEW f \in Nat \ {0}, NEW h \in Nat, Divided(N, c, s, d, f, h)
    PROVE  d * s < (h + 1) * c
<1>1. (d * N) * s < ((h + 1) * f) * s
  <2>1. d * N \in Int /\ (h + 1) * f \in Int /\ d * N < (h + 1) * f
        BY DEF Divided
  <2>. QED
       BY <2>1
<1>2. (h + 1) * (f * s) <= (h + 1) * (c * N)
  <2>1. f * s \in Int /\ c * N \in Int /\ f * s <= c * N /\ h + 1 \in Nat
        BY DEF Divided
  <2>. QED
       BY <2>1
<1>3. /\ ((h + 1) * f) * s = (h + 1) * (f * s)
      /\ (d * N) * s = (d * s) * N
      /\ (h + 1) * (c * N) = ((h + 1) * c) * N
      OBVIOUS
<1>4. d * s \in Int /\ (h + 1) * c \in Int
      OBVIOUS
<1>5. (h + 1) * (f * s) \in Int /\ (d * s) * N \in Int /\ ((h + 1) * c) * N \in Int
      BY <1>4
<1>6. (d * s) * N < ((h + 1) * c) * N
      BY <1>1, <1>2, <1>3, <1>5
<1>. QED
     BY <1>4, <1>6, Cancels

LEMMA ShownBelow ==
    ASSUME NEW N \in Nat \ {0}, NEW c \in Nat, NEW s \in Nat \ {0}, NEW d \in Nat,
           NEW f \in Nat, NEW h \in Nat, Divided(N, c, s, d, f, h)
    PROVE  h * (c * N - s) <= (d * s) * N
<1>1. (h * f) * s <= (d * N) * s
  <2>1. h * f \in Int /\ d * N \in Int /\ h * f <= d * N
        BY DEF Divided
  <2>. QED
       BY <2>1, Keeps
<1>2. (f + 1) * s = f * s + s /\ f * s \in Int /\ c * N \in Int
      OBVIOUS
<1>3. c * N - s <= f * s /\ c * N - s \in Int
      BY <1>2 DEF Divided
<1>4. (c * N - s) * h <= (f * s) * h
      BY <1>2, <1>3, Keeps
<1>5. (f * s) * h = (h * f) * s /\ (d * N) * s = (d * s) * N
      OBVIOUS
<1>6. (c * N - s) * h = h * (c * N - s)
      BY <1>3
<1>7. (h * f) * s \in Int /\ (d * s) * N \in Int /\ h * (c * N - s) \in Int
      BY <1>3
<1>. QED
     BY <1>1, <1>4, <1>5, <1>6, <1>7

\* What the clocks showed of the spans of the calibration, took and counted, and of
\* what is measured, passed; P and Q are the instants of a tick and of a nanosecond.
Rounded(P, Q, c, s, d, took, skew, passed) ==
    /\ took - skew - P < c * P /\ c * P < took + skew + P
    /\ took - Q < s * Q /\ s * Q < took + Q
    /\ passed - P < d * P /\ d * P < passed + P
    /\ 20 * (skew + P + Q) <= took

LEMMA ShownEnough ==
    ASSUME NEW P \in Nat \ {0}, NEW Q \in Nat \ {0}, NEW N \in Nat \ {0},
           NEW c \in Nat, NEW s \in Nat \ {0}, NEW d \in Nat, NEW f \in Nat \ {0}, NEW h \in Nat,
           NEW took \in Nat, NEW skew \in Nat, NEW passed \in Nat,
           Divided(N, c, s, d, f, h), Rounded(P, Q, c, s, d, took, skew, passed)
    PROVE  9 * (passed - P) <= 10 * ((h + 1) * Q)
<1>. DEFINE A == s * Q
            B == c * P
            X == d * P
            Y == (h + 1) * Q
            E == passed - P
<1>0. A \in Int /\ B \in Int /\ X \in Int /\ Y \in Nat /\ E \in Int
      OBVIOUS
<1>1. X * A < Y * B
  <2>1. d * s < (h + 1) * c /\ d * s \in Int /\ (h + 1) * c \in Int /\ P * Q \in Nat \ {0}
        BY ShownAbove
  <2>2. (d * s) * (P * Q) < ((h + 1) * c) * (P * Q)
        BY <2>1
  <2>3. (d * P) * (s * Q) = (d * s) * (P * Q)
        OBVIOUS
  <2>4. ((h + 1) * Q) * (c * P) = ((h + 1) * c) * (P * Q)
        OBVIOUS
  <2>. QED
       BY <2>2, <2>3, <2>4
<1>2. /\ A > 0 /\ B > 0 /\ E < X /\ 9 * B <= 10 * A
  <2>1. /\ B < took + skew + P /\ took - skew - P < B /\ took - Q < A /\ E < X
        /\ 20 * (skew + P + Q) <= took
        BY DEF Rounded
  <2>. HIDE DEF A, B, X, E
  <2>. QED
       BY <1>0, <2>1
<1>. SUFFICES 9 * E <= 10 * Y
     OBVIOUS
<1>. HIDE DEF A, B, X, Y, E
<1>3. CASE E <= 0
      BY <1>0, <1>3
<1>4. CASE E > 0
  <2>1. E * A <= X * A
        BY <1>0, <1>2, Keeps
  <2>2. (9 * B) * E <= (10 * A) * E
        BY <1>0, <1>2, <1>4, Keeps
  <2>3. E * A \in Int /\ X * A \in Int /\ Y * B \in Int /\ B * E \in Int
        BY <1>0
  <2>4. (9 * B) * E = 9 * (B * E) /\ (10 * A) * E = 10 * (E * A)
        BY <1>0
  <2>5. 9 * (B * E) < 10 * (Y * B)
        BY <1>1, <2>1, <2>2, <2>3, <2>4
  <2>6. (9 * E) * B = 9 * (B * E) /\ (10 * Y) * B = 10 * (Y * B)
        BY <1>0
  <2>7. 9 * E < 10 * Y
        BY <1>0, <1>2, <2>5, <2>6, Cancels
  <2>. QED
       BY <1>0, <2>7
<1>. QED
     BY <1>0, <1>3, <1>4

LEMMA ShownNotTooMuch ==
    ASSUME NEW P \in Nat \ {0}, NEW Q \in Nat \ {0}, NEW N \in Nat \ {0}, Q * N >= 100 * P,
           NEW c \in Nat, NEW s \in Nat \ {0}, NEW d \in Nat, NEW f \in Nat, NEW h \in Nat,
           NEW took \in Nat, NEW skew \in Nat, NEW passed \in Nat,
           Divided(N, c, s, d, f, h), Rounded(P, Q, c, s, d, took, skew, passed)
    PROVE  10 * (h * Q) <= 11 * (passed + P)
<1>. DEFINE A == s * Q
            B == c * P
            X == d * P
            Y == h * Q
            E == passed + P
            G == 100 * B - A
<1>0. A \in Nat /\ B \in Nat /\ X \in Nat /\ Y \in Nat /\ E \in Nat /\ G \in Int
      OBVIOUS
<1>1. Y * (N * G) <= (100 * N) * (X * A)
  <2>. DEFINE R == c * N - s
  <2>1. R \in Int /\ h * R <= (d * s) * N
    <3>1. R \in Int
          OBVIOUS
    <3>2. h * (c * N - s) <= (d * s) * N
          BY ShownBelow
    <3>. QED
         BY <3>1, <3>2
  <2>2. N * G <= (100 * P) * R
    <3>1. (100 * P) * R = N * (100 * B) - s * (100 * P)
      <4>1. (100 * P) * (c * N - s) = (100 * P) * (c * N) - (100 * P) * s
            OBVIOUS
      <4>2. (100 * P) * (c * N) = N * (100 * (c * P))
            OBVIOUS
      <4>3. (100 * P) * s = s * (100 * P)
            OBVIOUS
      <4>. QED
           BY <4>1, <4>2, <4>3
    <3>2. (100 * P) * s <= (Q * N) * s /\ (100 * P) * s = s * (100 * P)
          OBVIOUS
    <3>3. (Q * N) * s = N * A
          OBVIOUS
    <3>4. N * G = N * (100 * B) - N * A
      <4>. HIDE DEF A, B
      <4>. QED
           BY <1>0
    <3>5. N * (100 * B) \in Int /\ N * A \in Int /\ s * (100 * P) \in Int
          OBVIOUS
    <3>. HIDE DEF A, B, G, R
    <3>. QED
         BY <3>1, <3>2, <3>3, <3>4, <3>5
  <2>3. (N * G) * Y <= ((100 * P) * R) * Y
    <3>1. N * G \in Int /\ (100 * P) * R \in Int
          BY <1>0, <2>1
    <3>. HIDE DEF G, R, Y
    <3>. QED
         BY <1>0, <2>2, <3>1, Keeps
  <2>4. ((100 * P) * R) * Y = (h * R) * (100 * (P * Q))
    <3>. HIDE DEF R
    <3>. QED
         BY <2>1
  <2>5. (h * R) * (100 * (P * Q)) <= ((d * s) * N) * (100 * (P * Q))
    <3>1. h * R \in Int /\ (d * s) * N \in Int /\ 100 * (P * Q) \in Nat
          BY <2>1
    <3>. HIDE DEF R
    <3>. QED
         BY <2>1, <3>1, Keeps
  <2>6. ((d * s) * N) * (100 * (P * Q)) = (100 * N) * (X * A)
        OBVIOUS
  <2>7. (N * G) * Y = Y * (N * G)
    <3>. HIDE DEF G, Y
    <3>. QED
         BY <1>0
  <2>8. Y * (N * G) \in Int /\ (h * R) * (100 * (P * Q)) \in Int /\ (100 * N) * (X * A) \in Int
    <3>. HIDE DEF G, Y, R, X, A
    <3>. QED
         BY <1>0, <2>1
  <2>. HIDE DEF G, Y, R, X, A
  <2>. QED
       BY <2>3, <2>4, <2>5, <2>6, <2>7, <2>8
<1>2. /\ G > 0 /\ X <= E /\ 1000 * A <= 11 * G
  <2>1. /\ took - skew - P < B /\ A < took + Q /\ X < E
        /\ 20 * (skew + P + Q) <= took
        BY DEF Rounded
  <2>. HIDE DEF A, B, X, E
  <2>. QED
       BY <1>0, <2>1
<1>. SUFFICES 10 * Y <= 11 * E
     OBVIOUS
<1>. HIDE DEF A, B, X, Y, E, G
<1>3. Y * G <= 100 * (X * A)
  <2>1. Y * (N * G) = (Y * G) * N /\ (100 * N) * (X * A) = (100 * (X * A)) * N
        BY <1>0
  <2>2. Y * G \in Int /\ 100 * (X * A) \in Int
        BY <1>0
  <2>. QED
       BY <1>1, <2>1, <2>2, Cancels
<1>4. X * A <= E * A
      BY <1>0, <1>2, Keeps
<1>5. (1000 * A) * E <= (11 * G) * E
      BY <1>0, <1>2, Keeps
<1>6. /\ Y * G \in Int /\ X * A \in Int /\ E * A \in Int /\ E * G \in Int
      /\ (1000 * A) * E = 1000 * (E * A) /\ (11 * G) * E = 11 * (E * G)
      BY <1>0
<1>7. 10 * (Y * G) <= 11 * (E * G)
      BY <1>3, <1>4, <1>5, <1>6
<1>8. (10 * Y) * G = 10 * (Y * G) /\ (11 * E) * G = 11 * (E * G)
      BY <1>0
<1>. QED
     BY <1>0, <1>2, <1>7, <1>8, Cancels

\* A clock that shows whole units shows of a span a unit more or less.
LEMMA SpanShown ==
    ASSUME NEW M \in Nat \ {0}, NEW t \in Nat, NEW u \in Nat, t <= u
    PROVE  /\ u \div M - t \div M \in Nat
           /\ (u - t) - M < (u \div M - t \div M) * M
           /\ (u \div M - t \div M) * M < (u - t) + M
<1>. DEFINE a == u \div M
            b == t \div M
            r == u % M
            q == t % M
<1>1. Division(u, M, a, r) /\ Division(t, M, b, q)
      BY DivParts
<1>. HIDE DEF a, b, r, q
<1>2. /\ a \in Nat /\ r \in Nat /\ r <= M - 1 /\ u = a * M + r
      /\ b \in Nat /\ q \in Nat /\ q <= M - 1 /\ t = b * M + q
      BY <1>1 DEF Division
<1>3. (a - b) * M = a * M - b * M /\ a * M \in Int /\ b * M \in Int
      BY <1>2
<1>4. (u - t) - M < (a - b) * M /\ (a - b) * M < (u - t) + M
      BY <1>2, <1>3
<1>5. a - b \in Nat
  <2>1. SUFFICES ASSUME a + 1 <= b PROVE FALSE
        BY <1>2
  <2>2. (a + 1) * M <= b * M
        BY <1>2, <2>1, Keeps
  <2>3. (a + 1) * M = a * M + M
        BY <1>2
  <2>. QED
       BY <1>2, <1>3, <2>2, <2>3
<1>. QED
     BY <1>4, <1>5 DEF a, b

\* The difference of two readings of the counter is what it made in between, if a word
\* can hold that, wherever the counter was.
LEMMA CounterDifference ==
    ASSUME NEW z \in Int, NEW t \in Nat, NEW u \in Nat,
           NEW k \in 0 .. 2^Bits - 1, k = u \div InstantsPerTick - t \div InstantsPerTick
    PROVE  Word(rdtsc(z, u) - rdtsc(z, t)) = k
<1>. DEFINE M == 2^Bits
            a == u \div InstantsPerTick
            b == t \div InstantsPerTick
            q == (z + b) \div M
            r == (z + b) % M
<1>1. M \in Nat \ {0} /\ a \in Int /\ b \in Int
      BY ClockAssumption
<1>2. q \in Int /\ r \in Int /\ z + b = q * M + r
  <2>1. z + b \in Int
        BY <1>1
  <2>. HIDE DEF M, b
  <2>. QED
       BY <1>1, <2>1
<1>3. (((z + a) % M) + (-r)) % M = (z + a + (-r)) % M
  <2>1. z + a \in Int /\ -r \in Int
        BY <1>1, <1>2
  <2>. HIDE DEF M, r, a
  <2>. QED
       BY <1>1, <2>1, ModOfSum
<1>4. rdtsc(z, u) = (z + a) % M /\ rdtsc(z, t) = r
      BY DEF rdtsc, Word
<1>5. Word(rdtsc(z, u) - rdtsc(z, t)) = (((z + a) % M) - r) % M
      BY <1>4 DEF Word
<1>6. ((z + a) % M) - r = ((z + a) % M) + (-r)
  <2>1. (z + a) % M \in Int
        BY <1>1
  <2>. HIDE DEF M, r, a
  <2>. QED
       BY <1>2, <2>1
<1>7. z + a + (-r) = q * M + k
  <2>1. k = a - b /\ k \in Int
        BY <1>1
  <2>. DEFINE p == q * M
  <2>2. p \in Int /\ z + b = p + r
    <3>. HIDE DEF M, q, b, r
    <3>. QED
         BY <1>1, <1>2
  <2>3. r \in Int /\ a \in Int /\ b \in Int
        BY <1>1, <1>2
  <2>4. z + a + (-r) = p + k
    <3>. HIDE DEF M, a, b, q, r, p
    <3>. QED
         BY <2>1, <2>2, <2>3
  <2>. QED
       BY <2>4
<1>8. (q * M + k) % M = k
  <2>. HIDE DEF q
  <2>. QED
       BY <1>1, <1>2, ModUnique
<1>. QED
     BY <1>3, <1>5, <1>6, <1>7, <1>8

\* What calculations with ticks that fit in a word say.
CountsTicks(z, t, u, k) ==
    /\ Word(rdtsc(z, u) - rdtsc(z, t)) = k
    /\ Word(k * Nanoseconds) = k * Nanoseconds
    /\ k \in Nat
    /\ (u - t) - InstantsPerTick < k * InstantsPerTick
    /\ k * InstantsPerTick < (u - t) + InstantsPerTick

LEMMA FittingTicks ==
    ASSUME NEW z \in Int, NEW t \in Nat, NEW u \in Nat, t <= u, Fits(t, u)
    PROVE  CountsTicks(z, t, u, u \div InstantsPerTick - t \div InstantsPerTick)
<1>. DEFINE k == u \div InstantsPerTick - t \div InstantsPerTick
<1>1. InstantsPerTick \in Nat \ {0} /\ Nanoseconds \in Nat \ {0} /\ 2^Bits \in Nat \ {0}
      BY ClockAssumption
<1>2. /\ k \in Nat
      /\ (u - t) - InstantsPerTick < k * InstantsPerTick
      /\ k * InstantsPerTick < (u - t) + InstantsPerTick
      BY <1>1, SpanShown
<1>3. k * Nanoseconds < 2^Bits
      BY DEF Fits
<1>4. 1 * k <= Nanoseconds * k /\ Nanoseconds * k = k * Nanoseconds /\ k * Nanoseconds \in Nat
      BY <1>1, <1>2, Keeps
<1>5. k \in 0 .. 2^Bits - 1 /\ k * Nanoseconds \in 0 .. 2^Bits - 1
      BY <1>1, <1>2, <1>3, <1>4
<1>6. Word(rdtsc(z, u) - rdtsc(z, t)) = k
      BY <1>5, CounterDifference
<1>7. Word(k * Nanoseconds) = k * Nanoseconds
      BY <1>1, <1>5, ModSmall DEF Word
<1>. QED
     BY <1>2, <1>6, <1>7 DEF CountsTicks

-----------------------------------------------------------------------------
(* The clock.                                                              *)

ClockSpec == ClockInit /\ [][ClockNext]_clockVars

\* The calibration's readings and those of the measurement are the clocks'.
ClockInv ==
    /\ zero \in Int /\ now \in Nat /\ started \in Nat /\ started <= now
    /\ start_tsc = rdtsc(zero, started)
    /\ \E begin, delay, last \in Nat, sleep \in Sleeps :
          calibrated = Readings(begin, delay, sleep, last)
    /\ tsc_frequency_ = calibrate(zero, calibrated)

LEMMA ClockInitInv == ClockInit => ClockInv
<1>. SUFFICES ASSUME ClockInit PROVE ClockInv
     OBVIOUS
<1>1. PICK begin \in Begins, delay \in Delays, last \in Delays, sleep \in Sleeps :
          calibrated = Readings(begin, delay, sleep, last)
      BY DEF ClockInit
<1>2. begin \in Nat /\ delay \in Nat /\ last \in Nat /\ sleep \in Nat /\ zero \in Int
      BY ClockAssumption DEF ClockInit
<1>3. now = begin + delay + sleep + last
      BY <1>1 DEF ClockInit, Readings
<1>4. now \in Nat
      BY <1>2, <1>3
<1>5. \E b, d, l \in Nat, sl \in Sleeps : calibrated = Readings(b, d, sl, l)
      BY <1>1, <1>2
<1>. QED
     BY <1>2, <1>4, <1>5 DEF ClockInit, Begun, ClockInv

LEMMA ClockNextInv == ClockInv /\ [ClockNext]_clockVars => ClockInv'
<1>. SUFFICES ASSUME ClockInv, [ClockNext]_clockVars PROVE ClockInv'
     OBVIOUS
<1>1. CASE Pass
  <2>1. PICK d \in Passes : now' = now + d
        BY <1>1 DEF Pass
  <2>2. d \in Nat
        BY ClockAssumption
  <2>3. now' \in Nat /\ started <= now'
        BY <2>1, <2>2 DEF ClockInv
  <2>. QED
       BY <1>1, <2>3 DEF Pass, ClockInv
<1>2. CASE Start
      BY <1>2 DEF Start, ClockInv
<1>3. CASE UNCHANGED clockVars
      BY <1>3 DEF clockVars, ClockInv
<1>. QED
     BY <1>1, <1>2, <1>3 DEF ClockNext

\* Two divisions by what the calibration found.
LEMMA Quotients ==
    ASSUME NEW N \in Nat \ {0}, NEW c \in Nat, NEW s \in Nat \ {0}, NEW d \in Nat,
           NEW f, f = (c * N) \div s, f \in Nat \ {0}, NEW h, h = (d * N) \div f
    PROVE  h \in Nat /\ Divided(N, c, s, d, f, h)
<1>1. c * N \in Nat /\ d * N \in Nat
      OBVIOUS
<1>. DEFINE r == (c * N) % s
            q == (d * N) % f
<1>2. Division(c * N, s, f, r) /\ Division(d * N, f, h, q)
      BY <1>1, DivParts
<1>. HIDE DEF r, q
<1>3. /\ c * N = f * s + r /\ r \in Nat /\ r < s
      /\ d * N = h * f + q /\ q \in Nat /\ q < f /\ h \in Nat
      BY <1>2 DEF Division
<1>4. /\ (f + 1) * s = f * s + s /\ (h + 1) * f = h * f + f
      /\ f * s \in Int /\ h * f \in Int
      BY <1>3
<1>5. /\ f * s <= c * N /\ c * N < (f + 1) * s
      /\ h * f <= d * N /\ d * N < (h + 1) * f
      BY <1>1, <1>3, <1>4
<1>. QED
     BY <1>3, <1>5 DEF Divided

\* The frequency found is not 0.
LEMMA FrequencyPositive ==
    ASSUME NEW P \in Nat \ {0}, NEW Q \in Nat \ {0}, NEW N \in Nat \ {0}, Q * N >= 100 * P,
           NEW c \in Nat, NEW s \in Nat \ {0}, NEW d \in Nat,
           NEW took \in Nat, NEW skew \in Nat, NEW passed \in Nat,
           Rounded(P, Q, c, s, d, took, skew, passed)
    PROVE  (c * N) \div s \in Nat \ {0}
<1>. DEFINE A == s * Q
            B == c * P
<1>0. A \in Int /\ B \in Int
      OBVIOUS
<1>1. A < 100 * B
  <2>1. /\ took - skew - P < B /\ A < took + Q
        /\ 20 * (skew + P + Q) <= took
        BY DEF Rounded
  <2>. HIDE DEF A, B
  <2>. QED
       BY <1>0, <2>1
<1>2. s <= c * N
  <2>1. SUFFICES ASSUME c * N < s PROVE FALSE
        OBVIOUS
  <2>2. (100 * P) * c <= (Q * N) * c
        BY Keeps
  <2>3. (c * N) * Q <= s * Q
        BY <2>1, Keeps
  <2>4. (100 * P) * c = 100 * B /\ (Q * N) * c = (c * N) * Q /\ (c * N) * Q \in Int
        OBVIOUS
  <2>. HIDE DEF B
  <2>. QED
       BY <1>0, <1>1, <2>2, <2>3, <2>4
<1>. DEFINE f == (c * N) \div s
            r == (c * N) % s
<1>3. Division(c * N, s, f, r)
  <2>1. c * N \in Nat
        OBVIOUS
  <2>. QED
       BY <2>1, DivParts
<1>. HIDE DEF f, r
<1>4. f \in Nat /\ c * N = f * s + r /\ r < s
      BY <1>3 DEF Division
<1>5. f # 0
  <2>1. SUFFICES ASSUME f = 0 PROVE FALSE
        OBVIOUS
  <2>2. f * s = 0
        BY <2>1
  <2>. QED
       BY <1>2, <1>3, <1>4, <2>2 DEF Division
<1>. QED
     BY <1>4, <1>5 DEF f

LEMMA InvMeasures == ClockInv => MeasuredWithinTenth
<1>. DEFINE P == InstantsPerTick
            Q == InstantsPerNano
            N == Nanoseconds
            took == calibrated.end_time - calibrated.start_time
            counted == calibrated.end_tsc - calibrated.start_tsc
            skew == IF counted < took THEN took - counted ELSE counted - took
            passed == now - started
            c == calibrated.end_tsc \div P - calibrated.start_tsc \div P
            s == calibrated.end_time \div Q - calibrated.start_time \div Q
            d == now \div P - started \div P
            f == tsc_frequency_
            h == tsc_to_ns(Word(rdtsc(zero, now) - start_tsc))
<1>. SUFFICES ASSUME ClockInv, Undisturbed, Fits(calibrated.start_tsc, calibrated.end_tsc),
                     Fits(started, now)
              PROVE  /\ 10 * (h * Q) <= 11 * (passed + P)
                     /\ 9 * (passed - P) <= 10 * ((h + 1) * Q)
     BY DEF MeasuredWithinTenth
<1>1. /\ P \in Nat \ {0} /\ Q \in Nat \ {0} /\ N \in Nat \ {0} /\ Q * N >= 100 * P
      /\ zero \in Int /\ now \in Nat /\ started \in Nat /\ started <= now /\ passed \in Nat
      BY ClockAssumption DEF ClockInv
<1>2. PICK begin \in Nat, delay \in Nat, last \in Nat, sleep \in Sleeps :
          calibrated = Readings(begin, delay, sleep, last)
      BY DEF ClockInv
<1>3. /\ calibrated.start_time = begin /\ calibrated.start_tsc = begin + delay
      /\ calibrated.end_time = begin + delay + sleep
      /\ calibrated.end_tsc = begin + delay + sleep + last
      /\ sleep \in Nat /\ sleep >= Q
      BY <1>2, ClockAssumption DEF Readings
<1>4. /\ calibrated.start_time \in Nat /\ calibrated.end_time \in Nat
      /\ calibrated.start_tsc \in Nat /\ calibrated.end_tsc \in Nat
      /\ calibrated.start_time <= calibrated.end_time
      /\ calibrated.start_tsc <= calibrated.end_tsc
      /\ took \in Nat /\ counted \in Nat /\ took >= Q
      BY <1>1, <1>3
<1>5. skew \in Nat /\ took - skew <= counted /\ counted <= took + skew
  <2>. HIDE DEF took, counted
  <2>. QED
       BY <1>4
<1>6. 20 * (skew + P + Q) <= took
      BY DEF Undisturbed
<1>7. /\ Word(rdtsc(zero, calibrated.end_tsc) - rdtsc(zero, calibrated.start_tsc)) = c
      /\ Word(c * N) = c * N /\ c \in Nat
      /\ counted - P < c * P /\ c * P < counted + P
  <2>1. CountsTicks(zero, calibrated.start_tsc, calibrated.end_tsc, c)
        BY <1>1, <1>4, FittingTicks
  <2>. QED
       BY <2>1 DEF CountsTicks
<1>8. s \in Nat /\ took - Q < s * Q /\ s * Q < took + Q
      BY <1>1, <1>4, SpanShown
<1>9. /\ Word(rdtsc(zero, now) - start_tsc) = d
      /\ Word(d * N) = d * N /\ d \in Nat
      /\ passed - P < d * P /\ d * P < passed + P
  <2>1. start_tsc = rdtsc(zero, started)
        BY DEF ClockInv
  <2>2. CountsTicks(zero, started, now, d)
        BY <1>1, FittingTicks
  <2>. QED
       BY <2>1, <2>2 DEF CountsTicks
<1>10. f = (c * N) \div s
      BY <1>7 DEF ClockInv, calibrate, InSeconds, steady_clock
<1>11. h = (d * N) \div f
      BY <1>9 DEF tsc_to_ns, InSeconds
<1>. HIDE DEF P, Q, N, took, counted, skew, passed, c, s, d, f, h
<1>12. s \in Nat \ {0}
  <2>1. s # 0
    <3>1. SUFFICES ASSUME s = 0 PROVE FALSE
          OBVIOUS
    <3>2. s * Q = 0
          BY <1>1, <3>1
    <3>. QED
         BY <1>1, <1>4, <1>5, <1>6, <1>8, <3>2
  <2>. QED
       BY <1>8, <2>1
<1>13. Rounded(P, Q, c, s, d, took, skew, passed)
  <2>1. c * P \in Int
        BY <1>1, <1>7
  <2>2. took - skew - P < c * P /\ c * P < took + skew + P
        BY <1>1, <1>4, <1>5, <1>7, <2>1
  <2>. QED
       BY <1>6, <1>8, <1>9, <2>2 DEF Rounded
<1>14. f \in Nat \ {0}
  <2>1. (c * N) \div s \in Nat \ {0}
        BY <1>1, <1>4, <1>5, <1>7, <1>9, <1>12, <1>13, FrequencyPositive
  <2>. QED
       BY <1>10, <2>1
<1>15. h \in Nat /\ Divided(N, c, s, d, f, h)
      BY <1>1, <1>7, <1>9, <1>10, <1>11, <1>12, <1>14, Quotients
<1>16. 10 * (h * Q) <= 11 * (passed + P)
      BY <1>1, <1>4, <1>5, <1>7, <1>9, <1>12, <1>13, <1>14, <1>15, ShownNotTooMuch
<1>17. 9 * (passed - P) <= 10 * ((h + 1) * Q)
      BY <1>1, <1>4, <1>5, <1>7, <1>9, <1>12, <1>13, <1>14, <1>15, ShownEnough
<1>. QED
     BY <1>16, <1>17

\* What a measurement shows is within a tenth of the time that has passed, for words of
\* any width, a counter that makes 100 ticks a second or more, in no whole number to the
\* nanosecond, starts anywhere and wraps around, and a calibration of any length in which
\* the two clocks were read at most a twentieth of it apart, as long as the products of
\* ticks and nanoseconds fit in a word (Calibrator::calibrate(), tsc_to_ns()).
THEOREM AlwaysMeasuredWithinTenth == ClockSpec => []MeasuredWithinTenth
<1>1. ClockInit => ClockInv
      BY ClockInitInv
<1>2. ClockInv /\ [ClockNext]_clockVars => ClockInv'
      BY ClockNextInv
<1>3. ClockInv => MeasuredWithinTenth
      BY InvMeasures
<1>. QED
     BY <1>1, <1>2, <1>3, PTL DEF ClockSpec

-----------------------------------------------------------------------------
(* Prices.                                                                 *)

\* A calculation that starts from any price.
PriceInv == value \in min .. max
CalculationSpec == PriceInv /\ [][PriceNext]_priceVars

LEMMA Registers ==
    /\ max \in Nat /\ min \in Int /\ min = -max - 1
    /\ 2^Width \in Nat \ {0} /\ 2^Width = max - min + 1
BY WidthAssumption DEF max, min

LEMMA WrapInRange ==
    ASSUME NEW n \in Int
    PROVE  Wrap(n) \in min .. max
<1>1. (n - min) % 2^Width \in 0 .. 2^Width - 1
      BY Registers
<1>. HIDE DEF min, max
<1>. QED
     BY <1>1, Registers DEF Wrap

\* An exact result is one that is in range.
LEMMA WrapExact ==
    ASSUME NEW n \in Int
    PROVE  Wrap(n) = n <=> n \in min .. max
<1>1. CASE n \in min .. max
  <2>1. n - min \in 0 .. 2^Width - 1
        BY <1>1, Registers
  <2>2. (n - min) % 2^Width = n - min
        BY <2>1, Registers
  <2>. QED
       BY <1>1, <2>2, Registers DEF Wrap
<1>2. CASE n \notin min .. max
      BY <1>2, WrapInRange
<1>. QED
     BY <1>1, <1>2

\* Truncation brings a number closer to zero.
LEMMA DivisionShrinks ==
    ASSUME NEW a \in Nat, NEW d \in Nat \ {0}
    PROVE  a \div d \in 0 .. a
OBVIOUS

LEMMA DivisionHalves ==
    ASSUME NEW a \in Nat \ {0}, NEW d \in Nat, d > 1
    PROVE  a \div d < a
OBVIOUS

LEMMA QuotientInRange ==
    ASSUME NEW v \in min .. max, NEW n \in Int, n # 0, ~(v = min /\ n = -1)
    PROVE  Quotient(v, n) \in min .. max
<1>. DEFINE a == Abs(v)
            d == Abs(n)
            q == a \div d
<1>1. v \in Int /\ a \in Nat /\ d \in Nat \ {0} /\ a <= max + 1 /\ (a = max + 1 => v = min /\ v < 0)
      BY Registers DEF Abs
<1>2. q \in 0 .. a /\ (a # 0 /\ d > 1 => q < a)
      BY <1>1, DivisionShrinks, DivisionHalves
<1>3. Quotient(v, n) = q \/ Quotient(v, n) = -q
      BY DEF Quotient
<1>4. Quotient(v, n) = IF (v < 0) = (n < 0) THEN q ELSE -q
      BY DEF Quotient
<1>5. CASE a <= max
  <2>. HIDE DEF a, q
  <2>. QED
       BY <1>1, <1>2, <1>3, <1>5, Registers
<1>6. CASE a = max + 1
  <2>1. CASE d = 1
    <3>1. n = 1
          BY <1>1, <1>6, <2>1 DEF Abs
    <3>2. Quotient(v, n) = -q
          BY <1>1, <1>4, <1>6, <3>1
    <3>. HIDE DEF a, q
    <3>. QED
         BY <1>1, <1>2, <1>6, <3>2, Registers
  <2>2. CASE d > 1
    <3>1. q < a
          BY <1>1, <1>2, <1>6, <2>2, Registers
    <3>. HIDE DEF a, q
    <3>. QED
         BY <1>1, <1>2, <1>3, <1>6, <3>1, Registers
  <2>. QED
       BY <1>1, <2>1, <2>2
<1>. QED
     BY <1>1, <1>5, <1>6, Registers

LEMMA PriceStep == PriceInv /\ [PriceNext]_priceVars => PriceInv'
<1>. SUFFICES ASSUME value \in min .. max, [PriceNext]_priceVars PROVE value' \in min .. max
     BY DEF PriceInv
<1>1. value \in Int
      BY Registers
<1>2. ASSUME NEW n \in Operands, Add(n) \/ Subtract(n) \/ Multiply(n)
      PROVE  value' \in min .. max
  <2>1. n \in Int
        BY OperandsAssumption
  <2>2. value + n \in Int /\ value - n \in Int /\ value * n \in Int
        BY <1>1, <2>1
  <2>. QED
       BY <1>2, <2>2, WrapInRange DEF Add, Subtract, Multiply, Plus, Times
<1>3. ASSUME NEW n \in Operands, Divide(n)
      PROVE  value' \in min .. max
      BY <1>3, OperandsAssumption, QuotientInRange DEF Divide
<1>4. CASE UNCHANGED priceVars
      BY <1>4 DEF priceVars
<1>. QED
     BY <1>2, <1>3, <1>4 DEF PriceNext

\* The most that can be multiplied by n.
LEMMA QuotientDecides ==
    ASSUME NEW n \in Nat \ {0}, NEW m \in Nat, NEW v \in Nat
    PROVE  v <= m \div n <=> v * n <= m
OBVIOUS

LEMMA RangeDecides == PriceInv => ChecksDecide
<1>. SUFFICES ASSUME value \in min .. max, NEW n \in Operands, n > 0, value >= 0
              PROVE  /\ n <= max - value <=> Plus(value, n) = value + n
                     /\ ~(value > Quotient(max, n)) <=> Times(value, n) = value * n
     BY DEF PriceInv, ChecksDecide
<1>1. value \in Nat /\ n \in Nat \ {0} /\ max \in Nat /\ min < 0 /\ min \in Int
      BY OperandsAssumption, Registers
<1>2. n <= max - value <=> Plus(value, n) = value + n
  <2>1. value + n \in Int /\ (value + n \in min .. max <=> n <= max - value)
        BY <1>1
  <2>. QED
       BY <2>1, WrapExact DEF Plus
<1>3. ~(value > Quotient(max, n)) <=> Times(value, n) = value * n
  <2>1. Quotient(max, n) = max \div n /\ max \div n \in Int
        BY <1>1 DEF Quotient, Abs
  <2>2. value * n \in Nat
        BY <1>1
  <2>3. value * n \in min .. max <=> value * n <= max
        BY <1>1, <2>2
  <2>4. value <= max \div n <=> value * n <= max
        BY <1>1, QuotientDecides
  <2>5. Times(value, n) = value * n <=> value * n \in min .. max
        BY <2>2, WrapExact DEF Times
  <2>6. ~(value > max \div n) <=> value <= max \div n
        BY <1>1, <2>1
  <2>. QED
       BY <2>1, <2>3, <2>4, <2>5, <2>6
<1>. QED
     BY <1>2, <1>3

\* For registers of any width and calculations of any length: the checks the header
\* asks callers for before an addition and a multiplication let through exactly what
\* does not wrap around (Price::operator+=, operator*=).
THEOREM ChecksAlwaysDecide == CalculationSpec => []ChecksDecide
<1>1. CalculationSpec => []PriceInv
      BY PriceStep, PTL DEF CalculationSpec
<1>. QED
     BY <1>1, RangeDecides, PTL

-----------------------------------------------------------------------------
(* Induction, and the folds the loops are.                                 *)

\* Induction over the natural numbers.
LEMMA Counting ==
    ASSUME NEW S, 0 \in S, \A k \in Nat : k \in S => k + 1 \in S
    PROVE  Nat \subseteq S
<1>. DEFINE Left == {k \in Nat : k \notin S}
<1>1. CASE Left = {}
      BY <1>1
<1>2. CASE Left # {}
  <2>1. PICK k \in Left : \A j \in Left : ~ (<<j, k>> \in OpToRel(<, Nat))
        BY <1>2, NatLessThanWellFounded, WFMin
  <2>0. k \in Nat /\ k \notin S
        BY <2>1
  <2>2. \A j \in Left : ~ (j < k)
        BY <2>0, <2>1 DEF OpToRel
  <2>3. k # 0 /\ k - 1 \in Nat /\ k = (k - 1) + 1
        BY <2>0
  <2>4. k - 1 \notin Left
    <3>. HIDE DEF Left
    <3>. QED
         BY <2>0, <2>2, <2>3
  <2>. QED
       BY <2>0, <2>3, <2>4
<1>. QED
     BY <1>1, <1>2

LEMMA LeastOf ==
    ASSUME NEW S \in SUBSET Nat, S # {}
    PROVE  Min(S) \in S /\ \A x \in S : Min(S) <= x
<1>1. PICK k \in S : \A j \in S : ~ (<<j, k>> \in OpToRel(<, Nat))
      BY NatLessThanWellFounded, WFMin
<1>2. S \subseteq Nat /\ k \in Nat
      OBVIOUS
<1>3. \A j \in S : ~ (j < k)
      BY <1>1, <1>2 DEF OpToRel
<1>4. \A j \in S : k <= j
      BY <1>2, <1>3
<1>. QED
     BY <1>2, <1>4 DEF Min

LEMMA GreatestOf ==
    ASSUME NEW n \in Nat, NEW S \in SUBSET (1 .. n), S # {}
    PROVE  Max(S) \in S /\ \A x \in S : x <= Max(S)
<1>. DEFINE T == {k \in Nat : \A x \in S : x <= k}
<1>1. T \in SUBSET Nat /\ n \in T
      OBVIOUS
<1>2. PICK k \in T : \A j \in T : ~ (<<j, k>> \in OpToRel(<, Nat))
      BY <1>1, NatLessThanWellFounded, WFMin
<1>3. k \in Nat /\ (\A x \in S : x \in Nat \ {0} /\ x <= k)
  <2>1. S \subseteq 1 .. n /\ k \in T
        OBVIOUS
  <2>. QED
       BY <2>1
<1>4. \A j \in T : ~ (j < k)
      BY <1>1, <1>2, <1>3 DEF OpToRel
<1>5. k \in S
  <2>1. SUFFICES ASSUME k \notin S PROVE FALSE
        OBVIOUS
  <2>2. \A x \in S : x <= k - 1
        BY <1>3, <2>1
  <2>3. k - 1 \in Nat
    <3>1. PICK x \in S : TRUE
          OBVIOUS
    <3>. QED
         BY <1>3, <3>1
  <2>4. k - 1 \in T
        BY <2>2, <2>3
  <2>. HIDE DEF T
  <2>. QED
       BY <1>3, <1>4, <2>3, <2>4
<1>. QED
     BY <1>3, <1>5 DEF Max

\* A fold over the positions 1 .. n, the last one first, as FoldLeft takes them.
FoldTo(g, base, step, n) ==
    g = [s \in SUBSET (1 .. n) |->
            IF s = {} THEN base ELSE step[<<g[s \ {Max(s)}], Max(s)>>]]

LEMMA FoldExists ==
    ASSUME NEW V, NEW base \in V, NEW n \in Nat, NEW step \in [V \X (1 .. n) -> V]
    PROVE  \E g \in [SUBSET (1 .. n) -> V] : FoldTo(g, base, step, n)
<1>. DEFINE G(m) == \E g \in [SUBSET (1 .. m) -> V] : FoldTo(g, base, step, m)
            S == {m \in Nat : m <= n => G(m)}
<1>0. \A m \in Nat : m \in S <=> (m <= n => G(m))
  <2>. HIDE DEF G
  <2>. QED
       OBVIOUS
<1>1. 0 \in S
  <2>. DEFINE g == [s \in SUBSET (1 .. 0) |-> base]
  <2>1. g \in [SUBSET (1 .. 0) -> V]
        OBVIOUS
  <2>2. SUBSET (1 .. 0) = {{}}
        OBVIOUS
  <2>3. FoldTo(g, base, step, 0)
        BY <2>2 DEF FoldTo
  <2>. QED
       BY <1>0, <2>1, <2>3
<1>2. ASSUME NEW m \in Nat, m \in S PROVE m + 1 \in S
  <2>0. m + 1 \in Nat
        OBVIOUS
  <2>1. SUFFICES ASSUME m + 1 <= n PROVE G(m + 1)
    <3>. HIDE DEF G, S
    <3>. QED
         BY <1>0, <2>0
  <2>2. PICK g \in [SUBSET (1 .. m) -> V] : FoldTo(g, base, step, m)
    <3>1. m <= n
          BY <2>1
    <3>2. G(m)
      <4>. HIDE DEF G, S
      <4>. QED
           BY <1>0, <1>2, <3>1
    <3>. QED
         BY <3>2
  <2>. DEFINE h == [s \in SUBSET (1 .. m + 1) |->
                      IF m + 1 \in s THEN step[<<g[s \ {m + 1}], m + 1>>] ELSE g[s]]
  <2>3. ASSUME NEW s \in SUBSET (1 .. m + 1)
        PROVE  h[s] \in V /\ h[s] = IF s = {} THEN base ELSE step[<<h[s \ {Max(s)}], Max(s)>>]
    <3>1. CASE m + 1 \in s
      <4>1. s # {} /\ Max(s) = m + 1
        <5>1. m + 1 \in Nat /\ s # {}
              BY <3>1
        <5>2. Max(s) \in s /\ m + 1 <= Max(s)
              BY <3>1, <5>1, GreatestOf
        <5>3. \A x \in s : x \in Nat /\ x <= m + 1
              OBVIOUS
        <5>4. Max(s) \in Nat /\ Max(s) <= m + 1
              BY <5>2, <5>3
        <5>. QED
             BY <5>1, <5>2, <5>4
      <4>2. s \ {m + 1} \in SUBSET (1 .. m) /\ m + 1 \notin s \ {m + 1}
            BY <3>1
      <4>3. s \ {m + 1} \in SUBSET (1 .. m + 1)
            BY <4>2
      <4>4. h[s \ {m + 1}] = g[s \ {m + 1}] /\ g[s \ {m + 1}] \in V
            BY <4>2, <4>3
      <4>5. h[s] = step[<<g[s \ {m + 1}], m + 1>>]
            BY <3>1
      <4>6. m + 1 \in 1 .. n
            BY <2>1
      <4>7. step[<<g[s \ {m + 1}], m + 1>>] \in V
            BY <4>4, <4>6
      <4>. HIDE DEF h
      <4>. QED
           BY <4>1, <4>4, <4>5, <4>7
    <3>2. CASE m + 1 \notin s
      <4>1. s \in SUBSET (1 .. m) /\ h[s] = g[s] /\ g[s] \in V
            BY <3>2
      <4>2. g[s] = IF s = {} THEN base ELSE step[<<g[s \ {Max(s)}], Max(s)>>]
            BY <2>2, <4>1 DEF FoldTo
      <4>3. h[s \ {Max(s)}] = g[s \ {Max(s)}]
            BY <3>2
      <4>. HIDE DEF h
      <4>. QED
           BY <4>1, <4>2, <4>3
    <3>. QED
         BY <3>1, <3>2
  <2>4. h \in [SUBSET (1 .. m + 1) -> V]
        BY <2>3
  <2>5. FoldTo(h, base, step, m + 1)
    <3>1. h = [s \in SUBSET (1 .. m + 1) |-> h[s]]
          OBVIOUS
    <3>. HIDE DEF h
    <3>. QED
         BY <2>3, <3>1 DEF FoldTo
  <2>. HIDE DEF h
  <2>. QED
       BY <2>4, <2>5
<1>3. n \in S
  <2>. HIDE DEF S
  <2>. QED
       BY <1>1, <1>2, Counting
<1>. HIDE DEF G, S
<1>4. G(n)
      BY <1>0, <1>3
<1>. QED
     BY <1>4 DEF G

-----------------------------------------------------------------------------
(* The loops.                                                              *)

Nothing == [value |-> 0, digits |-> 0]
Parts == [value : Int, digits : Nat]

\* acc follows the loop over the characters of s.
Scans(acc, s, limit) ==
    /\ acc[0] = Nothing
    /\ \A k \in 1 .. Len(s) : acc[k] = TakeIn(acc[k - 1], s[k], limit)

ScanOver(g, s, limit) ==
    g = [t \in SUBSET DOMAIN s |->
            IF t = {} THEN [value |-> 0, digits |-> 0]
            ELSE TakeIn(g[t \ {Max(t)}], s[Max(t)], limit)]

LEMMA ScannedUnfolds ==
    ASSUME NEW s, NEW limit
    PROVE  Scanned(s, limit) = (CHOOSE g : ScanOver(g, s, limit))[DOMAIN s]
BY DEF Scanned, FoldLeft, MapThenFoldSet, ScanOver

LEMMA TakeInType ==
    ASSUME NEW part \in Parts, NEW c, NEW limit \in Nat
    PROVE  TakeIn(part, c, limit) \in Parts
<1>1. CASE c \in 0 .. 9 /\ part.digits < limit
  <2>1. part.value * 10 + c \in Int /\ part.digits + 1 \in Nat
        BY <1>1 DEF Parts
  <2>2. Wrap(part.value * 10 + c) \in Int
        BY <2>1, WrapInRange, Registers
  <2>. QED
       BY <1>1, <2>1, <2>2 DEF TakeIn, Parts
<1>2. CASE ~(c \in 0 .. 9 /\ part.digits < limit)
      BY <1>2 DEF TakeIn
<1>. QED
     BY <1>1, <1>2

\* The first k positions.
LEMMA Prefix ==
    ASSUME NEW k \in Nat \ {0}
    PROVE  1 .. k # {} /\ Max(1 .. k) = k /\ (1 .. k) \ {k} = 1 .. (k - 1)
<1>2. k \in 1 .. k /\ k \in Nat /\ 1 .. k \in SUBSET (1 .. k)
      OBVIOUS
<1>1. Max(1 .. k) \in 1 .. k /\ \A x \in 1 .. k : x <= Max(1 .. k)
  <2>1. 1 .. k # {}
        BY <1>2
  <2>. QED
       BY <1>2, <2>1, GreatestOf
<1>3. k <= Max(1 .. k)
      BY <1>1, <1>2
<1>. QED
     BY <1>1, <1>2, <1>3

\* What is scanned is what the loop has after the last character.
LEMMA ScanRun ==
    ASSUME NEW C, NEW s \in Seq(C), NEW limit \in Nat
    PROVE  \E acc : Scans(acc, s, limit) /\ Scanned(s, limit) = acc[Len(s)]
<1>. DEFINE n == Len(s)
            step == [x \in Parts \X (1 .. n) |-> TakeIn(x[1], s[x[2]], limit)]
            c == CHOOSE g : ScanOver(g, s, limit)
<1>1. n \in Nat /\ DOMAIN s = 1 .. n
      OBVIOUS
<1>2. step \in [Parts \X (1 .. n) -> Parts]
      BY TakeInType
<1>3. \A p \in Parts, k \in 1 .. n : step[<<p, k>>] = TakeIn(p, s[k], limit)
      OBVIOUS
<1>4. Nothing \in Parts
      BY DEF Nothing, Parts
<1>. HIDE DEF n, step
<1>5. \E g : ScanOver(g, s, limit)
  <2>1. PICK g \in [SUBSET (1 .. n) -> Parts] : FoldTo(g, Nothing, step, n)
        BY <1>1, <1>2, <1>4, FoldExists
  <2>2. ASSUME NEW t \in SUBSET (1 .. n)
        PROVE  g[t] = IF t = {} THEN [value |-> 0, digits |-> 0]
                      ELSE TakeIn(g[t \ {Max(t)}], s[Max(t)], limit)
    <3>1. g[t] = IF t = {} THEN Nothing ELSE step[<<g[t \ {Max(t)}], Max(t)>>]
          BY <2>1 DEF FoldTo
    <3>2. CASE t # {}
      <4>1. Max(t) \in 1 .. n
            BY <1>1, <3>2, GreatestOf
      <4>2. g[t \ {Max(t)}] \in Parts
            OBVIOUS
      <4>. QED
           BY <1>3, <3>1, <3>2, <4>1, <4>2
    <3>. QED
         BY <3>1, <3>2 DEF Nothing
  <2>3. g = [t \in SUBSET (1 .. n) |-> g[t]]
        OBVIOUS
  <2>. QED
       BY <1>1, <2>2, <2>3 DEF ScanOver
<1>6. ScanOver(c, s, limit)
      BY <1>5
<1>. HIDE DEF c
<1>. DEFINE acc == [k \in 0 .. n |-> c[1 .. k]]
<1>7. acc[0] = Nothing
  <2>1. 1 .. 0 = {} /\ acc[0] = c[1 .. 0]
        BY <1>1
  <2>2. c[{}] = [value |-> 0, digits |-> 0]
        BY <1>6 DEF ScanOver
  <2>. QED
       BY <2>1, <2>2 DEF Nothing
<1>8. ASSUME NEW k \in 1 .. n PROVE acc[k] = TakeIn(acc[k - 1], s[k], limit)
  <2>1. k \in Nat \ {0} /\ 1 .. k \in SUBSET (1 .. n)
        BY <1>1
  <2>2. c[1 .. k] = TakeIn(c[(1 .. k) \ {Max(1 .. k)}], s[Max(1 .. k)], limit)
        BY <1>1, <1>6, <2>1, Prefix DEF ScanOver
  <2>3. acc[k] = c[1 .. k] /\ acc[k - 1] = c[1 .. (k - 1)]
        BY <1>1
  <2>. QED
       BY <2>1, <2>2, <2>3, Prefix
<1>9. Scanned(s, limit) = acc[n]
  <2>1. acc[n] = c[1 .. n]
        BY <1>1
  <2>. QED
       BY <1>1, <2>1, ScannedUnfolds DEF c
<1>. HIDE DEF acc
<1>. QED
     BY <1>7, <1>8, <1>9 DEF Scans, n

LEMMA ScannedType ==
    ASSUME NEW C, NEW s \in Seq(C), NEW limit \in Nat
    PROVE  Scanned(s, limit) \in Parts /\ Scanned(s, limit).digits <= limit
<1>. DEFINE n == Len(s)
<1>1. n \in Nat
      OBVIOUS
<1>2. PICK acc : Scans(acc, s, limit) /\ Scanned(s, limit) = acc[n]
      BY ScanRun
<1>. DEFINE Good(k) == acc[k] \in Parts /\ acc[k].digits <= limit
            S == {k \in Nat : k <= n => Good(k)}
<1>3. Good(0)
      BY <1>2 DEF Scans, Nothing, Parts
<1>4. ASSUME NEW k \in Nat, k + 1 <= n, Good(k) PROVE Good(k + 1)
  <2>1. acc[k + 1] = TakeIn(acc[k], s[k + 1], limit)
    <3>1. k + 1 \in 1 .. n /\ (k + 1) - 1 = k
          BY <1>1, <1>4
    <3>. QED
         BY <1>2, <3>1 DEF Scans
  <2>2. acc[k + 1] \in Parts
        BY <1>4, <2>1, TakeInType
  <2>3. acc[k + 1].digits <= limit
        BY <1>4, <2>1 DEF TakeIn, Parts
  <2>. QED
       BY <2>2, <2>3
<1>5. n \in S
  <2>1. \A k \in Nat : k \in S <=> (k <= n => Good(k))
    <3>. HIDE DEF Good
    <3>. QED
         OBVIOUS
  <2>. HIDE DEF S, Good
  <2>2. 0 \in S
        BY <1>3, <2>1
  <2>3. ASSUME NEW k \in Nat, k \in S PROVE k + 1 \in S
    <3>1. k + 1 <= n => k <= n
          BY <1>1
    <3>. QED
         BY <1>4, <2>1, <2>3, <3>1
  <2>4. Nat \subseteq S
        BY <2>2, <2>3, Counting
  <2>. QED
       BY <1>1, <2>4
<1>. QED
     BY <1>1, <1>2, <1>5

\* acc adds up the first elements of a sequence of integers.
Adds(acc, s) == acc[0] = 0 /\ \A k \in 1 .. Len(s) : acc[k] = acc[k - 1] + s[k]

AddOver(g, s) ==
    g = [t \in SUBSET DOMAIN s |-> IF t = {} THEN 0 ELSE g[t \ {Max(t)}] + s[Max(t)]]

LEMMA SumUnfolds ==
    ASSUME NEW s
    PROVE  FoldLeft(LAMBDA x, y : x + y, 0, s) = (CHOOSE g : AddOver(g, s))[DOMAIN s]
BY DEF FoldLeft, MapThenFoldSet, AddOver

\* A sum is what adding up has after the last element.
LEMMA SumRun ==
    ASSUME NEW s \in Seq(Int)
    PROVE  \E acc : /\ Adds(acc, s) /\ \A k \in 0 .. Len(s) : acc[k] \in Int
                   /\ FoldLeft(LAMBDA x, y : x + y, 0, s) = acc[Len(s)]
<1>. DEFINE n == Len(s)
            V == Int
            step == [x \in V \X (1 .. n) |-> x[1] + s[x[2]]]
            c == CHOOSE g : AddOver(g, s)
<1>1. n \in Nat /\ DOMAIN s = 1 .. n /\ \A k \in 1 .. n : s[k] \in Int
      OBVIOUS
<1>2. step \in [V \X (1 .. n) -> V] /\ 0 \in V
      BY <1>1
<1>3. \A p \in V, k \in 1 .. n : step[<<p, k>>] = p + s[k]
      OBVIOUS
<1>. HIDE DEF n, step
<1>4. \E g : AddOver(g, s)
  <2>. HIDE DEF V
  <2>1. PICK g \in [SUBSET (1 .. n) -> V] : FoldTo(g, 0, step, n)
        BY <1>1, <1>2, FoldExists
  <2>2. ASSUME NEW t \in SUBSET (1 .. n)
        PROVE  g[t] = IF t = {} THEN 0 ELSE g[t \ {Max(t)}] + s[Max(t)]
    <3>1. g[t] = IF t = {} THEN 0 ELSE step[<<g[t \ {Max(t)}], Max(t)>>]
          BY <2>1 DEF FoldTo
    <3>2. CASE t # {}
      <4>1. Max(t) \in 1 .. n
            BY <1>1, <3>2, GreatestOf
      <4>2. g[t \ {Max(t)}] \in V
            OBVIOUS
      <4>. QED
           BY <1>3, <3>1, <3>2, <4>1, <4>2
    <3>. QED
         BY <3>1, <3>2
  <2>3. g = [t \in SUBSET (1 .. n) |-> g[t]]
        OBVIOUS
  <2>. QED
       BY <1>1, <2>2, <2>3 DEF AddOver
<1>5. AddOver(c, s)
      BY <1>4
<1>. HIDE DEF c
<1>. DEFINE acc == [k \in 0 .. n |-> c[1 .. k]]
<1>6. acc[0] = 0
  <2>1. 1 .. 0 = {} /\ acc[0] = c[1 .. 0]
        BY <1>1
  <2>2. c[{}] = 0
        BY <1>5 DEF AddOver
  <2>. QED
       BY <2>1, <2>2
<1>7. ASSUME NEW k \in 1 .. n PROVE acc[k] = acc[k - 1] + s[k]
  <2>1. k \in Nat \ {0} /\ 1 .. k \in SUBSET (1 .. n)
        BY <1>1
  <2>2. c[1 .. k] = c[(1 .. k) \ {Max(1 .. k)}] + s[Max(1 .. k)]
        BY <1>1, <1>5, <2>1, Prefix DEF AddOver
  <2>3. acc[k] = c[1 .. k] /\ acc[k - 1] = c[1 .. (k - 1)]
        BY <1>1
  <2>. QED
       BY <2>1, <2>2, <2>3, Prefix
<1>8. FoldLeft(LAMBDA x, y : x + y, 0, s) = acc[n]
  <2>1. acc[n] = c[1 .. n]
        BY <1>1
  <2>. QED
       BY <1>1, <2>1, SumUnfolds DEF c
<1>. HIDE DEF acc
<1>9. \A k \in Nat : k <= n => acc[k] \in Int
  <2>. DEFINE S == {k \in Nat : k <= n => acc[k] \in Int}
  <2>1. 0 \in S
        BY <1>6
  <2>2. ASSUME NEW k \in Nat, k \in S PROVE k + 1 \in S
    <3>1. SUFFICES ASSUME k + 1 <= n PROVE acc[k + 1] \in Int
          OBVIOUS
    <3>2. k + 1 \in 1 .. n /\ (k + 1) - 1 = k /\ k <= n
          BY <1>1, <3>1
    <3>3. acc[k] \in Int
          BY <2>2, <3>2
    <3>. QED
         BY <1>1, <1>7, <3>2, <3>3
  <2>. HIDE DEF S
  <2>3. Nat \subseteq S
        BY <2>1, <2>2, Counting
  <2>. QED
       BY <2>3 DEF S
<1>10. \A k \in 0 .. n : acc[k] \in Int
       BY <1>1, <1>9
<1>11. Adds(acc, s)
       BY <1>6, <1>7 DEF Adds, n
<1>. QED
     BY <1>8, <1>10, <1>11 DEF n

-----------------------------------------------------------------------------
(* Powers of ten.                                                          *)

\* The powers of ten up to the n-th exist and are unique: Ten is what it is said to be.
PowersTo(f, n) ==
    /\ f \in [0 .. n -> Nat \ {0}]
    /\ f[0] = 1 /\ \A k \in 1 .. n : f[k] = 10 * f[k - 1]

LEMMA PowersExist == \A n \in Nat : \E f : PowersTo(f, n)
<1>. DEFINE S == {n \in Nat : \E f : PowersTo(f, n)}
<1>1. 0 \in S
  <2>1. PowersTo([k \in 0 .. 0 |-> 1], 0)
        BY DEF PowersTo
  <2>. QED
       BY <2>1
<1>2. ASSUME NEW n \in Nat, n \in S PROVE n + 1 \in S
  <2>1. PICK f : PowersTo(f, n)
        BY <1>2
  <2>. DEFINE h == [k \in 0 .. n + 1 |-> IF k = n + 1 THEN 10 * f[n] ELSE f[k]]
  <2>2. f[n] \in Nat \ {0} /\ \A k \in 0 .. n : f[k] \in Nat \ {0}
        BY <2>1 DEF PowersTo
  <2>3. 10 * f[n] \in Nat \ {0}
        BY <2>2
  <2>4. h \in [0 .. n + 1 -> Nat \ {0}]
        BY <2>2, <2>3
  <2>5. h[0] = 1
        BY <2>1 DEF PowersTo
  <2>6. ASSUME NEW k \in 1 .. n + 1 PROVE h[k] = 10 * h[k - 1]
    <3>1. CASE k = n + 1
          BY <3>1
    <3>2. CASE k # n + 1
      <4>1. k \in 1 .. n /\ k - 1 \in 0 .. n /\ k \in 0 .. n + 1 /\ k - 1 \in 0 .. n + 1
            BY <3>2
      <4>2. h[k] = f[k] /\ h[k - 1] = f[k - 1]
            BY <3>2, <4>1
      <4>. QED
           BY <2>1, <4>1, <4>2 DEF PowersTo
    <3>. QED
         BY <3>1, <3>2
  <2>. HIDE DEF h
  <2>7. PowersTo(h, n + 1) /\ n + 1 \in Nat
        BY <2>4, <2>5, <2>6 DEF PowersTo
  <2>. QED
       BY <2>7
<1>. HIDE DEF S
<1>3. Nat \subseteq S
      BY <1>1, <1>2, Counting
<1>. QED
     BY <1>3 DEF S

LEMMA PowersUnique ==
    ASSUME NEW m \in Nat, NEW n \in Nat, NEW f, PowersTo(f, m), NEW g, PowersTo(g, n)
    PROVE  \A k \in Nat : k <= m /\ k <= n => f[k] = g[k]
<1>. DEFINE S == {k \in Nat : k <= m /\ k <= n => f[k] = g[k]}
<1>1. 0 \in S
      BY DEF PowersTo
<1>2. ASSUME NEW k \in Nat, k \in S PROVE k + 1 \in S
  <2>1. SUFFICES ASSUME k + 1 <= m, k + 1 <= n PROVE f[k + 1] = g[k + 1]
        OBVIOUS
  <2>2. k <= m /\ k <= n /\ k + 1 \in 1 .. m /\ k + 1 \in 1 .. n /\ (k + 1) - 1 = k
        BY <2>1
  <2>3. f[k] = g[k]
        BY <1>2, <2>2
  <2>. QED
       BY <2>2, <2>3 DEF PowersTo
<1>. HIDE DEF S
<1>3. Nat \subseteq S
      BY <1>1, <1>2, Counting
<1>. QED
     BY <1>3 DEF S

LEMMA Powers ==
    /\ Ten[0] = 1
    /\ \A n \in Nat : Ten[n] \in Nat \ {0} /\ Ten[n + 1] = 10 * Ten[n]
<1>. DEFINE P(n) == CHOOSE f : PowersTo(f, n)
            ten == [n \in Nat |-> P(n)[n]]
<1>1. ASSUME NEW n \in Nat PROVE PowersTo(P(n), n)
      BY PowersExist
<1>. HIDE DEF P
<1>2. ASSUME NEW n \in Nat
      PROVE  ten[n] \in Nat \ {0} /\ ten[n] = IF n = 0 THEN 1 ELSE 10 * ten[n - 1]
  <2>1. P(n)[n] \in Nat \ {0} /\ P(n)[0] = 1
        BY <1>1 DEF PowersTo
  <2>2. CASE n # 0
    <3>1. n - 1 \in Nat /\ n \in 1 .. n /\ n - 1 <= n /\ n - 1 <= n - 1
          BY <2>2
    <3>2. P(n)[n] = 10 * P(n)[n - 1]
          BY <1>1, <3>1 DEF PowersTo
    <3>3. P(n)[n - 1] = P(n - 1)[n - 1]
          BY <1>1, <3>1, PowersUnique
    <3>. QED
         BY <2>1, <2>2, <3>1, <3>2, <3>3
  <2>. QED
       BY <2>1, <2>2
<1>3. ten = [n \in Nat |-> IF n = 0 THEN 1 ELSE 10 * ten[n - 1]]
  <2>1. ten = [n \in Nat |-> ten[n]]
        OBVIOUS
  <2>. HIDE DEF ten
  <2>. QED
       BY <1>2, <2>1
<1>. HIDE DEF ten
<1>4. Ten = [n \in Nat |-> IF n = 0 THEN 1 ELSE 10 * Ten[n - 1]]
      BY <1>3 DEF Ten
<1>5. \A n \in Nat : Ten[n] \in Nat \ {0}
  <2>. DEFINE S == {n \in Nat : Ten[n] \in Nat \ {0}}
  <2>1. 0 \in S
        BY <1>4
  <2>2. ASSUME NEW n \in Nat, n \in S PROVE n + 1 \in S
    <3>1. n + 1 \in Nat /\ n + 1 # 0 /\ (n + 1) - 1 = n
          OBVIOUS
    <3>2. Ten[n + 1] = 10 * Ten[n] /\ Ten[n] \in Nat \ {0}
          BY <1>4, <2>2, <3>1
    <3>. QED
         BY <3>1, <3>2
  <2>. HIDE DEF S
  <2>3. Nat \subseteq S
        BY <2>1, <2>2, Counting
  <2>. QED
       BY <2>3 DEF S
<1>6. ASSUME NEW n \in Nat PROVE Ten[n + 1] = 10 * Ten[n]
  <2>1. n + 1 \in Nat /\ n + 1 # 0 /\ (n + 1) - 1 = n
        OBVIOUS
  <2>. QED
       BY <1>4, <2>1
<1>. QED
     BY <1>4, <1>5, <1>6

LEMMA PowerAt ==
    ASSUME NEW n \in Nat
    PROVE  Ten[n] \in Nat \ {0} /\ Ten[n] \in Int /\ Ten[n + 1] = 10 * Ten[n]
BY Powers

-----------------------------------------------------------------------------
(* Numbers that are the same in a register.                                *)

\* Two integers of which a register keeps the same.
Same(a, b) == \E k \in Int : a = b + k * 2^Width

LEMMA SameWrap ==
    ASSUME NEW n \in Int
    PROVE  Wrap(n) \in Int /\ Same(Wrap(n), n)
<1>. DEFINE M == 2^Width
            x == n - min
            q == x \div M
            r == x % M
<1>1. M \in Nat \ {0} /\ x \in Int /\ min \in Int
      BY Registers
<1>2. Wrap(n) = r + min /\ n = x + min
      BY <1>1 DEF Wrap
<1>. HIDE DEF M, x
<1>3. q \in Int /\ r \in Int /\ x = q * M + r
      BY <1>1
<1>. HIDE DEF q, r
<1>4. q * M \in Int /\ (-q) * M = -(q * M)
      BY <1>1, <1>3
<1>5. Wrap(n) = n + (-q) * M /\ -q \in Int /\ Wrap(n) \in Int
      BY <1>1, <1>2, <1>3, <1>4
<1>. QED
     BY <1>5 DEF Same, M

LEMMA WrapOfSame ==
    ASSUME NEW a \in Int, NEW b \in Int, Same(a, b)
    PROVE  Wrap(a) = Wrap(b)
<1>. DEFINE M == 2^Width
            q == (b - min) \div M
            r == (b - min) % M
<1>1. M \in Nat \ {0} /\ b - min \in Int /\ min \in Int
      BY Registers
<1>2. PICK k \in Int : a = b + k * M
      BY DEF Same
<1>. HIDE DEF M
<1>3. q \in Int /\ r \in 0 .. M - 1 /\ b - min = q * M + r
      BY <1>1
<1>. HIDE DEF q, r
<1>4. a - min = (q + k) * M + r
  <2>1. a - min = (b - min) + k * M /\ k * M \in Int /\ q * M \in Int
        BY <1>1, <1>2, <1>3
  <2>2. (q + k) * M = q * M + k * M
        BY <1>1, <1>3
  <2>. QED
       BY <1>3, <2>1, <2>2
<1>5. ((q + k) * M + r) % M = r
      BY <1>1, <1>3, ModUnique
<1>. QED
     BY <1>4, <1>5 DEF Wrap, M, r

LEMMA SameItself == ASSUME NEW a \in Int PROVE Same(a, a)
<1>1. 2^Width \in Int
      BY Registers
<1>2. a = a + 0 * 2^Width
      BY <1>1
<1>. QED
     BY <1>2 DEF Same

LEMMA SameThrough ==
    ASSUME NEW a \in Int, NEW b \in Int, NEW c \in Int, Same(a, b), Same(b, c)
    PROVE  Same(a, c)
<1>. DEFINE M == 2^Width
<1>1. M \in Int
      BY Registers
<1>2. PICK j \in Int, k \in Int : a = b + j * M /\ b = c + k * M
      BY DEF Same
<1>. HIDE DEF M
<1>3. a = c + (j + k) * M
  <2>1. (j + k) * M = j * M + k * M /\ j * M \in Int /\ k * M \in Int
        BY <1>1
  <2>. QED
       BY <1>2, <2>1
<1>. QED
     BY <1>3 DEF Same, M

LEMMA SamePlus ==
    ASSUME NEW a \in Int, NEW b \in Int, NEW c \in Int, NEW d \in Int, Same(a, b), Same(c, d)
    PROVE  Same(a + c, b + d)
<1>. DEFINE M == 2^Width
<1>1. M \in Int
      BY Registers
<1>2. PICK j \in Int, k \in Int : a = b + j * M /\ c = d + k * M
      BY DEF Same
<1>. HIDE DEF M
<1>3. a + c = (b + d) + (j + k) * M
  <2>1. (j + k) * M = j * M + k * M /\ j * M \in Int /\ k * M \in Int
        BY <1>1
  <2>. QED
       BY <1>2, <2>1
<1>. QED
     BY <1>3 DEF Same, M

LEMMA SameTimes ==
    ASSUME NEW a \in Int, NEW b \in Int, NEW m \in Int, Same(a, b)
    PROVE  Same(a * m, b * m)
<1>. DEFINE M == 2^Width
<1>1. M \in Int
      BY Registers
<1>2. PICK k \in Int : a = b + k * M
      BY DEF Same
<1>. HIDE DEF M
<1>3. a * m = b * m + (k * m) * M
  <2>1. (b + k * M) * m = b * m + (k * M) * m
        BY <1>1
  <2>2. (k * M) * m = (k * m) * M
        BY <1>1
  <2>. QED
       BY <1>2, <2>1, <2>2
<1>4. k * m \in Int
      OBVIOUS
<1>. QED
     BY <1>3, <1>4 DEF Same, M

-----------------------------------------------------------------------------
(* What from_string() makes of a number.                                   *)

\* A number without its sign.
Unsigned(u) ==
    /\ u \in Seq((0 .. 9) \cup {Dot})
    /\ \A i, j \in DOMAIN u : u[i] = Dot /\ u[j] = Dot => i = j

LEMMA PointAt ==
    ASSUME NEW C, NEW u \in Seq(C)
    PROVE  /\ Point(u) \in 1 .. Len(u) + 1
           /\ \A i \in 1 .. Point(u) - 1 : u[i] # Dot
           /\ Point(u) <= Len(u) => u[Point(u)] = Dot
<1>. DEFINE S == {i \in DOMAIN u : u[i] = Dot} \cup {Len(u) + 1}
<1>1. DOMAIN u = 1 .. Len(u) /\ Len(u) \in Nat
      OBVIOUS
<1>2. S \in SUBSET Nat /\ S # {} /\ Len(u) + 1 \in S
      BY <1>1
<1>3. \A i \in S : i \in 1 .. Len(u) + 1 /\ (i <= Len(u) => u[i] = Dot)
      BY <1>1
<1>4. \A i \in 1 .. Len(u) : u[i] = Dot => i \in S
      BY <1>1
<1>5. Point(u) = Min(S)
      BY DEF Point
<1>. HIDE DEF S
<1>6. Point(u) \in S /\ \A i \in S : Point(u) <= i
      BY <1>2, <1>5, LeastOf
<1>. QED
     BY <1>1, <1>3, <1>4, <1>6

\* sum[k] is what the first k characters of u contribute.
Contribute(sum, u) ==
    /\ sum[0] = 0 /\ Magnitude(u) = sum[Len(u)]
    /\ \A k \in 1 .. Len(u) : sum[k] = sum[k - 1] + Share(u, k)
    /\ \A k \in 0 .. Len(u) : sum[k] \in Int

LEMMA ShareType ==
    ASSUME NEW C, NEW u \in Seq(C), NEW k \in 1 .. Len(u)
    PROVE  Weight(u, k) \in Int /\ Share(u, k) \in Int
<1>1. Point(u) \in Int /\ Places \in Int /\ k \in Int
      BY PointAt, WidthAssumption
<1>2. Weight(u, k) \in Int
      BY <1>1 DEF Weight
<1>3. CASE u[k] \in 0 .. 9 /\ Weight(u, k) >= 0
  <2>0. Weight(u, k) \in Nat
        BY <1>2, <1>3
  <2>1. Ten[Weight(u, k)] \in Int
        BY <2>0, PowerAt
  <2>. QED
       BY <1>2, <1>3, <2>1 DEF Share
<1>4. CASE ~(u[k] \in 0 .. 9 /\ Weight(u, k) >= 0)
      BY <1>2, <1>4 DEF Share
<1>. QED
     BY <1>2, <1>3, <1>4

\* The magnitude is what the characters contribute.
LEMMA MagnitudeRun ==
    ASSUME NEW C, NEW u \in Seq(C)
    PROVE  \E sum : Contribute(sum, u)
<1>. DEFINE shares == [i \in DOMAIN u |-> Share(u, i)]
<1>1. DOMAIN u = 1 .. Len(u) /\ Len(u) \in Nat
      OBVIOUS
<1>2. \A i \in 1 .. Len(u) : Share(u, i) \in Int
      BY ShareType
<1>3. shares \in Seq(Int) /\ Len(shares) = Len(u) /\ \A i \in 1 .. Len(u) : shares[i] = Share(u, i)
      BY <1>1, <1>2
<1>4. Magnitude(u) = FoldLeft(LAMBDA x, y : x + y, 0, shares)
      BY DEF Magnitude
<1>. HIDE DEF shares
<1>5. PICK sum : /\ Adds(sum, shares) /\ \A k \in 0 .. Len(shares) : sum[k] \in Int
                 /\ FoldLeft(LAMBDA x, y : x + y, 0, shares) = sum[Len(shares)]
      BY <1>3, SumRun
<1>6. Contribute(sum, u)
      BY <1>3, <1>4, <1>5 DEF Adds, Contribute
<1>. QED
     BY <1>6

\* A digit more, of the weight w, where the digits before it are worth a.
LEMMA DigitTaken ==
    ASSUME NEW v \in Int, NEW d \in 0 .. 9, NEW w \in Nat, NEW a \in Int,
           Same(v * Ten[w + 1], a)
    PROVE  /\ Wrap(v * 10 + d) \in Int
           /\ Same(Wrap(v * 10 + d) * Ten[w], a + d * Ten[w])
<1>1. Ten[w] \in Int /\ Ten[w + 1] = 10 * Ten[w] /\ Ten[w + 1] \in Int
      BY PowerAt
<1>2. v * 10 + d \in Int /\ d * Ten[w] \in Int /\ v * Ten[w + 1] \in Int
      BY <1>1
<1>3. Wrap(v * 10 + d) \in Int /\ Same(Wrap(v * 10 + d), v * 10 + d)
      BY <1>2, SameWrap
<1>4. Same(Wrap(v * 10 + d) * Ten[w], (v * 10 + d) * Ten[w])
      BY <1>1, <1>2, <1>3, SameTimes
<1>5. (v * 10 + d) * Ten[w] = v * Ten[w + 1] + d * Ten[w]
  <2>1. (v * 10 + d) * Ten[w] = (v * 10) * Ten[w] + d * Ten[w]
        BY <1>1
  <2>2. (v * 10) * Ten[w] = v * (10 * Ten[w])
        BY <1>1
  <2>. QED
       BY <1>1, <2>1, <2>2
<1>6. Same(v * Ten[w + 1] + d * Ten[w], a + d * Ten[w])
      BY <1>2, SameItself, SamePlus
<1>7. a + d * Ten[w] \in Int /\ Wrap(v * 10 + d) * Ten[w] \in Int
      BY <1>1, <1>2, <1>3
<1>8. v * Ten[w + 1] + d * Ten[w] \in Int
      BY <1>2
<1>. QED
     BY <1>3, <1>4, <1>5, <1>6, <1>7, <1>8, SameThrough

\* What is made of the digits before the point, scaled, is what they contribute, and what is
\* made of those behind it and filled up, what these do, wherever a register wraps around.
LEMMA IntegerScanned ==
    ASSUME NEW u, Unsigned(u), NEW sum, Contribute(sum, u)
    PROVE  LET part == Scanned(SubSeq(u, 1, Point(u) - 1), Len(u))
           IN  /\ part \in Parts /\ Same(part.value * SCALE, sum[Point(u) - 1])
<1>. DEFINE p == Point(u)
            s == SubSeq(u, 1, p - 1)
            C == (0 .. 9) \cup {Dot}
<1>1. /\ u \in Seq(C) /\ Len(u) \in Nat /\ Places \in Nat /\ p \in 1 .. Len(u) + 1
      /\ \A i \in 1 .. p - 1 : u[i] # Dot
      BY PointAt, WidthAssumption DEF Unsigned
<1>2. s \in Seq(C) /\ Len(s) = p - 1 /\ \A k \in 1 .. p - 1 : s[k] = u[k] /\ u[k] \in 0 .. 9
      BY <1>1
<1>. HIDE DEF s, C
<1>3. PICK acc : Scans(acc, s, Len(u)) /\ Scanned(s, Len(u)) = acc[p - 1]
      BY <1>1, <1>2, ScanRun
<1>. HIDE DEF p
<1>. DEFINE Good(k) == /\ acc[k] \in Parts /\ acc[k].digits = k
                       /\ Same(acc[k].value * Ten[Places + p - 1 - k], sum[k])
            S == {k \in Nat : k <= p - 1 => Good(k)}
<1>4. Good(0)
  <2>1. acc[0] = Nothing /\ sum[0] = 0
        BY <1>3 DEF Scans, Contribute
  <2>0. Places + p - 1 - 0 \in Nat
        BY <1>1
  <2>2. Ten[Places + p - 1 - 0] \in Int
        BY <2>0, PowerAt
  <2>3. 0 * Ten[Places + p - 1 - 0] = 0
        BY <2>2
  <2>. QED
       BY <2>1, <2>3, SameItself DEF Nothing, Parts
<1>5. ASSUME NEW k \in Nat, k + 1 <= p - 1, Good(k) PROVE Good(k + 1)
  <2>. DEFINE w == Places + p - 1 - (k + 1)
              d == u[k + 1]
              v == acc[k].value
  <2>0. w \in Nat /\ w + 1 \in Nat
        BY <1>1, <1>5
  <2>1. /\ k + 1 \in 1 .. p - 1 /\ (k + 1) - 1 = k /\ k + 1 \in 1 .. Len(u) /\ k \in 0 .. Len(u)
        /\ w \in Nat /\ w + 1 = Places + p - 1 - k /\ k < Len(u)
        BY <1>1, <1>5
  <2>2. d \in 0 .. 9 /\ s[k + 1] = d
        BY <1>2, <2>1
  <2>3. acc[k + 1] = TakeIn(acc[k], d, Len(u))
        BY <1>2, <1>3, <2>1, <2>2 DEF Scans
  <2>4. v \in Int /\ acc[k].digits = k
        BY <1>5 DEF Parts
  <2>5. acc[k + 1] = [value |-> Wrap(v * 10 + d), digits |-> k + 1]
        BY <2>1, <2>2, <2>3, <2>4 DEF TakeIn
  <2>6. Share(u, k + 1) = d * Ten[w]
    <3>1. Weight(u, k + 1) = w
          BY <1>1, <2>1 DEF Weight, p
    <3>. QED
         BY <2>1, <2>2, <3>1 DEF Share
  <2>7. sum[k + 1] = sum[k] + d * Ten[w] /\ sum[k] \in Int
        BY <2>1, <2>6 DEF Contribute
  <2>8. Same(v * Ten[w + 1], sum[k])
        BY <1>5, <2>1
  <2>9. Wrap(v * 10 + d) \in Int /\ Same(Wrap(v * 10 + d) * Ten[w], sum[k + 1])
    <3>. HIDE DEF w, d, v
    <3>. QED
         BY <2>0, <2>2, <2>4, <2>7, <2>8, DigitTaken
  <2>. QED
       BY <2>1, <2>5, <2>9 DEF Parts, w
<1>6. p - 1 \in S
  <2>1. \A k \in Nat : k \in S <=> (k <= p - 1 => Good(k))
    <3>. HIDE DEF Good
    <3>. QED
         OBVIOUS
  <2>. HIDE DEF S, Good
  <2>2. 0 \in S
        BY <1>4, <2>1
  <2>3. ASSUME NEW k \in Nat, k \in S PROVE k + 1 \in S
    <3>1. k + 1 <= p - 1 => k <= p - 1
          BY <1>1
    <3>. QED
         BY <1>5, <2>1, <2>3, <3>1
  <2>4. Nat \subseteq S
        BY <2>2, <2>3, Counting
  <2>. QED
       BY <1>1, <2>4
<1>7. Good(p - 1)
      BY <1>1, <1>6
<1>8. Places + p - 1 - (p - 1) = Places
      BY <1>1
<1>. QED
     BY <1>3, <1>7, <1>8 DEF SCALE, p, s

LEMMA FractionScanned ==
    ASSUME NEW u, Unsigned(u), NEW sum, Contribute(sum, u), Point(u) <= Len(u)
    PROVE  LET part == Scanned(SubSeq(u, Point(u) + 1, Len(u)), Places)
           IN  Padded(part) \in Int /\ Same(Padded(part), sum[Len(u)] - sum[Point(u)])
<1>. DEFINE p == Point(u)
            n == Len(u) - p
            s == SubSeq(u, p + 1, Len(u))
            C == (0 .. 9) \cup {Dot}
<1>1. /\ u \in Seq(C) /\ Len(u) \in Nat /\ Places \in Nat /\ p \in 1 .. Len(u) /\ n \in Nat
      /\ u[p] = Dot
      BY PointAt, WidthAssumption DEF Unsigned
<1>2. s \in Seq(C) /\ Len(s) = n
      BY <1>1
<1>3. ASSUME NEW k \in 1 .. n PROVE s[k] = u[p + k] /\ u[p + k] \in 0 .. 9
  <2>1. p + k \in 1 .. Len(u) /\ p + k # p /\ k \in 1 .. Len(s) /\ p \in 1 .. Len(u)
        BY <1>1, <1>2
  <2>2. s[k] = u[(p + 1) + k - 1] /\ (p + 1) + k - 1 = p + k
    <3>1. p + 1 \in Int /\ Len(u) \in Int /\ k \in 1 .. Len(u) - (p + 1) + 1
          BY <1>1
    <3>2. \A j \in p + 1 .. Len(u) : u[j] \in C
          BY <1>1
    <3>3. \A j \in 1 .. Len(u) - (p + 1) + 1 : s[j] = u[(p + 1) + j - 1]
      <4>. HIDE DEF p, C
      <4>. QED
           BY <3>1, <3>2, SubSeqProperties
    <3>4. s[k] = u[(p + 1) + k - 1]
          BY <3>1, <3>3
    <3>. QED
         BY <1>1, <3>4
  <2>3. u[p + k] \in C /\ u[p + k] # Dot
        BY <1>1, <2>1 DEF Unsigned
  <2>. QED
       BY <2>2, <2>3
<1>. HIDE DEF s, C
<1>4. PICK acc : Scans(acc, s, Places) /\ Scanned(s, Places) = acc[n]
      BY <1>1, <1>2, ScanRun
<1>. DEFINE Good(k) == /\ acc[k] \in Parts /\ acc[k].digits = (IF k <= Places THEN k ELSE Places)
                       /\ Same(Padded(acc[k]), sum[p + k] - sum[p])
            S == {k \in Nat : k <= n => Good(k)}
<1>5. sum[p] \in Int /\ \A k \in 0 .. n : sum[p + k] \in Int
      BY <1>1 DEF Contribute
<1>. HIDE DEF p, n
<1>6. Good(0)
  <2>1. acc[0] = Nothing /\ p + 0 = p /\ sum[p] - sum[p] = 0
        BY <1>1, <1>4, <1>5 DEF Scans
  <2>0. Places - 0 \in Nat
        BY <1>1
  <2>2. Ten[Places - 0] \in Int
        BY <2>0, PowerAt
  <2>3. Padded(acc[0]) = 0
        BY <2>1, <2>2 DEF Nothing, Padded
  <2>. QED
       BY <1>1, <2>1, <2>3, SameItself DEF Nothing, Parts
<1>7. ASSUME NEW k \in Nat, k + 1 <= n, Good(k) PROVE Good(k + 1)
  <2>. DEFINE d == u[p + (k + 1)]
              v == acc[k].value
  <2>1. /\ k + 1 \in 1 .. n /\ (k + 1) - 1 = k /\ k \in 0 .. n /\ k + 1 \in 0 .. n
        /\ p + (k + 1) \in 1 .. Len(u) /\ p + (k + 1) - 1 = p + k
    <3>1. p \in Nat \ {0} /\ n = Len(u) - p /\ Len(u) \in Nat /\ n \in Nat /\ k \in Nat /\ k + 1 <= n
          BY <1>1, <1>7 DEF n
    <3>. QED
         BY <3>1
  <2>2. d \in 0 .. 9 /\ s[k + 1] = d
        BY <1>3, <2>1
  <2>3. acc[k + 1] = TakeIn(acc[k], d, Places)
        BY <1>2, <1>4, <2>1, <2>2 DEF Scans
  <2>4. v \in Int /\ acc[k].digits = (IF k <= Places THEN k ELSE Places)
        BY <1>7 DEF Parts
  <2>5. Weight(u, p + (k + 1)) = Places - (k + 1)
        BY <1>1, <2>1 DEF Weight, p
  <2>6. sum[p + (k + 1)] = sum[p + k] + Share(u, p + (k + 1))
    <3>1. \A q \in 1 .. Len(u) : sum[q] = sum[q - 1] + Share(u, q)
          BY DEF Contribute
    <3>2. p + (k + 1) \in Int /\ p \in Int /\ k \in Int
          BY <1>1
    <3>. HIDE DEF d, v
    <3>. QED
         BY <2>1, <3>1, <3>2
  <2>7. sum[p] \in Int /\ sum[p + k] \in Int /\ sum[p + (k + 1)] \in Int
        BY <1>5, <2>1
  <2>8. CASE k < Places
    <3>. DEFINE w == Places - (k + 1)
                a == sum[p + k] - sum[p]
    <3>1. w \in Nat /\ w + 1 = Places - k /\ k <= Places /\ k + 1 <= Places
          BY <1>1, <2>8
    <3>2. acc[k + 1] = [value |-> Wrap(v * 10 + d), digits |-> k + 1]
          BY <2>2, <2>3, <2>4, <2>8, <3>1 DEF TakeIn
    <3>3. Share(u, p + (k + 1)) = d * Ten[w]
          BY <2>2, <2>5, <3>1 DEF Share
    <3>4. a \in Int /\ Same(v * Ten[w + 1], a)
          BY <1>7, <2>4, <2>7, <3>1 DEF Padded
    <3>5. Wrap(v * 10 + d) \in Int /\ Same(Wrap(v * 10 + d) * Ten[w], a + d * Ten[w])
      <4>. HIDE DEF w, d, v, a
      <4>. QED
           BY <2>2, <2>4, <3>1, <3>4, DigitTaken
    <3>6. Padded(acc[k + 1]) = Wrap(v * 10 + d) * Ten[w]
          BY <3>2 DEF Padded
    <3>7. a + d * Ten[w] = sum[p + (k + 1)] - sum[p]
      <4>0. Ten[w] \in Int
            BY <3>1, PowerAt
      <4>1. d * Ten[w] \in Int
            BY <2>2, <4>0
      <4>. QED
           BY <2>6, <2>7, <3>3, <4>1
    <3>. QED
         BY <3>1, <3>2, <3>5, <3>6, <3>7 DEF Parts
  <2>9. CASE ~(k < Places)
    <3>1. k >= Places /\ ~(k + 1 <= Places) /\ ~(Places - (k + 1) >= 0)
          BY <1>1, <2>9
    <3>2. acc[k].digits = Places
          BY <1>1, <2>4, <3>1
    <3>3. acc[k + 1] = acc[k]
          BY <1>1, <2>3, <3>2 DEF TakeIn
    <3>4. Share(u, p + (k + 1)) = 0
          BY <2>5, <3>1 DEF Share
    <3>5. sum[p + (k + 1)] = sum[p + k]
          BY <2>6, <2>7, <3>4
    <3>. QED
         BY <1>7, <3>1, <3>2, <3>3, <3>5
  <2>. QED
       BY <2>8, <2>9
<1>8. Good(n)
  <2>1. \A k \in Nat : k \in S <=> (k <= n => Good(k))
    <3>. HIDE DEF Good
    <3>. QED
         OBVIOUS
  <2>. HIDE DEF S, Good
  <2>2. 0 \in S
        BY <1>6, <2>1
  <2>3. ASSUME NEW k \in Nat, k \in S PROVE k + 1 \in S
    <3>1. k + 1 <= n => k <= n
          BY <1>1
    <3>. QED
         BY <1>7, <2>1, <2>3, <3>1
  <2>4. Nat \subseteq S
        BY <2>2, <2>3, Counting
  <2>. QED
       BY <1>1, <2>1, <2>4
<1>9. Padded(acc[n]) \in Int
  <2>1. acc[n].value \in Int /\ Places - acc[n].digits \in Nat
        BY <1>1, <1>8 DEF Parts
  <2>2. Ten[Places - acc[n].digits] \in Int
        BY <2>1, PowerAt
  <2>. QED
       BY <2>1, <2>2 DEF Padded
<1>10. p + n = Len(u)
       BY <1>1 DEF n
<1>. QED
     BY <1>4, <1>8, <1>9, <1>10 DEF p, s

\* What from_string() makes of a text without a sign.
Parsed(u) ==
    LET integer_part == Scanned(SubSeq(u, 1, Point(u) - 1), Len(u)).value
        fraction == Scanned(SubSeq(u, Point(u) + 1, Len(u)), Places)
    IN  Wrap(Wrap(integer_part * SCALE) + Padded(fraction))

\* Together they are the magnitude.
LEMMA UnsignedParsed ==
    ASSUME NEW u, Unsigned(u)
    PROVE  Magnitude(u) \in Int /\ Parsed(u) = Wrap(Magnitude(u))
<1>. DEFINE p == Point(u)
            n == Len(u)
            I == Scanned(SubSeq(u, 1, Point(u) - 1), Len(u))
            i == I.value * SCALE
            f == Padded(Scanned(SubSeq(u, Point(u) + 1, Len(u)), Places))
<1>1. u \in Seq((0 .. 9) \cup {Dot}) /\ n \in Nat /\ p \in 1 .. n + 1
      BY PointAt DEF Unsigned
<1>2. PICK sum : Contribute(sum, u)
      BY <1>1, MagnitudeRun
<1>3. sum[p - 1] \in Int /\ sum[n] \in Int /\ Magnitude(u) = sum[n]
      BY <1>1, <1>2 DEF Contribute
<1>4. i \in Int /\ Same(i, sum[p - 1])
  <2>1. I \in Parts /\ Same(I.value * SCALE, sum[p - 1])
        BY <1>2, IntegerScanned
  <2>2. SCALE \in Int
        BY WidthAssumption, PowerAt DEF SCALE
  <2>. HIDE DEF I
  <2>. QED
       BY <2>1, <2>2 DEF Parts
<1>5. f \in Int /\ Same(f, sum[n] - sum[p - 1])
  <2>1. CASE p <= n
    <3>0. u[p] = Dot
          BY <1>1, <2>1, PointAt
    <3>1. p \in 1 .. n /\ u[p] \notin 0 .. 9
      <4>1. Dot \notin 0 .. 9
            BY TextsAssumption
      <4>2. p \in 1 .. n
            BY <1>1, <2>1
      <4>. HIDE DEF p
      <4>. QED
           BY <3>0, <4>1, <4>2
    <3>2. Share(u, p) = 0
          BY <3>1 DEF Share
    <3>3. sum[p] = sum[p - 1]
          BY <1>2, <1>3, <3>1, <3>2 DEF Contribute
    <3>. QED
         BY <1>2, <2>1, <3>3, FractionScanned
  <2>2. CASE ~(p <= n)
    <3>1. p = n + 1 /\ p - 1 = n /\ sum[n] - sum[p - 1] = 0
          BY <1>1, <1>3, <2>2
    <3>. DEFINE s == SubSeq(u, p + 1, n)
    <3>2. s = <<>> /\ s \in Seq({}) /\ Len(s) = 0 /\ Places \in Nat
          BY <1>1, <3>1, WidthAssumption
    <3>. HIDE DEF s
    <3>3. Scanned(s, Places) = Nothing
          BY <3>2, ScanRun DEF Scans
    <3>4. Padded(Nothing) = 0
      <4>0. Places - 0 \in Nat
            BY <3>2
      <4>1. Ten[Places - 0] \in Int
            BY <4>0, PowerAt
      <4>. QED
           BY <4>1 DEF Padded, Nothing
    <3>5. f = 0
          BY <3>3, <3>4 DEF s
    <3>. HIDE DEF f
    <3>. QED
         BY <3>1, <3>5, SameItself
  <2>. QED
       BY <2>1, <2>2
<1>6. Parsed(u) = Wrap(Wrap(i) + f)
      BY DEF Parsed
<1>. HIDE DEF i, f, I
<1>7. Wrap(i) \in Int /\ Same(Wrap(i), sum[p - 1])
  <2>1. Wrap(i) \in Int /\ Same(Wrap(i), i)
        BY <1>4, SameWrap
  <2>. QED
       BY <1>3, <1>4, <2>1, SameThrough
<1>8. Same(Wrap(i) + f, sum[p - 1] + (sum[n] - sum[p - 1]))
  <2>1. sum[n] - sum[p - 1] \in Int
        BY <1>3
  <2>. QED
       BY <1>3, <1>5, <1>7, <2>1, SamePlus
<1>9. sum[p - 1] + (sum[n] - sum[p - 1]) = sum[n] /\ Wrap(i) + f \in Int
      BY <1>3, <1>5, <1>7
<1>10. Wrap(Wrap(i) + f) = Wrap(sum[n])
       BY <1>3, <1>8, <1>9, WrapOfSame
<1>. QED
     BY <1>3, <1>6, <1>10

LEMMA WithSign ==
    ASSUME NEW u, Unsigned(u), NEW s, s = <<Minus>> \o u
    PROVE  /\ s # <<>> /\ s[1] = Minus /\ Tail(s) = u /\ Len(s) = Len(u) + 1
           /\ s \in Seq((0 .. 9) \cup {Dot, Minus})
           /\ \A i \in 1 .. Len(u) : s[i + 1] = u[i]
<1>. DEFINE C == (0 .. 9) \cup {Dot, Minus}
<1>1. u \in Seq(C) /\ <<Minus>> \in Seq(C) /\ Len(u) \in Nat
      BY DEF Unsigned
<1>2. s \in Seq(C) /\ Len(s) = Len(u) + 1
      BY <1>1
<1>3. s[1] = Minus /\ \A i \in 1 .. Len(u) : s[i + 1] = u[i]
      BY <1>1
<1>. HIDE DEF C
<1>4. s # <<>>
      BY <1>1, <1>2
<1>5. Tail(s) \in Seq(C) /\ Len(Tail(s)) = Len(u) /\ \A i \in 1 .. Len(u) : Tail(s)[i] = s[i + 1]
      BY <1>1, <1>2, <1>4, HeadTailProperties
<1>6. Tail(s) = u
      BY <1>1, <1>3, <1>5, SeqEqual
<1>. QED
     BY <1>2, <1>3, <1>4, <1>6 DEF C

\* A number is parsed to what is left in a register of its magnitude, with its sign.
LEMMA NumberParsed ==
    ASSUME NEW u, Unsigned(u)
    PROVE  /\ from_string(u) = Wrap(Magnitude(u))
           /\ from_string(<<Minus>> \o u) = Wrap(-Magnitude(u))
<1>1. Magnitude(u) \in Int /\ Parsed(u) = Wrap(Magnitude(u))
      BY UnsignedParsed
<1>2. ~(u # <<>> /\ u[1] = Minus)
  <2>1. u # <<>> => u[1] \in (0 .. 9) \cup {Dot}
        BY DEF Unsigned
  <2>2. Minus \notin (0 .. 9) \cup {Dot}
        BY TextsAssumption
  <2>. QED
       BY <2>1, <2>2
<1>3. from_string(u) = Parsed(u)
      BY <1>2 DEF from_string, Parsed
<1>4. from_string(<<Minus>> \o u) = Wrap(-Parsed(u))
  <2>. DEFINE s == <<Minus>> \o u
  <2>1. s # <<>> /\ s[1] = Minus /\ Tail(s) = u
        BY WithSign
  <2>. HIDE DEF s
  <2>2. from_string(s) = Wrap(-Parsed(u))
        BY <2>1 DEF from_string, Parsed
  <2>. QED
       BY <2>2 DEF s
<1>5. Wrap(-Parsed(u)) = Wrap(-Magnitude(u))
  <2>. DEFINE m == Magnitude(u)
  <2>1. m \in Int /\ Parsed(u) = Wrap(m)
        BY <1>1
  <2>. HIDE DEF m
  <2>2. Wrap(m) \in Int /\ Same(Wrap(m), m)
        BY <2>1, SameWrap
  <2>3. Same(Wrap(m) * (-1), m * (-1))
        BY <2>1, <2>2, SameTimes
  <2>4. Wrap(m) * (-1) = -Wrap(m) /\ m * (-1) = -m /\ -Wrap(m) \in Int /\ -m \in Int
        BY <2>1, <2>2
  <2>5. Wrap(-Wrap(m)) = Wrap(-m)
        BY <2>3, <2>4, WrapOfSame
  <2>. QED
       BY <2>1, <2>5 DEF m
<1>. QED
     BY <1>1, <1>3, <1>4, <1>5

\* The sign counts nothing.
LEMMA SignCountsNothing ==
    ASSUME NEW u, Unsigned(u), NEW s, s = <<Minus>> \o u
    PROVE  Magnitude(s) = Magnitude(u)
<1>. DEFINE C == (0 .. 9) \cup {Dot, Minus}
            n == Len(u)
            p == Point(u)
<1>1. /\ u \in Seq(C) /\ s \in Seq(C) /\ n \in Nat /\ Len(s) = n + 1 /\ s[1] = Minus
      /\ \A i \in 1 .. n : s[i + 1] = u[i]
      BY WithSign DEF Unsigned
<1>2. Minus # Dot /\ Minus \notin 0 .. 9
      BY TextsAssumption
<1>3. /\ p \in 1 .. n + 1 /\ (\A i \in 1 .. p - 1 : u[i] # Dot) /\ (p <= n => u[p] = Dot)
      BY <1>1, PointAt
<1>. DEFINE q == Point(s)
<1>4. /\ q \in 1 .. (n + 1) + 1 /\ (\A i \in 1 .. q - 1 : s[i] # Dot) /\ (q <= n + 1 => s[q] = Dot)
      BY <1>1, PointAt
<1>. HIDE DEF C, n, p, q
<1>5. q = p + 1
  <2>1. CASE q < p + 1
    <3>1. q <= n + 1 /\ s[q] = Dot /\ q # 1
          BY <1>1, <1>2, <1>3, <1>4, <2>1
    <3>2. q - 1 \in 1 .. n /\ q - 1 \in 1 .. p - 1 /\ (q - 1) + 1 = q
          BY <1>1, <1>3, <1>4, <2>1, <3>1
    <3>3. u[q - 1] = Dot
          BY <1>1, <3>1, <3>2
    <3>. QED
         BY <1>3, <3>2, <3>3
  <2>2. CASE q > p + 1
    <3>1. p \in 1 .. n /\ p + 1 \in 1 .. q - 1
          BY <1>1, <1>3, <1>4, <2>2
    <3>2. s[p + 1] = Dot
          BY <1>1, <1>3, <3>1
    <3>. QED
         BY <1>4, <3>1, <3>2
  <2>. QED
       BY <1>3, <1>4, <2>1, <2>2
<1>6. Share(s, 1) = 0
      BY <1>1, <1>2 DEF Share
<1>7. ASSUME NEW i \in 1 .. n PROVE Share(s, i + 1) = Share(u, i)
  <2>1. Weight(s, i + 1) = Weight(u, i)
    <3>1. i + 1 < q <=> i < p
          BY <1>1, <1>3, <1>5
    <3>2. Places + q - 1 - (i + 1) = Places + p - 1 - i /\ Places + q - (i + 1) = Places + p - i
          BY <1>1, <1>3, <1>5, WidthAssumption
    <3>. QED
         BY <3>1, <3>2 DEF Weight, p, q
  <2>2. s[i + 1] = u[i]
        BY <1>1
  <2>. QED
       BY <2>1, <2>2 DEF Share
<1>8. PICK a : Contribute(a, s)
      BY <1>1, MagnitudeRun
<1>9. PICK b : Contribute(b, u)
      BY <1>1, MagnitudeRun
<1>10. /\ a[0] = 0 /\ Magnitude(s) = a[n + 1]
       /\ \A k \in 1 .. n + 1 : a[k] = a[k - 1] + Share(s, k)
       BY <1>1, <1>8 DEF Contribute
<1>11. /\ b[0] = 0 /\ Magnitude(u) = b[n]
       /\ \A k \in 1 .. n : b[k] = b[k - 1] + Share(u, k)
       BY <1>1, <1>9 DEF Contribute, n
<1>. DEFINE S == {k \in Nat : k <= n => a[k + 1] = b[k]}
<1>12. 0 \in S
  <2>1. 1 \in 1 .. n + 1 /\ 0 + 1 = 1 /\ 1 - 1 = 0
        BY <1>1
  <2>2. a[0 + 1] = b[0]
        BY <1>6, <1>10, <1>11, <2>1
  <2>. QED
       BY <2>2
<1>13. ASSUME NEW k \in Nat, k \in S PROVE k + 1 \in S
  <2>1. SUFFICES ASSUME k + 1 <= n PROVE a[(k + 1) + 1] = b[k + 1]
        OBVIOUS
  <2>2. /\ (k + 1) + 1 \in 1 .. n + 1 /\ ((k + 1) + 1) - 1 = k + 1
        /\ k + 1 \in 1 .. n /\ (k + 1) - 1 = k /\ k <= n
        BY <1>1, <2>1
  <2>3. a[k + 1] = b[k]
        BY <1>13, <2>2
  <2>4. a[(k + 1) + 1] = a[k + 1] + Share(s, (k + 1) + 1)
        BY <1>10, <2>2
  <2>5. b[k + 1] = b[k] + Share(u, k + 1)
        BY <1>11, <2>2
  <2>6. Share(s, (k + 1) + 1) = Share(u, k + 1)
        BY <1>7, <2>2
  <2>. QED
       BY <2>3, <2>4, <2>5, <2>6
<1>. HIDE DEF S
<1>14. Nat \subseteq S
       BY <1>12, <1>13, Counting
<1>15. a[n + 1] = b[n]
       BY <1>1, <1>14 DEF S
<1>. QED
     BY <1>10, <1>11, <1>15

\* Any number is parsed to what is left of it in a register.
LEMMA NumbersParsed ==
    ASSUME NEW C, NEW s \in Seq(C), IsNumber(s)
    PROVE  from_string(s) = Wrap(Number(s))
<1>1. DOMAIN s = 1 .. Len(s) /\ Len(s) \in Nat
      OBVIOUS
<1>2. 1 \in DOMAIN s /\ s # <<>>
      BY <1>1 DEF IsNumber
<1>3. CASE s[1] # Minus
  <2>1. \A i \in 1 .. Len(s) : s[i] \in (0 .. 9) \cup {Dot}
        BY <1>1, <1>3 DEF IsNumber
  <2>2. s \in Seq((0 .. 9) \cup {Dot})
        BY <1>1, <2>1
  <2>3. Unsigned(s)
        BY <2>2 DEF Unsigned, IsNumber
  <2>. QED
       BY <1>3, <2>3, NumberParsed DEF Number
<1>4. CASE s[1] = Minus
  <2>. DEFINE u == Tail(s)
  <2>1. u \in Seq(C) /\ Len(u) = Len(s) - 1 /\ \A i \in 1 .. Len(u) : u[i] = s[i + 1]
        BY <1>2, HeadTailProperties
  <2>. HIDE DEF u
  <2>2. DOMAIN u = 1 .. Len(u) /\ Len(u) \in Nat
        BY <2>1
  <2>3. ASSUME NEW i \in 1 .. Len(u)
        PROVE  i + 1 \in DOMAIN s /\ i + 1 # 1 /\ u[i] = s[i + 1] /\ u[i] \in (0 .. 9) \cup {Dot}
    <3>1. i + 1 \in DOMAIN s /\ i + 1 # 1 /\ u[i] = s[i + 1]
          BY <1>1, <2>1, <2>2
    <3>2. s[i + 1] \in (0 .. 9) \cup {Dot} \cup {}
          BY <3>1 DEF IsNumber
    <3>. QED
         BY <3>1, <3>2
  <2>4. u \in Seq((0 .. 9) \cup {Dot})
        BY <2>1, <2>2, <2>3
  <2>5. ASSUME NEW i \in DOMAIN u, NEW j \in DOMAIN u, u[i] = Dot, u[j] = Dot PROVE i = j
    <3>1. i + 1 = j + 1
          BY <2>2, <2>3, <2>5 DEF IsNumber
    <3>. QED
         BY <2>2, <3>1
  <2>6. Unsigned(u)
        BY <2>4, <2>5 DEF Unsigned
  <2>7. s = <<Minus>> \o u
    <3>1. <<Minus>> \in Seq(C) /\ <<Minus>> \o u \in Seq(C) /\ Len(<<Minus>> \o u) = Len(s)
      <4>1. Minus \in C
            BY <1>1, <1>2, <1>4
      <4>2. <<Minus>> \in Seq(C) /\ Len(<<Minus>>) = 1
            BY <4>1
      <4>3. <<Minus>> \o u \in Seq(C)
            BY <2>1, <4>2
      <4>4. Len(<<Minus>> \o u) = 1 + Len(u)
            BY <2>1, <4>2
      <4>5. Len(s) \in Nat /\ Len(u) = Len(s) - 1
            BY <1>2, <2>1
      <4>6. Len(<<Minus>> \o u) = Len(s)
            BY <2>2, <4>4, <4>5
      <4>. QED
           BY <4>2, <4>3, <4>6
    <3>2. ASSUME NEW i \in 1 .. Len(s) PROVE (<<Minus>> \o u)[i] = s[i]
      <4>1. CASE i = 1
            BY <1>4, <2>1, <4>1
      <4>2. CASE i # 1
        <5>1. i - 1 \in 1 .. Len(u) /\ (i - 1) + 1 = i
              BY <1>1, <2>1, <4>2
        <5>2. (<<Minus>> \o u)[i] = u[i - 1]
          <6>1. <<Minus>> \in Seq(C) /\ Len(<<Minus>>) = 1
                BY <3>1
          <6>2. i \in 1 .. 1 + Len(u) /\ i > 1 /\ i - 1 \in 1 .. Len(u)
                BY <2>2, <3>2, <3>1, <4>2, <5>1
          <6>. QED
               BY <2>1, <6>1, <6>2
        <5>. QED
             BY <2>1, <5>1, <5>2
      <4>. QED
           BY <4>1, <4>2
    <3>. QED
         BY <3>1, <3>2, SeqEqual
  <2>8. Number(s) = -Magnitude(u)
        BY <1>4, <2>6, <2>7, SignCountsNothing DEF Number
  <2>. QED
       BY <2>6, <2>7, <2>8, NumberParsed
<1>. QED
     BY <1>3, <1>4

\* A calculation that starts from a text.
PriceSpec == PriceInit /\ [][PriceNext]_priceVars

LEMMA InitInRange == PriceInit => PriceInv
<1>. SUFFICES ASSUME NEW s \in Texts PROVE from_string(s) \in min .. max
     BY DEF PriceInit, PriceInv
<1>. DEFINE C == {s[i] : i \in DOMAIN s}
            number == IF s # <<>> /\ s[1] = Minus THEN Tail(s) ELSE s
            p == Point(number)
            integer_part == Scanned(SubSeq(number, 1, p - 1), Len(number)).value
            fraction == Scanned(SubSeq(number, p + 1, Len(number)), Places)
            final_value == Wrap(Wrap(integer_part * SCALE) + Padded(fraction))
<1>1. s \in Seq(C)
      BY TextsAssumption
<1>. HIDE DEF C
<1>2. number \in Seq(C)
  <2>1. CASE s # <<>>
        BY <1>1, <2>1, HeadTailProperties
  <2>2. CASE s = <<>>
        BY <1>1, <2>2
  <2>. QED
       BY <2>1, <2>2
<1>3. /\ from_string(s) = Wrap(-final_value) \/ from_string(s) = final_value
      BY DEF from_string
<1>. HIDE DEF number
<1>4. Len(number) \in Nat /\ p \in 1 .. Len(number) + 1 /\ Places \in Nat
      BY <1>2, PointAt, WidthAssumption
<1>. HIDE DEF p
<1>5. /\ SubSeq(number, 1, p - 1) \in Seq(C)
      /\ SubSeq(number, p + 1, Len(number)) \in Seq(C)
      BY <1>2, <1>4
<1>6. integer_part \in Int
  <2>1. Scanned(SubSeq(number, 1, p - 1), Len(number)) \in Parts
        BY <1>4, <1>5, ScannedType
  <2>. QED
       BY <2>1 DEF Parts
<1>7. Padded(fraction) \in Int
  <2>1. fraction \in Parts /\ fraction.digits <= Places
        BY <1>4, <1>5, ScannedType
  <2>. HIDE DEF fraction
  <2>2. fraction.value \in Int /\ Places - fraction.digits \in Nat
        BY <1>4, <2>1 DEF Parts
  <2>3. Ten[Places - fraction.digits] \in Int
        BY <2>2, PowerAt
  <2>. QED
       BY <2>2, <2>3 DEF Padded
<1>. HIDE DEF integer_part, fraction
<1>8. integer_part * SCALE \in Int
  <2>1. SCALE \in Int
        BY <1>4, PowerAt DEF SCALE
  <2>. QED
       BY <1>6, <2>1
<1>9. Wrap(integer_part * SCALE) \in Int
      BY <1>8, SameWrap
<1>10. Wrap(integer_part * SCALE) + Padded(fraction) \in Int
       BY <1>7, <1>9
<1>11. final_value \in min .. max /\ final_value \in Int
       BY <1>10, WrapInRange, SameWrap
<1>. HIDE DEF final_value
<1>12. Wrap(-final_value) \in min .. max
  <2>1. -final_value \in Int
        BY <1>11
  <2>. QED
       BY <2>1, WrapInRange
<1>. QED
     BY <1>3, <1>11, <1>12

\* What holds of any calculation holds of those that start from a text.
LEMMA SpecCalculates == PriceSpec => CalculationSpec
BY InitInRange DEF PriceSpec, CalculationSpec

\* For every text in which a number is written, of any length, and registers of any
\* width: from_string() makes of it the price it says, what lies beyond the last place
\* cut off, or what the register keeps of it, wherever on the way it may wrap around
\* (Price::from_string()).
THEOREM NumbersAlwaysParsed == PriceSpec => []ParsedExactly
<1>. DEFINE TextInv == text \in Texts \cup {<<>>}
<1>1. PriceInit => TextInv
      BY DEF PriceInit
<1>2. TextInv /\ [PriceNext]_priceVars => TextInv'
      BY DEF PriceNext, Add, Subtract, Multiply, Divide, priceVars
<1>3. TextInv => ParsedExactly
  <2>1. CASE text = <<>>
        BY <2>1 DEF ParsedExactly, IsNumber
  <2>2. CASE text \in Texts
    <3>1. text \in Seq({text[i] : i \in DOMAIN text})
          BY <2>2, TextsAssumption
    <3>. QED
         BY <3>1, NumbersParsed DEF ParsedExactly
  <2>. QED
       BY <2>1, <2>2
<1>. QED
     BY <1>1, <1>2, <1>3, PTL DEF PriceSpec

-----------------------------------------------------------------------------
(* Digits.                                                                 *)

\* Below a power a number has no digit.
LEMMA DivSmall ==
    ASSUME NEW M \in Nat \ {0}, NEW n \in 0 .. M - 1
    PROVE  n \div M = 0
<1>1. 0 * M + n = n
      OBVIOUS
<1>. QED
     BY <1>1, DivUnique

\* What of n is left without its last q digits, and the digit it then ends in.
Left(n, q) == n \div Ten[q]
Digit(n, q) == Left(n, q) % 10

\* A digit is what dividing by the next power leaves.
LEMMA DigitSplit ==
    ASSUME NEW n \in Nat, NEW q \in Nat
    PROVE  /\ Left(n, q) \in Nat /\ Left(n, q + 1) \in Nat /\ Digit(n, q) \in 0 .. 9
           /\ Left(n, q) = Left(n, q + 1) * 10 + Digit(n, q)
<1>. DEFINE t == Ten[q]
            a == n \div t
            r == n % t
            b == a \div 10
            d == a % 10
<1>1. t \in Nat \ {0} /\ Ten[q + 1] = 10 * t
      BY PowerAt
<1>. HIDE DEF t
<1>2. a \in Nat /\ r \in 0 .. t - 1 /\ n = a * t + r
      BY <1>1, DivParts DEF Division
<1>. HIDE DEF a, r
<1>3. b \in Nat /\ d \in 0 .. 9 /\ a = b * 10 + d
      BY <1>2, DivParts DEF Division
<1>. HIDE DEF b, d
<1>4. n = b * (10 * t) + (d * t + r)
  <2>1. (b * 10 + d) * t = (b * 10) * t + d * t
        BY <1>1, <1>3
  <2>2. (b * 10) * t = b * (10 * t)
        BY <1>1, <1>3
  <2>. QED
       BY <1>1, <1>2, <1>3, <2>1, <2>2
<1>5. d * t + r \in 0 .. 10 * t - 1
  <2>1. d * t \in 0 .. 9 * t
        BY <1>1, <1>3
  <2>. QED
       BY <1>1, <1>2, <2>1
<1>6. 10 * t \in Nat \ {0} /\ b \in Int
      BY <1>1, <1>3
<1>7. (b * (10 * t) + (d * t + r)) \div (10 * t) = b
  <2>. DEFINE M == 10 * t
              x == d * t + r
  <2>1. M \in Nat \ {0} /\ x \in 0 .. M - 1
        BY <1>5, <1>6
  <2>. HIDE DEF M, x
  <2>2. (b * M + x) \div M = b
        BY <1>6, <2>1, DivUnique
  <2>. QED
       BY <2>2 DEF M, x
<1>8. Left(n, q + 1) = b
      BY <1>1, <1>4, <1>7 DEF Left
<1>9. Left(n, q) = a /\ Digit(n, q) = d
      BY DEF Left, Digit, a, b, d, t
<1>. QED
     BY <1>2, <1>3, <1>8, <1>9

\* A digit more of n is worth that much more.
LEMMA DigitWorth ==
    ASSUME NEW n \in Nat, NEW q \in Nat, NEW off \in Nat
    PROVE  /\ Left(n, q + 1) * Ten[off + (q + 1)] \in Int
           /\ Digit(n, q) * Ten[off + q] \in Int
           /\ Left(n, q + 1) * Ten[off + (q + 1)] + Digit(n, q) * Ten[off + q]
                = Left(n, q) * Ten[off + q]
<1>. DEFINE a == Left(n, q)
            b == Left(n, q + 1)
            d == Digit(n, q)
            w == Ten[off + q]
<1>1. a \in Nat /\ b \in Nat /\ d \in 0 .. 9 /\ a = b * 10 + d
      BY DigitSplit
<1>2. w \in Nat \ {0} /\ Ten[off + (q + 1)] = 10 * w
  <2>1. off + q \in Nat /\ (off + q) + 1 = off + (q + 1)
        OBVIOUS
  <2>. QED
       BY <2>1, PowerAt
<1>. HIDE DEF a, b, w, d
<1>3. b * (10 * w) + d * w = (b * 10 + d) * w
      BY <1>1, <1>2
<1>4. b * (10 * w) \in Int /\ d * w \in Int
      BY <1>1, <1>2
<1>5. b * (10 * w) + d * w = a * w
      BY <1>1, <1>3
<1>. QED
     BY <1>2, <1>4, <1>5 DEF a, b, w, d

\* The leading digits of n, as many as there are up to the power Ten[high]
\* below which n is.
Leading(t, n, high, off, len) ==
    \A j \in 1 .. len : t[j] = t[j - 1] + Digit(n, high - j) * Ten[off + (high - j)]

LEMMA DigitsWorth ==
    ASSUME NEW n \in Nat, NEW high \in Nat, n < Ten[high], NEW len \in 0 .. high, NEW off \in Nat,
           NEW t, t[0] \in Int, Leading(t, n, high, off, len)
    PROVE  t[len] = t[0] + Left(n, high - len) * Ten[off + (high - len)]
<1>. DEFINE Good(j) == t[j] = t[0] + Left(n, high - j) * Ten[off + (high - j)]
            S == {j \in Nat : j <= len => Good(j)}
<1>1. Good(0)
  <2>1. high - 0 = high /\ n \in 0 .. Ten[high] - 1 /\ Ten[high] \in Nat \ {0}
        BY PowerAt
  <2>2. Left(n, high - 0) = 0
        BY <2>1, DivSmall DEF Left
  <2>3. off + (high - 0) \in Nat
        OBVIOUS
  <2>4. Ten[off + (high - 0)] \in Int
        BY <2>3, PowerAt
  <2>. QED
       BY <2>2, <2>4
<1>2. ASSUME NEW j \in Nat, j + 1 <= len, Good(j) PROVE Good(j + 1)
  <2>. DEFINE q == high - (j + 1)
              x == Left(n, q + 1) * Ten[off + (q + 1)]
              y == Digit(n, q) * Ten[off + q]
  <2>1. q \in Nat /\ high - j = q + 1 /\ j + 1 \in 1 .. len /\ (j + 1) - 1 = j
        BY <1>2
  <2>. HIDE DEF q
  <2>2. x \in Int /\ y \in Int /\ x + y = Left(n, q) * Ten[off + q]
        BY <2>1, DigitWorth
  <2>3. t[j + 1] = t[j] + y
        BY <2>1 DEF Leading, q
  <2>4. t[j] = t[0] + x
        BY <1>2, <2>1
  <2>. HIDE DEF x, y
  <2>5. t[j + 1] = t[0] + (x + y)
        BY <2>2, <2>3, <2>4
  <2>. QED
       BY <2>2, <2>5 DEF q
<1>3. len \in S
  <2>1. \A k \in Nat : k \in S <=> (k <= len => Good(k))
    <3>. HIDE DEF Good
    <3>. QED
         OBVIOUS
  <2>. HIDE DEF S, Good
  <2>2. 0 \in S
        BY <1>1, <2>1
  <2>3. ASSUME NEW k \in Nat, k \in S PROVE k + 1 \in S
    <3>1. k + 1 <= len => k <= len
          OBVIOUS
    <3>. QED
         BY <1>2, <2>1, <2>3, <3>1
  <2>4. Nat \subseteq S
        BY <2>2, <2>3, Counting
  <2>. QED
       BY <2>4
<1>. QED
     BY <1>3

\* What ends in zeros.
LEMMA TrailingZeros ==
    ASSUME NEW n \in Nat, NEW m \in 0 .. Places,
           \A i \in m + 1 .. Places : Digit(n, Places - i) = 0
    PROVE  n = Left(n, Places - m) * Ten[Places - m]
<1>. DEFINE Good(q) == n = Left(n, q) * Ten[q]
            S == {q \in Nat : q <= Places - m => Good(q)}
<1>0. Places \in Nat /\ Places - m \in Nat
      BY WidthAssumption
<1>1. Good(0)
  <2>1. Ten[0] = 1
        BY Powers
  <2>2. n \div 1 = n
        OBVIOUS
  <2>. QED
       BY <2>1, <2>2 DEF Left
<1>2. ASSUME NEW q \in Nat, q + 1 <= Places - m, Good(q) PROVE Good(q + 1)
  <2>1. Places - q \in m + 1 .. Places /\ Places - (Places - q) = q
        BY <1>0, <1>2
  <2>2. Digit(n, q) = 0
        BY <2>1
  <2>. DEFINE a == Left(n, q)
              b == Left(n, q + 1)
              w == Ten[q]
  <2>3. a \in Nat /\ b \in Nat /\ a = b * 10 + 0
        BY <2>2, DigitSplit
  <2>4. w \in Nat \ {0} /\ Ten[q + 1] = 10 * w
        BY PowerAt
  <2>5. n = a * w
        BY <1>2
  <2>. HIDE DEF a, w, b
  <2>6. (b * 10) * w = b * (10 * w)
        BY <2>3, <2>4
  <2>7. n = b * (10 * w)
        BY <2>3, <2>5, <2>6
  <2>. QED
       BY <2>4, <2>7 DEF b
<1>3. Places - m \in S
  <2>1. \A k \in Nat : k \in S <=> (k <= Places - m => Good(k))
    <3>. HIDE DEF Good
    <3>. QED
         OBVIOUS
  <2>. HIDE DEF S, Good
  <2>2. 0 \in S
        BY <1>1, <2>1
  <2>3. ASSUME NEW k \in Nat, k \in S PROVE k + 1 \in S
    <3>1. k + 1 <= Places - m => k <= Places - m
          BY <1>0
    <3>. QED
         BY <1>2, <2>1, <2>3, <3>1
  <2>4. Nat \subseteq S
        BY <2>2, <2>3, Counting
  <2>. QED
       BY <1>0, <2>4
<1>. QED
     BY <1>0, <1>3

-----------------------------------------------------------------------------
(* What to_string() prints.                                                *)

\* s is n in so many digits, from the power Ten[high] on.
Digits(s, n, high) ==
    /\ s \in Seq(0 .. 9) /\ Len(s) \in 1 .. high
    /\ \A i \in 1 .. Len(s) : s[i] = Digit(n, high - i)

\* d is n, without a fraction; e is the fraction f, without trailing zeros.
Whole(d, n) == Digits(d, n, Len(d)) /\ n < Ten[Len(d)]
Fractions == 0 .. SCALE - 1
Composed(n, f) == n * SCALE + f
EndsAs(u, e) == Len(u) \in Nat \ {0} /\ u[Len(u)] = e[Len(e)]
Rest(e, f) == /\ Digits(e, f, Places) /\ e[Len(e)] # 0
              /\ f = Left(f, Places - Len(e)) * Ten[Places - Len(e)]

\* Decimal() yields digits.
LEMMA DecimalDigits ==
    ASSUME NEW n \in Nat, NEW k \in Nat \ {0}
    PROVE  Digits(Decimal(n, k), n, k) /\ Len(Decimal(n, k)) = k
<1>1. ASSUME NEW i \in 1 .. k PROVE Decimal(n, k)[i] = Digit(n, k - i) /\ Digit(n, k - i) \in 0 .. 9
  <2>1. k - i \in Nat
        OBVIOUS
  <2>2. Digit(n, k - i) \in 0 .. 9
        BY <2>1, DigitSplit
  <2>3. Decimal(n, k)[i] = Digit(n, k - i)
        BY DEF Decimal, Digit, Left
  <2>. QED
       BY <2>2, <2>3
<1>2. Decimal(n, k) \in [1 .. k -> 0 .. 9]
  <2>1. Decimal(n, k) = [i \in 1 .. k |-> Decimal(n, k)[i]]
        BY DEF Decimal
  <2>. QED
       BY <1>1, <2>1
<1>3. Decimal(n, k) \in Seq(0 .. 9) /\ Len(Decimal(n, k)) = k
      BY <1>2
<1>. QED
     BY <1>1, <1>3 DEF Digits

\* What is printed before the point, and behind it.
LEMMA IntegerPrinted ==
    ASSUME NEW n \in 0 .. max
    PROVE  Whole(int64_to_string(n), n)
<1>1. n \in Nat /\ max \in Nat
      BY Registers
<1>2. CASE n = 0
  <2>1. int64_to_string(n) = <<0>>
        BY <1>2 DEF int64_to_string
  <2>2. Left(0, 0) = 0 /\ Ten[1] = 10
    <3>1. Ten[0] = 1 /\ Ten[0 + 1] = 10 * Ten[0]
          BY Powers
    <3>. QED
         BY <3>1 DEF Left
  <2>3. Digit(0, 0) = 0
        BY <2>2 DEF Digit
  <2>. DEFINE s == <<0>>
  <2>4. s \in Seq(0 .. 9) /\ Len(s) = 1 /\ s[1] = 0
        OBVIOUS
  <2>. HIDE DEF s
  <2>5. \A i \in 1 .. Len(s) : i = 1 /\ Len(s) - i = 0
        BY <2>4
  <2>6. Digits(s, 0, Len(s)) /\ 0 < Ten[Len(s)]
        BY <2>2, <2>3, <2>4, <2>5 DEF Digits
  <2>. QED
       BY <1>2, <2>1, <2>6 DEF s, Whole
<1>3. CASE n # 0
  <2>. DEFINE S == {k \in 1 .. Width \div 3 + 1 : n < Ten[k]}
              k == Min(S)
  <2>1. Width \div 3 + 1 \in Nat \ {0}
        BY WidthAssumption
  <2>2. Width \div 3 + 1 \in S
    <3>1. n < 2^(Width - 1) /\ 2^(Width - 1) \in Nat
          BY <1>1, WidthAssumption DEF max
    <3>2. Ten[Width \div 3 + 1] \in Nat
          BY <2>1, PowerAt
    <3>3. n < Ten[Width \div 3 + 1]
          BY <1>1, <3>1, <3>2, DigitsAssumption
    <3>. QED
         BY <2>1, <3>3
  <2>3. S \in SUBSET Nat /\ S # {} /\ \A j \in S : j \in Nat \ {0} /\ n < Ten[j]
        BY <2>1, <2>2
  <2>4. k \in S
    <3>. HIDE DEF S
    <3>. QED
         BY <2>3, LeastOf
  <2>5. k \in Nat \ {0} /\ n < Ten[k]
    <3>. HIDE DEF S
    <3>. QED
         BY <2>3, <2>4
  <2>6. int64_to_string(n) = <<>> \o Decimal(n, k)
    <3>. DEFINE abs == IF n < 0 THEN Wrap(-n) ELSE n
                digits == IF abs > 0 THEN Decimal(abs, Min({j \in 1 .. Width \div 3 + 1 : abs < Ten[j]}))
                          ELSE <<>>
    <3>1. abs = n /\ ~(n < 0) /\ n > 0
          BY <1>1, <1>3
    <3>2. int64_to_string(n) = IF n = 0 THEN <<0>> ELSE (IF n < 0 THEN <<Minus>> ELSE <<>>) \o digits
          BY DEF int64_to_string
    <3>. HIDE DEF abs
    <3>3. digits = Decimal(n, k)
          BY <3>1
    <3>. HIDE DEF digits
    <3>. QED
         BY <1>3, <3>1, <3>2, <3>3
  <2>. HIDE DEF S, k
  <2>7. Digits(Decimal(n, k), n, k) /\ Len(Decimal(n, k)) = k
        BY <1>1, <2>5, DecimalDigits
  <2>8. <<>> \o Decimal(n, k) = Decimal(n, k)
        BY <2>7 DEF Digits
  <2>. QED
       BY <2>5, <2>6, <2>7, <2>8 DEF Whole
<1>. QED
     BY <1>2, <1>3

LEMMA FractionPrinted ==
    ASSUME NEW n \in 1 .. SCALE - 1
    PROVE  Rest(Fraction(n), n)
<1>. DEFINE d == Decimal(n, Places)
            S == {i \in 1 .. Places : d[i] # 0}
            m == Max(S)
<1>1. /\ Places \in Nat \ {0} /\ n \in Nat \ {0} /\ SCALE = Ten[Places] /\ SCALE \in Nat \ {0}
  <2>1. Places \in Nat \ {0} /\ SCALE = Ten[Places]
        BY WidthAssumption DEF SCALE
  <2>2. SCALE \in Nat \ {0}
        BY <2>1, PowerAt
  <2>. QED
       BY <2>1, <2>2
<1>2. /\ Digits(d, n, Places) /\ Len(d) = Places /\ d \in Seq(0 .. 9)
      /\ \A i \in 1 .. Places : d[i] = Digit(n, Places - i)
      BY <1>1, DecimalDigits DEF Digits
<1>. HIDE DEF d
<1>3. S # {}
  <2>1. SUFFICES ASSUME S = {} PROVE FALSE
        OBVIOUS
  <2>2. \A i \in 0 + 1 .. Places : Digit(n, Places - i) = 0
    <3>1. \A i \in 1 .. Places : d[i] = 0
          BY <2>1
    <3>. HIDE DEF S
    <3>2. 0 + 1 = 1
          OBVIOUS
    <3>. QED
         BY <1>2, <3>1, <3>2
  <2>3. 0 \in 0 .. Places /\ n \in Nat /\ Places - 0 = Places
        BY <1>1
  <2>4. n = Left(n, Places) * Ten[Places]
        BY <2>2, <2>3, TrailingZeros
  <2>5. Left(n, Places) = 0
        BY <1>1, DivSmall DEF Left
  <2>6. n = 0 * Ten[Places]
        BY <2>4, <2>5
  <2>. QED
       BY <1>1, <2>6
<1>4. S \in SUBSET (1 .. Places)
      OBVIOUS
<1>5. m \in S /\ \A i \in S : i <= m
  <2>. HIDE DEF S
  <2>. QED
       BY <1>1, <1>3, <1>4, GreatestOf
<1>6. m \in 1 .. Places /\ d[m] # 0
      BY <1>5
<1>7. \A i \in m + 1 .. Places : Digit(n, Places - i) = 0
  <2>1. SUFFICES ASSUME NEW i \in m + 1 .. Places PROVE Digit(n, Places - i) = 0
        OBVIOUS
  <2>2. i \in 1 .. Places /\ ~(i <= m)
        BY <1>1, <1>6
  <2>3. d[i] = 0
        BY <1>5, <2>2
  <2>. QED
       BY <1>2, <2>2, <2>3
<1>8. Fraction(n) = SubSeq(d, 1, m)
      BY DEF Fraction, d
<1>. HIDE DEF m, S
<1>9. /\ SubSeq(d, 1, m) \in Seq(0 .. 9) /\ Len(SubSeq(d, 1, m)) = m
      /\ \A i \in 1 .. m : SubSeq(d, 1, m)[i] = d[i]
  <2>1. 1 \in Int /\ m \in Int /\ \A i \in 1 .. m : d[i] \in 0 .. 9
        BY <1>1, <1>2, <1>6
  <2>. QED
       BY <1>6, <2>1, SubSeqProperties
<1>10. n = Left(n, Places - m) * Ten[Places - m]
       BY <1>1, <1>6, <1>7, TrailingZeros
<1>11. Digits(SubSeq(d, 1, m), n, Places)
  <2>1. \A i \in 1 .. m : SubSeq(d, 1, m)[i] = Digit(n, Places - i)
        BY <1>1, <1>2, <1>6, <1>9
  <2>. QED
       BY <1>6, <1>9, <2>1 DEF Digits
<1>. QED
     BY <1>6, <1>8, <1>9, <1>10, <1>11 DEF Rest

\* The digits before the point are worth that many units.
LEMMA WholeWorth ==
    ASSUME NEW u, Unsigned(u), NEW k \in 1 .. Len(u), Point(u) = k + 1,
           NEW n \in Nat, n < Ten[k], \A i \in 1 .. k : u[i] \in 0 .. 9 /\ u[i] = Digit(n, k - i),
           NEW sum, Contribute(sum, u)
    PROVE  sum[k] = n * SCALE
<1>1. Len(u) \in Nat /\ Places \in Nat /\ k \in Nat \ {0} /\ SCALE \in Nat
  <2>1. Len(u) \in Nat /\ Places \in Nat
        BY WidthAssumption DEF Unsigned
  <2>2. SCALE \in Nat
        BY <2>1, PowerAt DEF SCALE
  <2>. QED
       BY <2>1, <2>2
<1>2. ASSUME NEW j \in 1 .. k PROVE sum[j] = sum[j - 1] + Digit(n, k - j) * Ten[Places + (k - j)]
  <2>1. j \in 1 .. Len(u) /\ k - j \in Nat /\ Places + (k - j) \in Nat
        BY <1>1
  <2>2. Weight(u, j) = Places + (k - j)
        BY <1>1 DEF Weight
  <2>3. u[j] \in 0 .. 9 /\ u[j] = Digit(n, k - j)
        OBVIOUS
  <2>4. Share(u, j) = Digit(n, k - j) * Ten[Places + (k - j)]
        BY <2>1, <2>2, <2>3 DEF Share
  <2>. QED
       BY <2>1, <2>4 DEF Contribute
<1>3. sum[0] = 0 /\ sum[0] \in Int
      BY DEF Contribute
<1>4. k \in 0 .. k
      BY <1>1
<1>5. Leading(sum, n, k, Places, k)
      BY <1>2 DEF Leading
<1>6. sum[k] = sum[0] + Left(n, k - k) * Ten[Places + (k - k)]
      BY <1>1, <1>3, <1>4, <1>5, DigitsWorth
<1>7. k - k = 0 /\ Places + 0 = Places /\ Ten[0] = 1
      BY <1>1, Powers
<1>8. Left(n, 0) = n
  <2>1. n \div 1 = n
        OBVIOUS
  <2>. QED
       BY <1>7, <2>1 DEF Left
<1>. QED
     BY <1>1, <1>3, <1>6, <1>7, <1>8 DEF SCALE

\* A text without a fraction.
LEMMA WholePrinted ==
    ASSUME NEW n \in Nat, NEW u, Whole(u, n)
    PROVE  Unsigned(u) /\ Magnitude(u) = n * SCALE
<1>. DEFINE k == Len(u)
<1>1. /\ u \in Seq(0 .. 9) /\ k \in Nat \ {0} /\ DOMAIN u = 1 .. k /\ k \in 1 .. k
      /\ (\A i \in 1 .. k : u[i] = Digit(n, k - i)) /\ n < Ten[k]
      BY DEF Digits, Whole
<1>2. \A i \in 1 .. k : u[i] \in 0 .. 9 /\ u[i] # Dot
  <2>1. Dot \notin 0 .. 9
        BY TextsAssumption
  <2>. QED
       BY <1>1, <2>1
<1>3. u \in Seq((0 .. 9) \cup {Dot})
      BY <1>1
<1>4. Unsigned(u)
      BY <1>1, <1>2, <1>3 DEF Unsigned
<1>5. Point(u) = k + 1
  <2>1. Point(u) \in 1 .. k + 1 /\ (Point(u) <= k => u[Point(u)] = Dot)
        BY <1>3, PointAt
  <2>. QED
       BY <1>1, <1>2, <2>1
<1>6. PICK sum : Contribute(sum, u)
      BY <1>3, MagnitudeRun
<1>7. Magnitude(u) = sum[k]
      BY <1>6 DEF Contribute
<1>8. sum[k] = n * SCALE
      BY <1>1, <1>2, <1>4, <1>5, <1>6, WholeWorth
<1>. QED
     BY <1>4, <1>7, <1>8

\* A text with a fraction.
LEMMA BothPrinted ==
    ASSUME NEW n \in Nat, NEW d, Whole(d, n), NEW f \in Fractions, NEW e, Rest(e, f),
           NEW u, u = d \o (<<Dot>> \o e)
    PROVE  /\ Unsigned(u) /\ Magnitude(u) = Composed(n, f) /\ EndsAs(u, e)
<1>. DEFINE C == (0 .. 9) \cup {Dot}
            k == Len(d)
            m == Len(e)
<1>1. /\ d \in Seq(0 .. 9) /\ k \in Nat \ {0} /\ \A i \in 1 .. k : d[i] = Digit(n, k - i)
      BY DEF Digits, Whole
<1>2. /\ e \in Seq(0 .. 9) /\ m \in Nat \ {0} /\ m \in 1 .. Places
      /\ \A i \in 1 .. m : e[i] = Digit(f, Places - i)
      BY WidthAssumption DEF Digits, Rest
<1>3. Places \in Nat /\ SCALE \in Nat \ {0} /\ SCALE = Ten[Places] /\ f \in Nat
  <2>1. Places \in Nat /\ SCALE = Ten[Places]
        BY WidthAssumption DEF SCALE
  <2>2. SCALE \in Nat \ {0}
        BY <2>1, PowerAt
  <2>. QED
       BY <2>1, <2>2 DEF Fractions
<1>4. /\ u \in Seq(C) /\ Len(u) = k + 1 + m
      /\ \A i \in 1 .. k : u[i] = d[i]
      /\ u[k + 1] = Dot
      /\ \A i \in 1 .. m : u[(k + 1) + i] = e[i]
  <2>. DEFINE t == <<Dot>> \o e
  <2>1. d \in Seq(C) /\ e \in Seq(C) /\ <<Dot>> \in Seq(C)
        BY <1>1, <1>2
  <2>2. t \in Seq(C) /\ Len(t) = 1 + m /\ t[1] = Dot
        BY <1>2, <2>1
  <2>3. \A i \in 1 .. m : t[1 + i] = e[i]
        BY <1>2, <2>1
  <2>4. u = d \o t
        OBVIOUS
  <2>. HIDE DEF t, C
  <2>5. u \in Seq(C) /\ Len(u) = k + (1 + m)
        BY <2>1, <2>2, <2>4
  <2>6. \A i \in 1 .. k : u[i] = d[i]
        BY <1>1, <2>1, <2>2, <2>4
  <2>7. \A i \in 1 .. 1 + m : u[k + i] = t[i]
        BY <1>1, <1>2, <2>1, <2>2, <2>4
  <2>8. u[k + 1] = Dot
        BY <1>2, <2>2, <2>7
  <2>9. ASSUME NEW i \in 1 .. m PROVE u[(k + 1) + i] = e[i]
    <3>1. 1 + i \in 1 .. 1 + m /\ k + (1 + i) = (k + 1) + i
          BY <1>1, <1>2
    <3>. QED
         BY <2>3, <2>7, <3>1
  <2>. QED
       BY <1>1, <1>2, <2>5, <2>6, <2>8, <2>9
<1>5. Dot \notin 0 .. 9
      BY TextsAssumption
<1>6. \A i \in 1 .. k : u[i] \in 0 .. 9 /\ u[i] = Digit(n, k - i)
      BY <1>1, <1>4
<1>7. ASSUME NEW i \in 1 .. m
      PROVE  /\ u[(k + 1) + i] \in 0 .. 9 /\ u[(k + 1) + i] = Digit(f, Places - i)
      BY <1>2, <1>4
<1>. HIDE DEF C, k, m
<1>0. k \in Nat \ {0} /\ m \in Nat \ {0} /\ Len(u) = k + 1 + m
      BY <1>1, <1>2, <1>4
<1>8. ASSUME NEW i \in 1 .. Len(u), u[i] = Dot PROVE i = k + 1
  <2>1. ~(i \in 1 .. k)
        BY <1>5, <1>6, <1>8
  <2>2. CASE i > k + 1
    <3>1. i - (k + 1) \in 1 .. m /\ (k + 1) + (i - (k + 1)) = i
          BY <1>0, <2>2
    <3>2. u[i] \in 0 .. 9
          BY <1>7, <3>1
    <3>. QED
         BY <1>5, <1>8, <3>2
  <2>. QED
       BY <1>0, <2>1, <2>2
<1>9. Unsigned(u)
  <2>1. DOMAIN u = 1 .. Len(u)
        BY <1>4
  <2>. QED
       BY <1>4, <1>8, <2>1 DEF Unsigned, C
<1>10. Point(u) = k + 1
  <2>1. /\ Point(u) \in 1 .. Len(u) + 1 /\ (\A i \in 1 .. Point(u) - 1 : u[i] # Dot)
        /\ (Point(u) <= Len(u) => u[Point(u)] = Dot)
        BY <1>4, PointAt
  <2>2. k + 1 \in 1 .. Len(u) /\ Len(u) \in Nat
        BY <1>0
  <2>3. ~(k + 1 \in 1 .. Point(u) - 1)
        BY <1>4, <2>1
  <2>. DEFINE p == Point(u)
  <2>4. p \in 1 .. Len(u) /\ u[p] = Dot
    <3>. HIDE DEF p
    <3>. QED
         BY <1>1, <2>1, <2>2, <2>3 DEF p
  <2>. QED
       BY <1>8, <2>4
<1>11. PICK sum : Contribute(sum, u)
       BY <1>4, MagnitudeRun
<1>12. sum[k] = n * SCALE /\ sum[k] \in Int
  <2>1. k \in 1 .. Len(u) /\ k \in 0 .. Len(u)
        BY <1>0
  <2>2. n < Ten[k]
        BY DEF k, Whole
  <2>3. sum[k] = n * SCALE
        BY <1>6, <1>9, <1>10, <1>11, <2>1, <2>2, WholeWorth
  <2>. QED
       BY <1>11, <2>1, <2>3 DEF Contribute
<1>13. sum[k + 1] = sum[k]
  <2>1. k + 1 \in 1 .. Len(u) /\ (k + 1) - 1 = k
        BY <1>0
  <2>2. Share(u, k + 1) = 0
        BY <1>4, <1>5 DEF Share
  <2>3. sum[k + 1] = sum[(k + 1) - 1] + Share(u, k + 1)
        BY <1>11, <2>1 DEF Contribute
  <2>. QED
       BY <1>12, <2>1, <2>2, <2>3
<1>. DEFINE t == [j \in 0 .. m |-> sum[(k + 1) + j]]
<1>14. t[0] = n * SCALE /\ t[0] \in Int /\ t[m] = sum[Len(u)]
  <2>1. 0 \in 0 .. m /\ m \in 0 .. m /\ (k + 1) + 0 = k + 1 /\ (k + 1) + m = Len(u)
        BY <1>0
  <2>. QED
       BY <1>12, <1>13, <2>1
<1>15. ASSUME NEW j \in 1 .. m
       PROVE  t[j] = t[j - 1] + Digit(f, Places - j) * Ten[0 + (Places - j)]
  <2>0. k \in Nat /\ m \in Nat /\ Places \in Nat /\ j \in Nat /\ 1 <= j /\ j <= m /\ m <= Places
        BY <1>1, <1>2, <1>3
  <2>1. /\ j \in 0 .. m /\ j - 1 \in 0 .. m /\ (k + 1) + j \in 1 .. k + 1 + m
        /\ ((k + 1) + j) - 1 = (k + 1) + (j - 1)
        /\ Places - j \in Nat /\ 0 + (Places - j) = Places - j
        BY <2>0
  <2>2. Weight(u, (k + 1) + j) = Places - j
        BY <1>10, <2>0 DEF Weight
  <2>3. Share(u, (k + 1) + j) = Digit(f, Places - j) * Ten[Places - j]
    <3>1. u[(k + 1) + j] \in 0 .. 9 /\ u[(k + 1) + j] = Digit(f, Places - j)
          BY <1>7
    <3>2. Weight(u, (k + 1) + j) >= 0
          BY <2>1, <2>2
    <3>. QED
         BY <2>2, <3>1, <3>2 DEF Share
  <2>4. sum[(k + 1) + j] = sum[(k + 1) + (j - 1)] + Share(u, (k + 1) + j)
        BY <1>4, <1>11, <2>1 DEF Contribute
  <2>. QED
       BY <2>1, <2>3, <2>4
<1>. HIDE DEF t
<1>16. Leading(t, f, Places, 0, m)
       BY <1>15 DEF Leading
<1>17. m \in 0 .. Places /\ f < Ten[Places]
       BY <1>2, <1>3 DEF Fractions
<1>18. t[m] = t[0] + Left(f, Places - m) * Ten[0 + (Places - m)]
       BY <1>3, <1>14, <1>16, <1>17, DigitsWorth
<1>19. 0 + (Places - m) = Places - m
       BY <1>2, <1>3
<1>20. t[m] = n * SCALE + f
       BY <1>14, <1>18, <1>19 DEF m, Rest
<1>21. Magnitude(u) = n * SCALE + f
       BY <1>11, <1>14, <1>20 DEF Contribute
<1>22. u[Len(u)] = e[m]
  <2>1. m \in 1 .. m /\ (k + 1) + m = Len(u)
        BY <1>0
  <2>. QED
       BY <1>4, <2>1
<1>. QED
     BY <1>0, <1>9, <1>21, <1>22 DEF k, m, Composed, EndsAs

\* What is printed of a price's magnitude.
Printed(a) ==
    LET integer_part == a \div SCALE
        fractional_part == a - integer_part * SCALE
    IN  int64_to_string(integer_part)
        \o (IF fractional_part > 0 THEN <<Dot>> \o Fraction(fractional_part) ELSE <<>>)

\* There is no more after a point than there must be.
Shortest(u) == Dot \in {u[i] : i \in DOMAIN u} => u[Len(u)] \notin {0, Dot}

\* It says that magnitude.
LEMMA MagnitudePrinted ==
    ASSUME NEW a \in 0 .. max
    PROVE  Unsigned(Printed(a)) /\ Magnitude(Printed(a)) = a /\ Shortest(Printed(a))
           /\ Printed(a) # <<>>
<1>. DEFINE n == a \div SCALE
            f == a - n * SCALE
            d == int64_to_string(n)
            e == Fraction(f)
<1>1. SCALE \in Nat \ {0} /\ a \in Nat /\ max \in Nat
  <2>1. SCALE \in Nat \ {0}
        BY WidthAssumption, PowerAt DEF SCALE
  <2>. QED
       BY <2>1, Registers
<1>2. n \in Nat /\ n \in 0 .. a /\ n * SCALE \in Int /\ f \in 0 .. SCALE - 1 /\ n * SCALE + f = a
  <2>. DEFINE r == a % SCALE
  <2>1. n \in Nat /\ r \in 0 .. SCALE - 1 /\ a = n * SCALE + r
        BY <1>1, DivParts DEF Division
  <2>2. n \in 0 .. a
        BY <1>1, DivisionShrinks
  <2>. HIDE DEF n, r
  <2>3. n * SCALE \in Int
        BY <1>1, <2>1
  <2>. QED
       BY <1>1, <2>1, <2>2, <2>3
<1>. HIDE DEF n
<1>3. Printed(a) = d \o (IF f > 0 THEN <<Dot>> \o e ELSE <<>>)
      BY DEF Printed, n
<1>. HIDE DEF f
<1>4. n \in 0 .. max
      BY <1>1, <1>2
<1>5. Whole(d, n)
      BY <1>4, IntegerPrinted
<1>. HIDE DEF d, e
<1>6. d \in Seq(0 .. 9) /\ Len(d) \in Nat \ {0}
      BY <1>5 DEF Digits, Whole
<1>7. Dot \notin 0 .. 9
      BY TextsAssumption
<1>8. CASE f > 0
  <2>1. f \in 1 .. SCALE - 1
        BY <1>1, <1>2, <1>8
  <2>2. Rest(e, f)
        BY <2>1, FractionPrinted DEF e
  <2>3. Printed(a) = d \o (<<Dot>> \o e)
        BY <1>3, <1>8
  <2>4. /\ Unsigned(Printed(a)) /\ Magnitude(Printed(a)) = n * SCALE + f /\ EndsAs(Printed(a), e)
    <3>. DEFINE u == Printed(a)
    <3>1. u = d \o (<<Dot>> \o e)
          BY <2>3
    <3>. HIDE DEF u
    <3>2. n \in Nat /\ f \in Fractions
          BY <1>2 DEF Fractions
    <3>4. /\ Unsigned(u) /\ Magnitude(u) = Composed(n, f) /\ EndsAs(u, e)
          BY <1>5, <2>2, <3>1, <3>2, BothPrinted
    <3>. QED
         BY <3>4 DEF u, Composed
  <2>5. Len(e) \in Nat /\ e[Len(e)] \in 0 .. 9
    <3>1. e \in Seq(0 .. 9) /\ Len(e) \in Nat /\ Len(e) \in 1 .. Len(e)
          BY <2>2, WidthAssumption DEF Digits, Rest
    <3>. QED
         BY <3>1
  <2>6. Printed(a) # <<>>
        BY <2>4 DEF EndsAs
  <2>7. Shortest(Printed(a))
        BY <1>7, <2>2, <2>4, <2>5 DEF Shortest, Rest, EndsAs
  <2>. QED
       BY <1>2, <2>4, <2>6, <2>7
<1>9. CASE ~(f > 0)
  <2>1. f = 0 /\ n * SCALE = a
        BY <1>1, <1>2, <1>9
  <2>2. Printed(a) = d
        BY <1>3, <1>6, <1>9, ConcatEmptySeq
  <2>3. Unsigned(d) /\ Magnitude(d) = n * SCALE
        BY <1>2, <1>5, WholePrinted
  <2>4. Shortest(d)
        BY <1>6, <1>7 DEF Shortest
  <2>5. d # <<>>
        BY <1>6
  <2>. QED
       BY <2>1, <2>2, <2>3, <2>4, <2>5
<1>. QED
     BY <1>8, <1>9

\* A price is printed as its magnitude, with its sign.
LEMMA SignPrinted ==
    ASSUME NEW v \in min .. max, v # min, v # 0
    PROVE  IF v < 0 THEN -v \in 0 .. max /\ to_string(v) = <<Minus>> \o Printed(-v)
                    ELSE v \in 0 .. max /\ to_string(v) = Printed(v)
<1>. DEFINE abs == IF v < 0 THEN Wrap(-v) ELSE v
            n == Quotient(abs, SCALE)
            f == abs - n * SCALE
            d == int64_to_string(n)
            e == IF f > 0 THEN <<Dot>> \o Fraction(f) ELSE <<>>
            C == (0 .. 9) \cup {Dot, Minus}
<1>1. v \in Int /\ max \in Nat /\ min = -max - 1 /\ SCALE \in Nat \ {0}
  <2>1. SCALE \in Nat \ {0}
        BY WidthAssumption, PowerAt DEF SCALE
  <2>. QED
       BY <2>1, Registers
<1>2. -v \in Int /\ (v < 0 => -v \in min .. max /\ -v \in 0 .. max)
      BY <1>1
<1>3. abs = (IF v < 0 THEN -v ELSE v) /\ abs \in 0 .. max /\ abs \in Nat
  <2>1. v < 0 => Wrap(-v) = -v
        BY <1>2, WrapExact
  <2>. QED
       BY <1>1, <1>2, <2>1
<1>4. to_string(v) = ((IF v < 0 THEN <<Minus>> ELSE <<>>) \o d) \o e
      BY DEF to_string
<1>. HIDE DEF abs
<1>5. n = abs \div SCALE
      BY <1>1, <1>3 DEF Quotient, Abs
<1>6. Printed(abs) = d \o e
      BY <1>5 DEF Printed
<1>7. d \in Seq(C)
  <2>1. abs \div SCALE \in 0 .. abs
        BY <1>1, <1>3, DivisionShrinks
  <2>2. n \in 0 .. max
    <3>. HIDE DEF n
    <3>. QED
         BY <1>1, <1>3, <1>5, <2>1
  <2>. HIDE DEF n
  <2>3. d \in Seq(0 .. 9)
        BY <2>2, IntegerPrinted DEF Digits, Whole
  <2>. QED
       BY <2>3
<1>8. e \in Seq(C)
  <2>1. CASE f > 0
    <3>1. f \in 1 .. SCALE - 1
      <4>. DEFINE q == abs \div SCALE
                  r == abs % SCALE
      <4>1. q \in Nat /\ r \in 0 .. SCALE - 1 /\ abs = q * SCALE + r
            BY <1>1, <1>3, DivParts DEF Division
      <4>2. f = abs - q * SCALE
            BY <1>5
      <4>. HIDE DEF q, r, f
      <4>3. q * SCALE \in Int
            BY <1>1, <4>1
      <4>. QED
           BY <1>1, <1>3, <2>1, <4>1, <4>2, <4>3
    <3>. HIDE DEF f
    <3>2. Fraction(f) \in Seq(0 .. 9)
          BY <3>1, FractionPrinted DEF Digits, Rest
    <3>3. <<Dot>> \in Seq(C) /\ Fraction(f) \in Seq(C)
          BY <3>2
    <3>. HIDE DEF C
    <3>4. <<Dot>> \o Fraction(f) \in Seq(C)
          BY <3>3
    <3>. QED
         BY <2>1, <3>4
  <2>2. CASE ~(f > 0)
        BY <2>2
  <2>. QED
       BY <2>1, <2>2
<1>. HIDE DEF d, e, C
<1>9. CASE v < 0
  <2>1. to_string(v) = (<<Minus>> \o d) \o e
        BY <1>4, <1>9
  <2>2. <<Minus>> \in Seq(C)
        BY DEF C
  <2>3. (<<Minus>> \o d) \o e = <<Minus>> \o (d \o e)
        BY <1>7, <1>8, <2>2, ConcatAssociative
  <2>. QED
       BY <1>2, <1>3, <1>6, <1>9, <2>1, <2>3
<1>10. CASE ~(v < 0)
  <2>1. to_string(v) = (<<>> \o d) \o e
        BY <1>4, <1>10
  <2>2. <<>> \o d = d
        BY <1>7, ConcatEmptySeq
  <2>. QED
       BY <1>3, <1>6, <1>10, <2>1, <2>2
<1>. QED
     BY <1>9, <1>10

\* With its sign it is read back as the price.
LEMMA RangeReadsBack == PriceInv => PrintedReadsBack
<1>. SUFFICES ASSUME NEW v \in min .. max, v # min
              PROVE  from_string(to_string(v)) = v /\ Shortest(to_string(v))
     BY DEF PriceInv, PrintedReadsBack, Shortest
<1>1. v \in Int /\ max \in Nat /\ min = -max - 1 /\ min \in Int
      BY Registers
<1>2. Wrap(v) = v
      BY <1>1, WrapExact
<1>3. CASE v = 0
  <2>. DEFINE u == to_string(v)
  <2>1. 0 \in 0 .. max /\ 0 \in Nat
        BY <1>1
  <2>2. u = int64_to_string(0)
        BY <1>3 DEF to_string, int64_to_string
  <2>3. Whole(u, 0)
        BY <2>1, <2>2, IntegerPrinted
  <2>. HIDE DEF u
  <2>4. Unsigned(u) /\ Magnitude(u) = 0 * SCALE
        BY <2>1, <2>3, WholePrinted
  <2>5. 0 * SCALE = 0
    <3>1. SCALE \in Int
          BY WidthAssumption, PowerAt DEF SCALE
    <3>. QED
         BY <3>1
  <2>6. from_string(u) = v
        BY <1>2, <1>3, <2>4, <2>5, NumberParsed
  <2>7. u \in Seq(0 .. 9)
        BY <2>3 DEF Digits, Whole
  <2>8. Shortest(u)
    <3>1. Dot \notin 0 .. 9
          BY TextsAssumption
    <3>. QED
         BY <2>7, <3>1 DEF Shortest
  <2>. QED
       BY <2>6, <2>8 DEF u
<1>4. CASE v > 0
  <2>1. v \in 0 .. max /\ to_string(v) = Printed(v)
        BY <1>1, <1>4, SignPrinted
  <2>2. Unsigned(Printed(v)) /\ Magnitude(Printed(v)) = v /\ Shortest(Printed(v))
        BY <2>1, MagnitudePrinted
  <2>3. from_string(Printed(v)) = Wrap(v)
        BY <2>2, NumberParsed
  <2>. QED
       BY <1>2, <2>1, <2>2, <2>3
<1>5. CASE v < 0
  <2>. DEFINE a == -v
              u == Printed(a)
              s == <<Minus>> \o u
  <2>1. a \in 0 .. max /\ to_string(v) = s /\ -a = v
        BY <1>1, <1>5, SignPrinted
  <2>. HIDE DEF a
  <2>2. Unsigned(u) /\ Magnitude(u) = a /\ Shortest(u) /\ u # <<>>
        BY <2>1, MagnitudePrinted
  <2>. HIDE DEF u
  <2>3. from_string(s) = Wrap(-a)
        BY <2>2, NumberParsed
  <2>4. /\ s # <<>> /\ s[1] = Minus /\ Len(s) = Len(u) + 1 /\ s \in Seq((0 .. 9) \cup {Dot, Minus})
        /\ \A i \in 1 .. Len(u) : s[i + 1] = u[i]
        BY <2>2, WithSign
  <2>. HIDE DEF s
  <2>5. u \in Seq((0 .. 9) \cup {Dot}) /\ Len(u) \in Nat \ {0} /\ DOMAIN u = 1 .. Len(u)
        BY <2>2 DEF Unsigned
  <2>6. Shortest(s)
    <3>1. SUFFICES ASSUME NEW i \in DOMAIN s, s[i] = Dot PROVE s[Len(s)] \notin {0, Dot}
          BY DEF Shortest
    <3>2. DOMAIN s = 1 .. Len(u) + 1 /\ i \in 1 .. Len(u) + 1
          BY <2>4
    <3>3. i # 1
          BY <2>4, <3>1, TextsAssumption
    <3>4. i - 1 \in DOMAIN u /\ (i - 1) + 1 = i
          BY <2>5, <3>2, <3>3
    <3>5. u[i - 1] = Dot
          BY <2>4, <2>5, <3>1, <3>4
    <3>6. u[Len(u)] \notin {0, Dot}
          BY <2>2, <3>4, <3>5 DEF Shortest
    <3>7. s[Len(s)] = u[Len(u)]
          BY <2>4, <2>5
    <3>. QED
         BY <3>6, <3>7
  <2>. QED
       BY <1>2, <2>1, <2>3, <2>6
<1>. QED
     BY <1>1, <1>3, <1>4, <1>5

\* For registers of any width, any number of places and calculations of any length:
\* what is printed of a price, min() apart, is read back as that price, and after a
\* point there is no zero at the end, nor nothing at all (Price::to_string(),
\* from_string(), int64_to_string()).
THEOREM PrintedAlwaysReadsBack == CalculationSpec => []PrintedReadsBack
<1>1. CalculationSpec => []PriceInv
      BY PriceStep, PTL DEF CalculationSpec
<1>. QED
     BY <1>1, RangeReadsBack, PTL

=============================================================================
