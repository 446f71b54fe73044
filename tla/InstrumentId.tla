---------------------------- MODULE InstrumentId ----------------------------
(***************************************************************************)
(* InstrumentId of src/core/instrument.hpp, the key under which books are  *)
(* kept: an exchange and an array of Cells characters that holds a symbol  *)
(* and the null character behind it.  set_symbol() writes the new symbol   *)
(* over the old one and leaves what is behind the null character.          *)
(*                                                                         *)
(* Two identifiers are constructed, changed and compared.  Cells is 15 in  *)
(* the code.                                                               *)
(***************************************************************************)
EXTENDS Integers, Sequences

CONSTANTS
    Cells,          \* characters of symbol_data
    Exchanges,      \* ExchangeId, numbered
    Characters,     \* characters of symbols, numbered as char compares them, NUL too
    MaxLength       \* bound on the symbols the identifiers are given

ASSUME CellsAssumption == Cells \in Nat /\ Cells > 1
ASSUME NumbersAssumption == Exchanges \subseteq Int /\ Characters \subseteq Int
ASSUME MaxLengthAssumption == MaxLength \in Nat

Ids == {1, 2}
NUL == 0
Symbols == UNION {[1 .. n -> Characters] : n \in 0 .. MaxLength}

VARIABLES
    id,     \* the identifiers
    given   \* history: the symbols they were last given

idVars == <<id, given>>

\* How much of a symbol is kept: the last cell is for the null character.
Kept(sv) == IF Len(sv) < Cells - 1 THEN Len(sv) ELSE Cells - 1

\* Seeded bug: the null character is not written behind the symbol.
WrittenOpen(data, sv) == [i \in 1 .. Cells |-> IF i <= Kept(sv) THEN sv[i] ELSE data[i]]

\* What set_symbol(sv) makes of symbol_data.
Written(data, sv) ==
    [i \in 1 .. Cells |->
        IF i <= Kept(sv) THEN sv[i] ELSE IF i = Kept(sv) + 1 THEN NUL ELSE data[i]]

Blank == [i \in 1 .. Cells |-> NUL]

\* The default constructor; exchange is left uninitialized.
IdInit ==
    /\ id \in [Ids -> [exchange : Exchanges, symbol_data : {Blank}]]
    /\ given = [i \in Ids |-> <<>>]

\* The constructors, assigned to an identifier.  The one for literals takes at most
\* Cells characters and copies as many as set_symbol() does.
Construct(i, ex, sym) ==
    /\ id' = [id EXCEPT ![i] = [exchange |-> ex, symbol_data |-> Written(Blank, sym)]]
    /\ given' = [given EXCEPT ![i] = sym]

set_symbol(i, sv) ==
    /\ id' = [id EXCEPT ![i].symbol_data = Written(@, sv)]
    /\ given' = [given EXCEPT ![i] = sv]

IdNext ==
    \E i \in Ids, sym \in Symbols :
        \/ \E ex \in Exchanges : Construct(i, ex, sym)
        \/ set_symbol(i, sym)

IdSpec == IdInit /\ [][IdNext]_idVars

-----------------------------------------------------------------------------
(* The comparisons: loops over the cells that stop at a difference or at a *)
(* null character.                                                         *)

\* The loops come to cell k of a with no difference and no end before it.
Reached(a, b, k) ==
    \A j \in 1 .. k - 1 : a.symbol_data[j] = b.symbol_data[j] /\ a.symbol_data[j] # NUL

Equal(a, b) ==
    /\ a.exchange = b.exchange
    /\ \A k \in 1 .. Cells : Reached(a, b, k) => a.symbol_data[k] = b.symbol_data[k]

\* operator<=> is less.
Less(a, b) ==
    \/ a.exchange < b.exchange
    \/ /\ a.exchange = b.exchange
       /\ \E k \in 1 .. Cells : Reached(a, b, k) /\ a.symbol_data[k] < b.symbol_data[k]

\* symbol(): what is before the first null character.
Length(a) ==
    CHOOSE n \in 0 .. Cells :
        /\ n = Cells \/ a.symbol_data[n + 1] = NUL
        /\ \A k \in 1 .. n : a.symbol_data[k] # NUL
symbol(a) == SubSeq(a.symbol_data, 1, Length(a))

\* What InstrumentIdHash hashes.
Hashed(a) == <<symbol(a), a.exchange>>

-----------------------------------------------------------------------------
(* Correctness.                                                            *)

\* What shows of a symbol ends with the cells there are for it, or at a null
\* character in it.
EndsAt(sv, n) ==
    /\ n = Kept(sv) \/ sv[n + 1] = NUL
    /\ \A k \in 1 .. n : sv[k] # NUL
Shown(sv) == CHOOSE n \in 0 .. Kept(sv) : EndsAt(sv, n)
Cut(sv) == SubSeq(sv, 1, Shown(sv))

\* Identifiers are equal exactly when their exchanges are and the symbols they were
\* last given agree in what shows of them: what an earlier, longer symbol left in the
\* array does not, nor what is behind a null character in a symbol, and a symbol too
\* long is the same key as any other that begins as it does.
EqualAsGiven ==
    \A i, j \in Ids :
        Equal(id[i], id[j]) <=>
            id[i].exchange = id[j].exchange /\ Cut(given[i]) = Cut(given[j])

\* The three ways to look an identifier up agree on that: of two identifiers one is
\* less, unless they are equal, and equal ones are hashed alike; so a book is found
\* in a sorted map and in a hash map by the symbol it was put in with.
SameKey ==
    /\ EqualAsGiven
    /\ \A i, j \in Ids :
          /\ Less(id[i], id[j]) <=> ~Less(id[j], id[i]) /\ ~Equal(id[i], id[j])
          /\ Equal(id[i], id[j]) <=> Hashed(id[i]) = Hashed(id[j])

=============================================================================
