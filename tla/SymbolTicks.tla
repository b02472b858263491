----------------------------- MODULE SymbolTicks -----------------------------
(***************************************************************************)
(* The expert's table of registered symbols: registeredInstruments and the *)
(* arrays bids and asks, which hold the price sent last for the symbol of  *)
(* the same index.  Bids and asks always change together, so that the      *)
(* model has one array of them.                                            *)
(***************************************************************************)
EXTENDS Naturals, SequencesExt

CONSTANTS
  Symbols,
  Prices,
  Unset     \* the price 0.0 that ArrayInitialize() writes

ASSUME SymbolTicksAssumption == Prices # {} /\ Unset \notin Prices

Tables == [names : Seq(Symbols), sent : Seq(Prices \cup {Unset})]
EmptyTable == [names |-> <<>>, sent |-> <<>>]

(* ArrayResize() and ArrayInitialize() of bids and asks.  A negative size  *)
(* is refused.                                                             *)
Zeroed(n) == [i \in 1..n |-> Unset]

(* Mutant: no test whether the symbol is registered already.               *)
RegisterAgain(t, s) ==
  [names |-> Append(t.names, s), sent |-> Zeroed(Len(t.sent) + 1)]

(* HandleRegisterSymbol(s, true).                                          *)
Register(t, s) ==
  IF Contains(t.names, s)
    THEN t
    ELSE [names |-> Append(t.names, s), sent |-> Zeroed(Len(t.sent) + 1)]

(* The last symbol takes the place of s.                                   *)
Without(names, s) ==
  IF Contains(names, s)
    THEN Front([i \in DOMAIN names |-> IF names[i] = s THEN Last(names) ELSE names[i]])
    ELSE names

Shorter(n) == IF n = 0 THEN 0 ELSE n - 1

(* Mutant: the prices of the symbols that stay are kept.                   *)
UnregisterKeepsPrices(t, s) ==
  [names |-> Without(t.names, s), sent |-> SubSeq(t.sent, 1, Shorter(Len(t.sent)))]

(* HandleRegisterSymbol(s, false): the arrays shrink, registered or not.   *)
Unregister(t, s) ==
  [names |-> Without(t.names, s), sent |-> Zeroed(Shorter(Len(t.sent)))]

------------------------------------------------------------------------------
(* UpdateTicks()                                                           *)

Reached(t) == DOMAIN t.names \cap DOMAIN t.sent

(* Reading bids past its end stops the expert.                             *)
PastEnd(t) == Len(t.sent) < Len(t.names)

(* The price of the symbol of index i is not the one sent last.            *)
Changed(t, market, i) == i \in Reached(t) /\ market[t.names[i]] # t.sent[i]
TickOf(t, market, i) == [symbol |-> t.names[i], price |-> market[t.names[i]]]

(* Mutant: the loop ends before the last symbol.                           *)
TicksButLast(t, market) ==
  LET upTo[i \in 0..Len(t.names)] ==
        IF i = 0 THEN <<>>
        ELSE IF Changed(t, market, i) /\ i < Len(t.names)
          THEN Append(upTo[i - 1], TickOf(t, market, i))
          ELSE upTo[i - 1]
  IN  upTo[Len(t.names)]

(* The prices sent, in the order of the table.                             *)
Ticks(t, market) ==
  LET upTo[i \in 0..Len(t.names)] ==
        IF i = 0 THEN <<>>
        ELSE IF Changed(t, market, i)
          THEN Append(upTo[i - 1], TickOf(t, market, i))
          ELSE upTo[i - 1]
  IN  upTo[Len(t.names)]

(* The table with the prices sent.                                         *)
Ticked(t, market) ==
  [t EXCEPT !.sent = [i \in DOMAIN @ |->
                        IF i \in Reached(t) THEN market[t.names[i]] ELSE @[i]]]

==============================================================================
