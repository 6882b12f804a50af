-------------------------- MODULE MCLoadStoreUnit --------------------------
EXTENDS LoadStoreUnit

Load(type, ext, a, b) ==
  [we |-> FALSE, type |-> type, ext |-> ext, a |-> a, b |-> b, useincr |-> TRUE]
Store(type, a, b) ==
  [we |-> TRUE, type |-> type, ext |-> "zero", a |-> a, b |-> b, useincr |-> TRUE]
PostIncrement(acc) == [acc EXCEPT !.useincr = FALSE]

\* A word at every offset of the first word, halves where they are whole and
\* where they are split, so that a split access goes on in the second word; one
\* at the top, where the address wraps; and some with post-increment.
MCAccess ==
  {Load("word", "zero", o, 0) : o \in Lane}
  \cup {Load("half", "sign", o, 0) : o \in {1, 3}}
  \cup {Load("byte", "zero", 2, 3), Load("half", "ones", 7, 0)}
  \cup {Store("word", 2, 1), Store("half", 3, 0)}
  \cup {PostIncrement(Load("word", "zero", 5, 4)), PostIncrement(Store("word", 7, 1))}
=============================================================================
