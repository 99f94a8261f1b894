-------------------------------- MODULE Pdict --------------------------------
(***************************************************************************)
(* The dictionary of dict/pdict.c: entries in a tree, each with its value  *)
(* and the listeners of its key, and the persistent listeners, each with   *)
(* the pattern it was added with.  A pattern is the set of keys it matches *)
(* and a listener is named by its function and argument.  The operators    *)
(* return the dictionary a call leaves behind; Notes and Current are what  *)
(* the listeners are called with meanwhile.  Failing allocations are left  *)
(* out.                                                                    *)
(***************************************************************************)
EXTENDS Ptree, SequencesExt

\* The value of a key that is not in the dictionary.
NoValue == "none"

EmptyPdict ==
    [ents |-> EmptyTree, vals |-> [k \in Values |-> NoValue],
     hears |-> [k \in Values |-> <<>>], listeners |-> <<>>]

Has(d, k) == Holds(d.ents, k)

\* The elements of s at the places I, in their order.
Chosen(s, I) ==
    LET place(j) == CHOOSE i \in I : Cardinality({h \in I : h <= i}) = j
    IN [j \in 1..Cardinality(I) |-> s[place(j)]]

\* The persistent listeners whose pattern matches k.
Matching(d, k) ==
    LET ls == Chosen(d.listeners, {i \in DOMAIN d.listeners : k \in d.listeners[i].pattern})
    IN [i \in DOMAIN ls |-> ls[i].who]

\* _pdict_ent_notify: the calls made for an entry.
Notes(d, k, v, reason) ==
    [i \in DOMAIN d.hears[k] |->
        [to |-> d.hears[k][i], key |-> k, val |-> v, reason |-> reason]]

\* pdict_add: an entry takes the value, or comes with the listeners that
\* match.
PdictAdd(d, k, v) ==
    IF Has(d, k) THEN [d EXCEPT !.vals[k] = v]
    ELSE [d EXCEPT !.ents = With(d.ents, k), !.vals[k] = v, !.hears[k] = Matching(d, k)]

AddNotes(d, k, v) ==
    Notes(PdictAdd(d, k, v), k, v, IF Has(d, k) THEN "changed" ELSE "added")

\* pdict_ent_remove.
PdictRemove(d, k) ==
    [d EXCEPT !.ents = Without(d.ents, k), !.vals[k] = NoValue, !.hears[k] = <<>>]

RemoveNotes(d, k) == Notes(d, k, d.vals[k], "removing")

\* pdict_add_persistent_change_listener: it joins every entry that matches
\* and is called with its value, in the order of the tree.
PdictListen(d, who, pattern) ==
    [d EXCEPT !.listeners = Append(@, [who |-> who, pattern |-> pattern]),
              !.hears = [k \in Values |-> IF Has(d, k) /\ k \in pattern
                                          THEN Append(@[k], who) ELSE @[k]]]

Current(d, who, pattern) ==
    LET all == InOrder(d.ents)
        ks == Chosen(all, {i \in DOMAIN all : all[i] \in pattern})
    IN [i \in DOMAIN ks |->
           [to |-> who, key |-> ks[i], val |-> d.vals[ks[i]], reason |-> "current"]]

\* pdict_remove_persistent_change_listener: every entry loses its first
\* listener of that name.
PdictIgnore(d, who) ==
    [d EXCEPT !.listeners = RemoveFirstMatch(@, LAMBDA l : l.who = who),
              !.hears = [k \in Values |-> RemoveFirst(@[k], who)]]

-----------------------------------------------------------------------------
(* The tree holds what has a value, which is what is found in it, and the    *)
(* listeners of each key are those whose pattern matches it.                 *)
Sound(d) ==
    LET held == {k \in Values : d.vals[k] /= NoValue}
    IN /\ Verified(d.ents, held)
       /\ \A k \in Values : Has(d, k) <=> k \in held
       /\ \A k \in Values :
             d.hears[k] = IF k \in held THEN Matching(d, k) ELSE <<>>
=============================================================================
